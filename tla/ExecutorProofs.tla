--------------------------- MODULE ExecutorProofs ---------------------------
(***************************************************************************)
(* What Execute returns is right for every command: any number of          *)
(* processes, any limit on the output and any length of it.                *)
(***************************************************************************)
EXTENDS Executor, TLAPS

\* What the copiers have read of s, and the notice after a timeout.
Received(s) ==
    written[s] - pipe[s]
      + (IF s = "stderr" /\ phase = "returned" /\ result.timedOut THEN NoticeSize ELSE 0)

\* The buffers against the traffic of the pipes.
FlowInv ==
    \A s \in Streams :
        /\ pipe[s] <= written[s]
        /\ kept[s] = Least(Received(s), MaxOutput)
        /\ truncated[s] = (Received(s) > MaxOutput)

\* How far Execute, Wait and the copiers may be ahead of each other.
StageInv ==
    /\ phase = "new" => waiter = "none"
    /\ waiter = "none" =>
          /\ phase \in {"new", "returned"}
          /\ \A p \in Procs : proc[p] = "none"
          /\ \A s \in Streams : copier[s] = "none" /\ written[s] = 0
    /\ waiter # "none" =>
          proc[Leader] # "none" /\ \A s \in Streams : copier[s] # "none"
    /\ \A p \in group : proc[p] # "none"
    /\ waiter \in {"copies", "done"} => proc[Leader] = "ended"
    /\ waiter = "done" => \A s \in Streams : copier[s] = "ended"
    /\ phase = "returned" => waiter \in {"none", "done"}

\* A copier that has ended leaves an empty pipe that nobody can write to.
EOFInv == \A s \in Streams : copier[s] = "ended" => pipe[s] = 0 /\ Holders(s) = {}

\* Before and without the timeout nobody is killed; after it the group is.
KillInv ==
    /\ phase \in {"new", "select"} \/ (phase = "returned" /\ ~result.timedOut) =>
          status \in Statuses /\ \A p \in Procs : proc[p] # "doomed"
    /\ phase = "killed" \/ (phase = "returned" /\ result.timedOut) =>
          \A p \in group : proc[p] # "running"
    /\ phase = "killed" => expired

\* A Result that was returned stays the truth.
ResultInv ==
    phase = "returned" =>
        /\ result \in Results
        /\ result.kept = kept /\ result.truncated = truncated
        /\ waiter # "none" =>
              IF result.timedOut THEN expired /\ result.exit = TimedOutCode
                                 ELSE result.exit = status
        /\ waiter = "none" => ~result.timedOut

IInv == TypeOK /\ FlowInv /\ StageInv /\ EOFInv /\ KillInv /\ ResultInv
-----------------------------------------------------------------------------
(* Two chunks written one after the other are cut as one would be. *)
LEMMA ChunksAddUp ==
    ASSUME NEW limit \in Nat, NEW first \in Nat, NEW second \in Nat
    PROVE  /\ Least(first, limit) + Least(second, limit - Least(first, limit))
                 = Least(first + second, limit)
           /\ (first > limit \/ second > limit - Least(first, limit))
                 <=> first + second > limit
BY DEF Least

\* limitedBuffer.Write keeps within the limit.
LEMMA WriteWithinLimit ==
    ASSUME TypeOK, NEW s \in Streams, NEW n \in Nat
    PROVE  KeptAfter(s, n) \in 0..MaxOutput /\ TruncatedAfter(s, n) \in BOOLEAN
<1>1. kept[s] \in 0..MaxOutput /\ truncated[s] \in BOOLEAN /\ MaxOutput \in Nat
      BY ExecutorAssumption DEF TypeOK
<1> QED
      BY <1>1 DEF KeptAfter, TruncatedAfter, Least

LEMMA InitInv == Init => IInv
<1> SUFFICES ASSUME Init PROVE IInv
      OBVIOUS
<1> USE ExecutorAssumption DEF Init
<1>1. TypeOK
  <2>1. 0 \in 0..MaxOutput /\ 0 \in 0..MaxWritten
        OBVIOUS
  <2> QED
        BY <2>1 DEF TypeOK
<1>2. FlowInv
  <2>1. Least(0, MaxOutput) = 0 /\ ~(0 > MaxOutput)
        BY DEF Least
  <2>2. \A s \in Streams : Received(s) = 0
        BY DEF Received
  <2>3. \A s \in Streams : truncated[s] = (Received(s) > MaxOutput)
    <3> SUFFICES ASSUME NEW s \in Streams PROVE truncated[s] = (Received(s) > MaxOutput)
          OBVIOUS
    <3>1. truncated[s] = FALSE
          OBVIOUS
    <3>2. (Received(s) > MaxOutput) = FALSE
          BY <2>1, <2>2
    <3> QED
          BY <2>2, <3>1, <3>2
  <2>4. \A s \in Streams : pipe[s] <= written[s] /\ kept[s] = Least(Received(s), MaxOutput)
        BY <2>1, <2>2
  <2> QED
        BY <2>3, <2>4 DEF FlowInv
<1>3. StageInv /\ EOFInv
      BY DEF StageInv, EOFInv
<1>4. KillInv /\ ResultInv
      BY DEF KillInv, ResultInv
<1> QED
      BY <1>1, <1>2, <1>3, <1>4 DEF IInv

LEMMA TypeStep ==
    ASSUME IInv, [Next]_vars
    PROVE  TypeOK'
<1> USE ExecutorAssumption DEF daemon, command, output,
      TypeOK, IInv, Results, Streams, Killed, TimedOutCode, FailedCode
<1>1. ASSUME NEW p \in Procs, NEW q \in Procs, Fork(p, q) PROVE TypeOK'
      BY <1>1 DEF Fork
<1>2. ASSUME NEW p \in Procs, LeaveGroup(p) PROVE TypeOK'
      BY <1>2 DEF LeaveGroup
<1>3. ASSUME NEW p \in Procs, Exit(p) PROVE TypeOK'
      BY <1>3 DEF Exit, Ends
<1>4. ASSUME NEW p \in Procs, Die(p) PROVE TypeOK'
      BY <1>4 DEF Die, Ends
<1>5. ASSUME NEW p \in Procs, NEW s \in Streams, CloseStream(p, s) PROVE TypeOK'
      BY <1>5 DEF CloseStream
<1>6. ASSUME NEW p \in Procs, NEW s \in Streams, Write(p, s) PROVE TypeOK'
  <2>1. written[s] \in 0..MaxWritten /\ pipe[s] \in 0..MaxWritten /\ pipe[s] <= written[s]
        BY DEF FlowInv
  <2>2. written[s] + 1 \in 0..MaxWritten /\ pipe[s] + 1 \in 0..MaxWritten
        BY <1>6, <2>1 DEF Write
  <2> QED
        BY <1>6, <2>2 DEF Write
<1>7. ASSUME NEW s \in Streams, Copy(s) PROVE TypeOK'
  <2>1. PICK n \in 1..pipe[s] :
           /\ pipe' = [pipe EXCEPT ![s] = @ - n]
           /\ kept' = [kept EXCEPT ![s] = KeptAfter(s, n)]
           /\ truncated' = [truncated EXCEPT ![s] = TruncatedAfter(s, n)]
        BY <1>7 DEF Copy
  <2>2. pipe[s] \in 0..MaxWritten /\ n \in Nat
        OBVIOUS
  <2>3. pipe[s] - n \in 0..MaxWritten
        BY <2>2
  <2>4. KeptAfter(s, n) \in 0..MaxOutput /\ TruncatedAfter(s, n) \in BOOLEAN
        BY <2>2, WriteWithinLimit
  <2> QED
        BY <1>7, <2>1, <2>3, <2>4 DEF Copy
<1>8. ASSUME NEW s \in Streams, CopyEnds(s) PROVE TypeOK'
      BY <1>8 DEF CopyEnds
<1>9. CASE Reap
      BY <1>9 DEF Reap
<1>10. CASE WaitReturns
      BY <1>10 DEF WaitReturns
<1>11. CASE DeadlinePasses
      BY <1>11 DEF DeadlinePasses
<1>12. CASE StartFails
      BY <1>12 DEF StartFails
<1>13. CASE Start
      BY <1>13 DEF Start
<1>14. CASE TimeOut
      BY <1>14 DEF TimeOut
<1>15. CASE ReturnInTime
      BY <1>15 DEF ReturnInTime
<1>16. CASE ReturnTimedOut
  <2>1. /\ KeptAfter("stderr", NoticeSize) \in 0..MaxOutput
        /\ TruncatedAfter("stderr", NoticeSize) \in BOOLEAN
        BY WriteWithinLimit
  <2>2. kept' \in [Streams -> 0..MaxOutput] /\ truncated' \in [Streams -> BOOLEAN]
        BY <1>16, <2>1 DEF ReturnTimedOut
  <2>3. result' \in Results
        BY <1>16, <2>2 DEF ReturnTimedOut, TimedOutResult
  <2> QED
        BY <1>16, <2>2, <2>3 DEF ReturnTimedOut
<1>17. CASE UNCHANGED vars
      BY <1>17 DEF vars
<1> QED
      BY <1>1, <1>2, <1>3, <1>4, <1>5, <1>6, <1>7, <1>8, <1>9, <1>10, <1>11, <1>12, <1>13, <1>14, <1>15, <1>16, <1>17
      DEF Next, Command, Goroutines, Execute

LEMMA StageStep ==
    ASSUME IInv, [Next]_vars
    PROVE  StageInv'
<1> USE ExecutorAssumption DEF daemon, command, output, TypeOK, IInv, StageInv, Alive, Holders, Streams
<1>1. ASSUME NEW p \in Procs, NEW q \in Procs, Fork(p, q) PROVE StageInv'
      BY <1>1 DEF Fork
<1>2. ASSUME NEW p \in Procs, LeaveGroup(p) PROVE StageInv'
      BY <1>2 DEF LeaveGroup
<1>3. ASSUME NEW p \in Procs, Exit(p) PROVE StageInv'
      BY <1>3 DEF Exit, Ends
<1>4. ASSUME NEW p \in Procs, Die(p) PROVE StageInv'
      BY <1>4 DEF Die, Ends
<1>5. ASSUME NEW p \in Procs, NEW s \in Streams, CloseStream(p, s) PROVE StageInv'
      BY <1>5 DEF CloseStream
<1>6. ASSUME NEW p \in Procs, NEW s \in Streams, Write(p, s) PROVE StageInv'
      BY <1>6 DEF Write
<1>7. ASSUME NEW s \in Streams, Copy(s) PROVE StageInv'
      BY <1>7 DEF Copy
<1>8. ASSUME NEW s \in Streams, CopyEnds(s) PROVE StageInv'
      BY <1>8 DEF CopyEnds
<1>9. CASE Reap
      BY <1>9 DEF Reap
<1>10. CASE WaitReturns
      BY <1>10 DEF WaitReturns
<1>11. CASE DeadlinePasses
      BY <1>11 DEF DeadlinePasses
<1>12. CASE StartFails
      BY <1>12 DEF StartFails
<1>13. CASE Start
      BY <1>13 DEF Start
<1>14. CASE TimeOut
      BY <1>14 DEF TimeOut
<1>15. CASE ReturnInTime
      BY <1>15 DEF ReturnInTime
<1>16. CASE ReturnTimedOut
      BY <1>16 DEF ReturnTimedOut, KilledCommandOver
<1>17. CASE UNCHANGED vars
      BY <1>17 DEF vars
<1> QED
      BY <1>1, <1>2, <1>3, <1>4, <1>5, <1>6, <1>7, <1>8, <1>9, <1>10, <1>11, <1>12, <1>13, <1>14, <1>15, <1>16, <1>17
      DEF Next, Command, Goroutines, Execute

LEMMA EOFStep ==
    ASSUME IInv, [Next]_vars
    PROVE  EOFInv'
<1> USE ExecutorAssumption DEF daemon, command, output, TypeOK, IInv, StageInv, EOFInv, Alive, Holders, AtEOF
<1>1. ASSUME NEW p \in Procs, NEW q \in Procs, Fork(p, q) PROVE EOFInv'
      BY <1>1 DEF Fork
<1>2. ASSUME NEW p \in Procs, LeaveGroup(p) PROVE EOFInv'
      BY <1>2 DEF LeaveGroup
<1>3. ASSUME NEW p \in Procs, Exit(p) PROVE EOFInv'
      BY <1>3 DEF Exit, Ends
<1>4. ASSUME NEW p \in Procs, Die(p) PROVE EOFInv'
      BY <1>4 DEF Die, Ends
<1>5. ASSUME NEW p \in Procs, NEW s \in Streams, CloseStream(p, s) PROVE EOFInv'
      BY <1>5 DEF CloseStream
<1>6. ASSUME NEW p \in Procs, NEW s \in Streams, Write(p, s) PROVE EOFInv'
      BY <1>6 DEF Write
<1>7. ASSUME NEW s \in Streams, Copy(s) PROVE EOFInv'
      BY <1>7 DEF Copy
<1>8. ASSUME NEW s \in Streams, CopyEnds(s) PROVE EOFInv'
      BY <1>8 DEF CopyEnds
<1>9. CASE Reap
      BY <1>9 DEF Reap
<1>10. CASE WaitReturns
      BY <1>10 DEF WaitReturns
<1>11. CASE DeadlinePasses
      BY <1>11 DEF DeadlinePasses
<1>12. CASE StartFails
      BY <1>12 DEF StartFails
<1>13. CASE Start
      BY <1>13 DEF Start
<1>14. CASE TimeOut
      BY <1>14 DEF TimeOut
<1>15. CASE ReturnInTime
      BY <1>15 DEF ReturnInTime
<1>16. CASE ReturnTimedOut
      BY <1>16 DEF ReturnTimedOut
<1>17. CASE UNCHANGED vars
      BY <1>17 DEF vars
<1> QED
      BY <1>1, <1>2, <1>3, <1>4, <1>5, <1>6, <1>7, <1>8, <1>9, <1>10, <1>11, <1>12, <1>13, <1>14, <1>15, <1>16, <1>17
      DEF Next, Command, Goroutines, Execute

LEMMA KillStep ==
    ASSUME IInv, [Next]_vars
    PROVE  KillInv'
<1> USE ExecutorAssumption DEF daemon, command, output,
      TypeOK, IInv, StageInv, KillInv, ResultInv, Alive, Signalled, Results, TimedOutResult, KilledCommandOver, Killed
<1>1. ASSUME NEW p \in Procs, NEW q \in Procs, Fork(p, q) PROVE KillInv'
  <2>1. status' = status /\ expired' = expired /\ phase' = phase /\ result' = result
        BY <1>1 DEF Fork
  <2>2. \A r \in Procs : proc'[r] = IF r = q THEN "running" ELSE proc[r]
        BY <1>1 DEF Fork
  <2>3. group' = IF p \in group THEN group \cup {q} ELSE group
        BY <1>1 DEF Fork
  <2>4. proc[p] = "running" /\ proc[q] = "none"
        BY <1>1 DEF Fork
  <2> QED
        BY <2>1, <2>2, <2>3, <2>4
<1>2. ASSUME NEW p \in Procs, LeaveGroup(p) PROVE KillInv'
      BY <1>2 DEF LeaveGroup
<1>3. ASSUME NEW p \in Procs, Exit(p) PROVE KillInv'
      BY <1>3 DEF Exit, Ends
<1>4. ASSUME NEW p \in Procs, Die(p) PROVE KillInv'
      BY <1>4 DEF Die, Ends
<1>5. ASSUME NEW p \in Procs, NEW s \in Streams, CloseStream(p, s) PROVE KillInv'
      BY <1>5 DEF CloseStream
<1>6. ASSUME NEW p \in Procs, NEW s \in Streams, Write(p, s) PROVE KillInv'
      BY <1>6 DEF Write
<1>7. ASSUME NEW s \in Streams, Copy(s) PROVE KillInv'
      BY <1>7 DEF Copy
<1>8. ASSUME NEW s \in Streams, CopyEnds(s) PROVE KillInv'
      BY <1>8 DEF CopyEnds
<1>9. CASE Reap
      BY <1>9 DEF Reap
<1>10. CASE WaitReturns
      BY <1>10 DEF WaitReturns
<1>11. CASE DeadlinePasses
      BY <1>11 DEF DeadlinePasses
<1>12. CASE StartFails
      BY <1>12 DEF StartFails
<1>13. CASE Start
      BY <1>13 DEF Start
<1>14. CASE TimeOut
      BY <1>14 DEF TimeOut
<1>15. CASE ReturnInTime
      BY <1>15 DEF ReturnInTime
<1>16. CASE ReturnTimedOut
      BY <1>16 DEF ReturnTimedOut
<1>17. CASE UNCHANGED vars
      BY <1>17 DEF vars
<1> QED
      BY <1>1, <1>2, <1>3, <1>4, <1>5, <1>6, <1>7, <1>8, <1>9, <1>10, <1>11, <1>12, <1>13, <1>14, <1>15, <1>16, <1>17
      DEF Next, Command, Goroutines, Execute

LEMMA ResultStep ==
    ASSUME IInv, [Next]_vars
    PROVE  ResultInv'
<1> USE ExecutorAssumption DEF daemon, command, output,
      TypeOK, IInv, StageInv, EOFInv, ResultInv, Alive, Results, TimedOutResult, KilledCommandOver, Streams,
      Killed, TimedOutCode, FailedCode
<1>1. ASSUME NEW p \in Procs, NEW q \in Procs, Fork(p, q) PROVE ResultInv'
      BY <1>1 DEF Fork
<1>2. ASSUME NEW p \in Procs, LeaveGroup(p) PROVE ResultInv'
      BY <1>2 DEF LeaveGroup
<1>3. ASSUME NEW p \in Procs, Exit(p) PROVE ResultInv'
      BY <1>3 DEF Exit, Ends
<1>4. ASSUME NEW p \in Procs, Die(p) PROVE ResultInv'
      BY <1>4 DEF Die, Ends
<1>5. ASSUME NEW p \in Procs, NEW s \in Streams, CloseStream(p, s) PROVE ResultInv'
      BY <1>5 DEF CloseStream
<1>6. ASSUME NEW p \in Procs, NEW s \in Streams, Write(p, s) PROVE ResultInv'
      BY <1>6 DEF Write
<1>7. ASSUME NEW s \in Streams, Copy(s) PROVE ResultInv'
      BY <1>7 DEF Copy
<1>8. ASSUME NEW s \in Streams, CopyEnds(s) PROVE ResultInv'
      BY <1>8 DEF CopyEnds
<1>9. CASE Reap
      BY <1>9 DEF Reap
<1>10. CASE WaitReturns
      BY <1>10 DEF WaitReturns
<1>11. CASE DeadlinePasses
      BY <1>11 DEF DeadlinePasses
<1>12. CASE StartFails
      BY <1>12 DEF StartFails
<1>13. CASE Start
      BY <1>13 DEF Start
<1>14. CASE TimeOut
      BY <1>14 DEF TimeOut
<1>15. CASE ReturnInTime
      BY <1>15 DEF ReturnInTime
<1>16. CASE ReturnTimedOut
  <2>1. /\ KeptAfter("stderr", NoticeSize) \in 0..MaxOutput
        /\ TruncatedAfter("stderr", NoticeSize) \in BOOLEAN
        BY WriteWithinLimit
  <2>2. kept' \in [Streams -> 0..MaxOutput] /\ truncated' \in [Streams -> BOOLEAN]
        BY <1>16, <2>1 DEF ReturnTimedOut
  <2>3. result' \in Results
        BY <1>16, <2>2 DEF ReturnTimedOut
  <2>4. result'.timedOut /\ result'.kept = kept' /\ result'.truncated = truncated'
           /\ result'.exit = TimedOutCode
        BY <1>16 DEF ReturnTimedOut
  <2>5. expired' /\ waiter' = "done"
        BY <1>16 DEF ReturnTimedOut, KillInv
  <2> QED
        BY <2>3, <2>4, <2>5
<1>17. CASE UNCHANGED vars
      BY <1>17 DEF vars
<1> QED
      BY <1>1, <1>2, <1>3, <1>4, <1>5, <1>6, <1>7, <1>8, <1>9, <1>10, <1>11, <1>12, <1>13, <1>14, <1>15, <1>16, <1>17
      DEF Next, Command, Goroutines, Execute

LEMMA FlowStep ==
    ASSUME IInv, [Next]_vars
    PROVE  FlowInv'
<1> USE ExecutorAssumption DEF daemon, command, output,
      TypeOK, IInv, StageInv, EOFInv, FlowInv, ResultInv, Received, KilledCommandOver, TimedOutResult
<1>1. ASSUME NEW p \in Procs, NEW q \in Procs, Fork(p, q) PROVE FlowInv'
      BY <1>1 DEF Fork
<1>2. ASSUME NEW p \in Procs, LeaveGroup(p) PROVE FlowInv'
      BY <1>2 DEF LeaveGroup
<1>3. ASSUME NEW p \in Procs, Exit(p) PROVE FlowInv'
      BY <1>3 DEF Exit, Ends
<1>4. ASSUME NEW p \in Procs, Die(p) PROVE FlowInv'
      BY <1>4 DEF Die, Ends
<1>5. ASSUME NEW p \in Procs, NEW s \in Streams, CloseStream(p, s) PROVE FlowInv'
      BY <1>5 DEF CloseStream
<1>6. ASSUME NEW p \in Procs, NEW s \in Streams, Write(p, s) PROVE FlowInv'
      BY <1>6 DEF Write
<1>7. ASSUME NEW s \in Streams, Copy(s) PROVE FlowInv'
  <2>1. PICK n \in 1..pipe[s] :
           /\ pipe' = [pipe EXCEPT ![s] = @ - n]
           /\ kept' = [kept EXCEPT ![s] = KeptAfter(s, n)]
           /\ truncated' = [truncated EXCEPT ![s] = TruncatedAfter(s, n)]
        BY <1>7 DEF Copy
  <2>2. phase # "returned" /\ phase' = phase /\ result' = result /\ written' = written
        BY <1>7 DEF Copy
  <2>3. SUFFICES /\ pipe'[s] <= written[s]
                 /\ kept'[s] = Least(written[s] - pipe'[s], MaxOutput)
                 /\ truncated'[s] = (written[s] - pipe'[s] > MaxOutput)
        BY <2>1, <2>2
  <2> DEFINE read == written[s] - pipe[s]
  <2>4. /\ pipe[s] \in Nat /\ written[s] \in Nat /\ n \in Nat /\ pipe[s] <= written[s]
        /\ kept[s] = Least(read, MaxOutput) /\ truncated[s] = (read > MaxOutput)
        BY <2>2
  <2>5. pipe'[s] = pipe[s] - n /\ n <= pipe[s]
        BY <2>1, <2>4
  <2>6. read \in Nat /\ read + n = written[s] - pipe'[s] /\ pipe'[s] <= written[s]
        BY <2>4, <2>5
  <2>7. /\ kept'[s] = kept[s] + Least(n, MaxOutput - kept[s])
        /\ truncated'[s] = (truncated[s] \/ n > MaxOutput - kept[s])
        BY <2>1 DEF KeptAfter, TruncatedAfter
  <2> HIDE DEF read
  <2>8. /\ Least(read, MaxOutput) + Least(n, MaxOutput - Least(read, MaxOutput))
              = Least(read + n, MaxOutput)
        /\ (read > MaxOutput \/ n > MaxOutput - Least(read, MaxOutput))
              <=> read + n > MaxOutput
        BY <2>4, <2>6, ChunksAddUp
  <2>9. kept'[s] = Least(read + n, MaxOutput)
        BY <2>4, <2>7, <2>8
  <2>10. truncated'[s] = (read + n > MaxOutput)
        BY <2>4, <2>7, <2>8
  <2> QED
        BY <2>6, <2>9, <2>10
<1>8. ASSUME NEW s \in Streams, CopyEnds(s) PROVE FlowInv'
      BY <1>8 DEF CopyEnds
<1>9. CASE Reap
      BY <1>9 DEF Reap
<1>10. CASE WaitReturns
      BY <1>10 DEF WaitReturns
<1>11. CASE DeadlinePasses
      BY <1>11 DEF DeadlinePasses
<1>12. CASE StartFails
      BY <1>12 DEF StartFails
<1>13. CASE Start
      BY <1>13 DEF Start
<1>14. CASE TimeOut
      BY <1>14 DEF TimeOut
<1>15. CASE ReturnInTime
      BY <1>15 DEF ReturnInTime
<1>16. CASE ReturnTimedOut
  <2> DEFINE read == written["stderr"] - pipe["stderr"]
  <2>1. /\ "stderr" \in Streams /\ phase # "returned" /\ phase' = "returned" /\ result'.timedOut
        /\ pipe' = pipe /\ written' = written
        BY <1>16 DEF ReturnTimedOut, Streams
  <2>2. /\ pipe["stderr"] \in Nat /\ written["stderr"] \in Nat /\ pipe["stderr"] <= written["stderr"]
        /\ kept["stderr"] = Least(read, MaxOutput)
        /\ truncated["stderr"] = (read > MaxOutput)
        BY <2>1
  <2>3. read \in Nat
        BY <2>2
  <2>4. /\ kept'["stderr"] = kept["stderr"] + Least(NoticeSize, MaxOutput - kept["stderr"])
        /\ truncated'["stderr"] =
              (truncated["stderr"] \/ NoticeSize > MaxOutput - kept["stderr"])
        BY <1>16, <2>1 DEF ReturnTimedOut, KeptAfter, TruncatedAfter
  <2>5. \A s \in Streams \ {"stderr"} : kept'[s] = kept[s] /\ truncated'[s] = truncated[s]
        BY <1>16 DEF ReturnTimedOut
  <2>6. \A s \in Streams \ {"stderr"} : Received(s)' = Received(s)
        BY <2>1
  <2>7. Received("stderr")' = read + NoticeSize
        BY <2>1, <2>2
  <2> HIDE DEF read
  <2>8. /\ Least(read, MaxOutput) + Least(NoticeSize, MaxOutput - Least(read, MaxOutput))
              = Least(read + NoticeSize, MaxOutput)
        /\ (read > MaxOutput \/ NoticeSize > MaxOutput - Least(read, MaxOutput))
              <=> read + NoticeSize > MaxOutput
        BY <2>3, ChunksAddUp
  <2>9. kept'["stderr"] = Least(read + NoticeSize, MaxOutput)
        BY <2>2, <2>4, <2>8
  <2>10. truncated'["stderr"] <=> read + NoticeSize > MaxOutput
        BY <2>2, <2>4, <2>8
  <2>11. truncated'["stderr"] \in BOOLEAN
        BY <2>4, WriteWithinLimit DEF TruncatedAfter
  <2> HIDE DEF Received
  <2> QED
        BY <2>1, <2>2, <2>5, <2>6, <2>7, <2>9, <2>10, <2>11
<1>17. CASE UNCHANGED vars
      BY <1>17 DEF vars
<1> QED
      BY <1>1, <1>2, <1>3, <1>4, <1>5, <1>6, <1>7, <1>8, <1>9, <1>10, <1>11, <1>12, <1>13, <1>14, <1>15, <1>16, <1>17
      DEF Next, Command, Goroutines, Execute
LEMMA Inductive == IInv /\ [Next]_vars => IInv'
BY TypeStep, StageStep, EOFStep, KillStep, ResultStep, FlowStep DEF IInv

LEMMA InvHolds == Spec => []IInv
BY InitInv, Inductive, PTL DEF Spec

-----------------------------------------------------------------------------
\* Every variable of Execute and of its command keeps its type: no buffer grows
\* over the limit, however much the command writes.
THEOREM TypeCorrect == Spec => []TypeOK
<1>1. IInv => TypeOK
      BY DEF IInv
<1> QED
      BY <1>1, InvHolds, PTL

\* What Execute returns of the output is all of it up to the limit, and says
\* whether it was cut.
THEOREM ResultAlwaysWholeOutput == Spec => []ResultIsWholeOutput
<1>1. IInv => ResultIsWholeOutput
  <2> SUFFICES ASSUME IInv, phase = "returned", NEW s \in Streams
               PROVE  /\ result.kept[s] = Least(written[s] + Notice(s), MaxOutput)
                      /\ result.truncated[s] = (written[s] + Notice(s) > MaxOutput)
                      /\ copier[s] # "copying" /\ pipe[s] = 0 /\ Holders(s) = {}
        BY DEF ResultIsWholeOutput
  <2>1. result.kept = kept /\ result.truncated = truncated
        BY DEF IInv, ResultInv
  <2>2. written[s] \in Nat /\ pipe[s] \in Nat /\ NoticeSize \in Nat
        BY ExecutorAssumption DEF IInv, TypeOK
  <2>3. copier[s] # "copying" /\ pipe[s] = 0 /\ Holders(s) = {}
    <3>1. CASE waiter = "none"
          BY <3>1, <2>2 DEF IInv, StageInv, FlowInv, TypeOK, Holders, Alive
    <3>2. CASE waiter = "done"
          BY <3>2 DEF IInv, StageInv, EOFInv
    <3> QED
          BY <3>1, <3>2 DEF IInv, StageInv
  <2>4. Received(s) = written[s] + Notice(s)
        BY <2>2, <2>3 DEF Received, Notice
  <2>5. kept[s] = Least(Received(s), MaxOutput) /\ truncated[s] = (Received(s) > MaxOutput)
        BY DEF IInv, FlowInv
  <2> QED
        BY <2>1, <2>3, <2>4, <2>5
<1> QED
      BY <1>1, InvHolds, PTL

\* A Result without the timeout is the leader's own, of a command nobody killed;
\* one with it has exit code 124 and an expired deadline.
THEOREM ResultAlwaysTruthful == Spec => []ResultIsTruthful
<1>1. IInv => ResultIsTruthful
      BY DEF IInv, ResultIsTruthful, Started, StageInv, KillInv, ResultInv, TypeOK
<1> QED
      BY <1>1, InvHolds, PTL

\* After a timeout no process of the group goes on.
THEOREM TimeoutAlwaysEndsGroup == Spec => []TimeoutEndsGroup
<1>1. IInv => TimeoutEndsGroup
      BY DEF IInv, KillInv, TimeoutEndsGroup
<1> QED
      BY <1>1, InvHolds, PTL

-----------------------------------------------------------------------------
(* What can hold up Execute once it has killed the group. *)

\* After the kill there is a step to take on the way to the Result that is
\* nobody's choice: a signal to deliver, output to read, a goroutine to end.
SomebodyProceeds ==
    \/ \E p \in Procs : proc[p] = "doomed"
    \/ \E s \in Streams : copier[s] = "copying" /\ (pipe[s] > 0 \/ AtEOF(s))
    \/ waiter = "wait4" /\ proc[Leader] = "ended"
    \/ waiter = "copies" /\ \A s \in Streams : copier[s] = "ended"
    \/ KilledCommandOver

OnlyDetainedWaits == phase = "killed" => SomebodyProceeds \/ Detained

\* After the kill Execute waits for a process that has left the group or for
\* nobody: its goroutine, the one in Wait and the two that copy never wait for
\* each other alone.
THEOREM KilledNeverWaitsForItself == Spec => []OnlyDetainedWaits
<1>1. IInv => OnlyDetainedWaits
  <2> SUFFICES ASSUME IInv, phase = "killed", ~SomebodyProceeds
               PROVE  Detained
        BY DEF OnlyDetainedWaits
  <2>1. \A p \in Procs : proc[p] # "doomed"
        BY DEF SomebodyProceeds
  <2>2. \A p \in Procs : Alive(p) => proc[p] = "running" /\ p \notin group
        BY <2>1 DEF IInv, KillInv, Alive
  <2>3. waiter \in {"wait4", "copies"}
        BY DEF SomebodyProceeds, KilledCommandOver, IInv, TypeOK, StageInv
  <2>4. CASE waiter = "wait4"
    <3>1. Alive(Leader)
          BY <2>4, ExecutorAssumption DEF SomebodyProceeds, IInv, TypeOK, StageInv, Alive
    <3> QED
          BY <3>1, <2>2, ExecutorAssumption DEF Detained
  <2>5. CASE waiter = "copies"
    <3>1. PICK s \in Streams : copier[s] # "ended"
          BY <2>5 DEF SomebodyProceeds
    <3>2. copier[s] = "copying"
          BY <3>1, <2>5 DEF IInv, TypeOK, StageInv
    <3>3. pipe[s] = 0
          BY <3>2 DEF SomebodyProceeds, IInv, TypeOK
    <3>4. PICK p \in Procs : Alive(p) /\ s \in holds[p]
          BY <3>2, <3>3 DEF SomebodyProceeds, AtEOF, Holders
    <3> QED
          BY <3>4, <2>2 DEF Detained
  <2> QED
        BY <2>3, <2>4, <2>5
<1> QED
      BY <1>1, InvHolds, PTL
=============================================================================
