------------------------------ MODULE Executor ------------------------------
(***************************************************************************)
(* executor.Execute (internal/executor/executor.go): one approved command  *)
(* as a process group, its two output pipes, and the goroutines of the     *)
(* daemon that wait for it.                                                *)
(*                                                                         *)
(* Who takes steps: the command's processes, which do what they like and   *)
(* may leave the group; the goroutine that runs cmd.Wait; the two that     *)
(* exec.Cmd starts to copy the pipes into limitedBuffers; the deadline of  *)
(* the context; and Execute itself, which waits for the first of Wait and  *)
(* the deadline.  Output is counted in units, its content left out.        *)
(***************************************************************************)
EXTENDS Integers, FiniteSets

CONSTANTS
    Procs,         \* processes the command may consist of
    Leader,        \* the one cmd.Start makes, the leader of the group
    Statuses,      \* what ExitCode can be of a command that Execute has not killed
    MaxOutput,     \* cfg.MaxOutputBytes
    NoticeSize,    \* length of "rootbroker: command timed out after ...s"
    MaxWritten,    \* bound: output a stream carries in all
    NoResult

ASSUME ExecutorAssumption ==
    /\ Leader \in Procs
    /\ Statuses \subseteq Int /\ 0 \in Statuses
    /\ 124 \notin Statuses
    /\ MaxOutput \in Nat \ {0}
    /\ NoticeSize \in Nat
    /\ MaxWritten \in Nat

VARIABLES
    phase,      \* Execute: "new", "select", "killed" (waits for done again), "returned"
    result,     \* the Result it returned
    expired,    \* ctx.Done() is closed
    waiter,     \* cmd.Wait: "none", "wait4", "copies", "done" (its error is in done)
    copier,     \* copier[s]: the copying goroutine, "none", "copying" or "ended"
    proc,       \* proc[p]: "none", "running", "doomed" (SIGKILL is pending), "ended"
    group,      \* the processes in the group the command was started in
    holds,      \* holds[p]: the streams whose write end p has open
    status,     \* the leader's wait status; Killed if SIGKILL ended it
    written,    \* written[s]: what the processes have written to s
    pipe,       \* pipe[s]: what of that nobody has read yet
    kept,       \* kept[s]: length of limitedBuffer.buffer
    truncated   \* truncated[s]: limitedBuffer.truncated

daemon == <<phase, result, waiter>>
command == <<proc, group, holds, status>>
output == <<copier, pipe, kept, truncated>>
vars == <<daemon, expired, command, written, output>>

Streams == {"stdout", "stderr"}
Killed == -1          \* ExitCode of a process that a signal ended
TimedOutCode == 124
FailedCode == 126

Results == [exit : Statuses \cup {Killed, TimedOutCode, FailedCode}, timedOut : BOOLEAN,
            kept : [Streams -> 0..MaxOutput], truncated : [Streams -> BOOLEAN]]

Least(m, n) == IF m <= n THEN m ELSE n

Alive(p) == proc[p] \in {"running", "doomed"}
Holders(s) == {p \in Procs : Alive(p) /\ s \in holds[p]}

-----------------------------------------------------------------------------
TypeOK ==
    /\ phase \in {"new", "select", "killed", "returned"}
    /\ result \in Results \cup {NoResult}
    /\ expired \in BOOLEAN
    /\ waiter \in {"none", "wait4", "copies", "done"}
    /\ copier \in [Streams -> {"none", "copying", "ended"}]
    /\ proc \in [Procs -> {"none", "running", "doomed", "ended"}]
    /\ group \subseteq Procs
    /\ holds \in [Procs -> SUBSET Streams]
    /\ status \in Statuses \cup {Killed}
    /\ written \in [Streams -> 0..MaxWritten]
    /\ pipe \in [Streams -> 0..MaxWritten]
    /\ kept \in [Streams -> 0..MaxOutput]
    /\ truncated \in [Streams -> BOOLEAN]

Init ==
    /\ phase = "new"
    /\ result = NoResult
    /\ expired = FALSE
    /\ waiter = "none"
    /\ copier = [s \in Streams |-> "none"]
    /\ proc = [p \in Procs |-> "none"]
    /\ group = {}
    /\ holds = [p \in Procs |-> {}]
    /\ status = 0
    /\ written = [s \in Streams |-> 0]
    /\ pipe = [s \in Streams |-> 0]
    /\ kept = [s \in Streams |-> 0]
    /\ truncated = [s \in Streams |-> FALSE]

-----------------------------------------------------------------------------
(* limitedBuffer.Write, as functions of the stream and the chunk's length. *)

\* Fault: the limit only stops the writes that come after it is reached.
KeptAfterOverrun(s, n) == IF kept[s] < MaxOutput THEN kept[s] + n ELSE kept[s]

KeptAfter(s, n) == kept[s] + Least(n, MaxOutput - kept[s])
TruncatedAfter(s, n) == truncated[s] \/ n > MaxOutput - kept[s]

-----------------------------------------------------------------------------
(* The command.                                                            *)

Fork(p, q) ==
    /\ proc[p] = "running" /\ proc[q] = "none"
    /\ proc' = [proc EXCEPT ![q] = "running"]
    /\ holds' = [holds EXCEPT ![q] = holds[p]]
    /\ group' = IF p \in group THEN group \cup {q} ELSE group
    /\ UNCHANGED <<daemon, expired, status, written, output>>

\* setsid or setpgid: from now on the group's signals do not reach p.
LeaveGroup(p) ==
    /\ Alive(p) /\ p \in group
    /\ group' = group \ {p}
    /\ UNCHANGED <<daemon, expired, proc, holds, status, written, output>>

CloseStream(p, s) ==
    /\ Alive(p) /\ s \in holds[p]
    /\ holds' = [holds EXCEPT ![p] = @ \ {s}]
    /\ UNCHANGED <<daemon, expired, proc, group, status, written, output>>

Write(p, s) ==
    /\ p \in Holders(s)
    /\ written[s] < MaxWritten
    /\ written' = [written EXCEPT ![s] = @ + 1]
    /\ pipe' = [pipe EXCEPT ![s] = @ + 1]
    /\ UNCHANGED <<daemon, expired, command, copier, kept, truncated>>

Ends(p) ==
    /\ proc' = [proc EXCEPT ![p] = "ended"]
    /\ holds' = [holds EXCEPT ![p] = {}]
    /\ UNCHANGED <<daemon, expired, group, written, output>>

\* p exits, or something other than Execute kills it.
Exit(p) ==
    /\ Alive(p)
    /\ \E code \in Statuses : status' = IF p = Leader THEN code ELSE status
    /\ Ends(p)

Die(p) ==
    /\ proc[p] = "doomed"
    /\ status' = IF p = Leader THEN Killed ELSE status
    /\ Ends(p)

Command ==
    \/ \E p, q \in Procs : Fork(p, q)
    \/ \E p \in Procs : LeaveGroup(p) \/ Exit(p) \/ Die(p)
    \/ \E p \in Procs, s \in Streams : CloseStream(p, s) \/ Write(p, s)

-----------------------------------------------------------------------------
(* The goroutines of exec.Cmd.                                             *)

\* One read of io.Copy, up to everything in the pipe, and the Write it makes.
Copy(s) ==
    /\ copier[s] = "copying"
    /\ \E n \in 1..pipe[s] :
          /\ pipe' = [pipe EXCEPT ![s] = @ - n]
          /\ kept' = [kept EXCEPT ![s] = KeptAfter(s, n)]
          /\ truncated' = [truncated EXCEPT ![s] = TruncatedAfter(s, n)]
    /\ UNCHANGED <<daemon, expired, command, written, copier>>

\* A read returns EOF only when every write end is closed.
AtEOF(s) == pipe[s] = 0 /\ Holders(s) = {}

CopyEnds(s) ==
    /\ copier[s] = "copying"
    /\ AtEOF(s)
    /\ copier' = [copier EXCEPT ![s] = "ended"]
    /\ UNCHANGED <<daemon, expired, command, written, pipe, kept, truncated>>

Reap ==
    /\ waiter = "wait4"
    /\ proc[Leader] = "ended"
    /\ waiter' = "copies"
    /\ UNCHANGED <<phase, result, expired, command, written, output>>

\* cmd.WaitDelay is zero: Wait waits for the copiers without limit.
WaitReturns ==
    /\ waiter = "copies"
    /\ \A s \in Streams : copier[s] = "ended"
    /\ waiter' = "done"
    /\ UNCHANGED <<phase, result, expired, command, written, output>>

-----------------------------------------------------------------------------
(* Execute.                                                                *)

\* cmd.Start fails; the text of its error is the only output.
StartFails ==
    /\ phase = "new"
    /\ phase' = "returned"
    /\ result' = [exit |-> FailedCode, timedOut |-> FALSE, kept |-> kept, truncated |-> truncated]
    /\ UNCHANGED <<waiter, expired, command, written, output>>

\* Setpgid makes the command the leader of a group of its own.
Start ==
    /\ phase = "new"
    /\ phase' = "select"
    /\ waiter' = "wait4"
    /\ copier' = [s \in Streams |-> "copying"]
    /\ proc' = [proc EXCEPT ![Leader] = "running"]
    /\ group' = {Leader}
    /\ holds' = [holds EXCEPT ![Leader] = Streams]
    /\ UNCHANGED <<result, expired, status, written, pipe, kept, truncated>>

DeadlinePasses ==
    /\ phase # "returned"
    /\ ~expired
    /\ expired' = TRUE
    /\ UNCHANGED <<daemon, command, written, output>>

\* Fault: the signal goes to the leader alone.
SignalledLeader == {Leader}

\* kill(-pid, SIGKILL)
Signalled == group

\* The select takes the deadline, whatever else is ready.
TimeOut ==
    /\ phase = "select"
    /\ expired
    /\ phase' = "killed"
    /\ proc' = [p \in Procs |-> IF p \in Signalled /\ Alive(p) THEN "doomed" ELSE proc[p]]
    /\ UNCHANGED <<result, waiter, expired, group, holds, status, written, output>>

\* <-done after Wait has returned, and the Result of a command that ended in time.
ReturnInTime ==
    /\ phase = "select"
    /\ waiter = "done"
    /\ phase' = "returned"
    /\ result' = [exit |-> status, timedOut |-> FALSE, kept |-> kept, truncated |-> truncated]
    /\ UNCHANGED <<waiter, expired, command, written, output>>

\* Fault: the killed command's own status is returned.
TimedOutResultOfCommand(noticed, cut) ==
    [exit |-> status, timedOut |-> FALSE, kept |-> noticed, truncated |-> cut]

TimedOutResult(noticed, cut) ==
    [exit |-> TimedOutCode, timedOut |-> TRUE, kept |-> noticed, truncated |-> cut]

\* Fault: Execute does not wait for the pipes after the kill.
KilledCommandOverAtReap == waiter \in {"copies", "done"}

KilledCommandOver == waiter = "done"

\* <-done after the kill; the notice goes through the limitedBuffer of stderr.
ReturnTimedOut ==
    /\ phase = "killed"
    /\ KilledCommandOver
    /\ phase' = "returned"
    /\ kept' = [kept EXCEPT !["stderr"] = KeptAfter("stderr", NoticeSize)]
    /\ truncated' = [truncated EXCEPT !["stderr"] = TruncatedAfter("stderr", NoticeSize)]
    /\ result' = TimedOutResult(kept', truncated')
    /\ UNCHANGED <<waiter, expired, command, written, copier, pipe>>

Execute == StartFails \/ Start \/ TimeOut \/ ReturnInTime \/ ReturnTimedOut

Goroutines == Reap \/ WaitReturns \/ \E s \in Streams : Copy(s) \/ CopyEnds(s)

Next == Command \/ Goroutines \/ DeadlinePasses \/ Execute

Spec == Init /\ [][Next]_vars

\* The deadline passes, goroutines and Execute are scheduled, SIGKILL is
\* delivered.  What the command's processes do of their own accord is not fair.
Fairness ==
    /\ WF_vars(DeadlinePasses)
    /\ WF_vars(Execute)
    /\ WF_vars(Reap) /\ WF_vars(WaitReturns)
    /\ \A s \in Streams : WF_vars(Copy(s)) /\ WF_vars(CopyEnds(s))
    /\ \A p \in Procs : WF_vars(Die(p))

FairSpec == Spec /\ Fairness

-----------------------------------------------------------------------------
(* Properties.                                                             *)

Started == waiter # "none"
Notice(s) == IF s = "stderr" /\ result.timedOut THEN NoticeSize ELSE 0

\* The Result holds all a stream ever carried, up to MaxOutput, and says
\* whether something was cut off: when Execute reads the buffers no process can
\* write any more, nothing is left in a pipe and no copier still writes to a
\* buffer (Execute reads them without a lock).
ResultIsWholeOutput ==
    phase = "returned" =>
        \A s \in Streams :
            LET carried == written[s] + Notice(s)
            IN  /\ result.kept[s] = Least(carried, MaxOutput)
                /\ result.truncated[s] = (carried > MaxOutput)
                /\ copier[s] # "copying" /\ pipe[s] = 0 /\ Holders(s) = {}

\* A Result without the timeout is the leader's own: it ended by itself with
\* that status and Execute has signalled nobody.  A Result with it has exit
\* code 124, and the deadline has passed.
ResultIsTruthful ==
    phase = "returned" /\ Started =>
        /\ proc[Leader] = "ended"
        /\ IF result.timedOut
           THEN expired /\ result.exit = TimedOutCode
           ELSE /\ result.exit = status /\ status \in Statuses
                /\ \A p \in Procs : proc[p] # "doomed"

\* After a timeout nobody of the command's group goes on: whoever is still in
\* it, the children forked while Execute decided included, is dead or dying.
TimeoutEndsGroup ==
    phase = "killed" \/ (phase = "returned" /\ result.timedOut) =>
        \A p \in group : proc[p] # "running"

\* Somebody that the kill does not reach keeps Wait from returning: a process
\* outside the group that holds a stream, or the leader itself outside it.
Detained ==
    \E p \in Procs \ group : proc[p] = "running" /\ (holds[p] # {} \/ p = Leader)

\* Execute returns, unless a process that has left the group detains it for ever.
ReturnsUnlessDetained == <>[]~Detained => <>(phase = "returned")
=============================================================================
