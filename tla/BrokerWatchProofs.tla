-------------------------- MODULE BrokerWatchProofs --------------------------
(***************************************************************************)
(* Theorems about BrokerWatch, for any number of watchers and every value  *)
(* of Broker's constants.                                                  *)
(*                                                                         *)
(* A step of BrokerWatch is a step of Broker or leaves it alone            *)
(* (WatchIsBroker), so IInv of BrokerProofs holds here too.  What humans   *)
(* have been told is kept apart from it: ReportedInv says where a request  *)
(* whose decision was reported may be, and SeenInv where one may be that   *)
(* some watcher has not shown.                                             *)
(***************************************************************************)
EXTENDS BrokerWatch, BrokerAuthorityProofs, WellFoundedInduction

\* A watcher at its prompt shows a request.
PromptShows == \A w \in Watchers : phase[w] = "prompting" => shown[w] \in Reqs

WatchInv == IInv /\ WatchTypeOK /\ PromptShows

-----------------------------------------------------------------------------
(* The broker behind the watchers.                                         *)

\* Every step is one of the broker's, or none.
LEMMA WatchIsBroker == WatchInv /\ [WatchNext]_watchVars => [Next]_vars
<1> SUFFICES ASSUME WatchInv, [WatchNext]_watchVars, ~UNCHANGED vars
             PROVE  Next
  OBVIOUS
<1>1. pending \subseteq Reqs
  BY DEF WatchInv, IInv, TypeOK
<1>2. ASSUME NEW w \in Watchers, Watch(w)
      PROVE  Next
  <2>1. CASE Poll(w)
    BY <2>1 DEF Poll, Next, Review
  <2>2. CASE Decides(w)
    <3>1. PICK scope \in Scopes, a \in Approvers, t \in ReadTimes :
             Approve(shown[w], scope, a, t) \/ Deny(shown[w], scope, a, t)
      BY <2>2 DEF Decides
    <3>2. shown[w] \in Reqs
      BY <1>1, <3>1 DEF Approve, Deny, P!Reviewable
    <3> QED
      BY <3>1, <3>2 DEF Next, Review
  <2>3. CASE AnswersTooLate(w)
    BY <2>3 DEF AnswersTooLate, WatchInv, PromptShows, Next, Review
  <2>4. CASE PutsOff(w) \/ Quits(w)
    BY <2>4 DEF PutsOff, Quits
  <2> QED
    BY <1>2, <2>1, <2>2, <2>3, <2>4 DEF Watch
<1>3. CASE SingleShot
  BY <1>3 DEF SingleShot, Next, Lifecycle
<1>4. CASE \E W \in SUBSET Running : RestartUnder(W)
  BY <1>4 DEF RestartUnder, Next, Environment
<1>5. CASE TickWatched
  BY <1>5 DEF TickWatched, Next, Environment
<1>6. CASE Elsewhere
  BY <1>6 DEF Elsewhere, Next, Environment
<1> QED
  BY <1>2, <1>3, <1>4, <1>5, <1>6 DEF WatchNext, watchVars

\* Watchers keep their types and show requests.
LEMMA WatchStep == WatchInv /\ [WatchNext]_watchVars => WatchInv'
<1> SUFFICES ASSUME WatchInv, [WatchNext]_watchVars
             PROVE  WatchInv'
  OBVIOUS
<1> USE DEF watchers, observed
<1>1. pending \subseteq Reqs /\ WatchTypeOK /\ PromptShows
  BY DEF WatchInv, IInv, TypeOK
<1>2. ASSUME NEW w \in Watchers, Poll(w)
      PROVE  WatchTypeOK' /\ PromptShows'
  <2>1. CASE UNCHANGED <<phase, shown>>
    BY <1>1, <1>2, <2>1 DEF Poll, WatchTypeOK, PromptShows
  <2>2. ASSUME NEW r \in Candidates(w), shown' = [shown EXCEPT ![w] = r],
               phase' = [phase EXCEPT ![w] = "prompting"]
        PROVE  WatchTypeOK' /\ PromptShows'
    <3>1. r \in Reqs
      BY <1>1 DEF Candidates, Oldest
    <3> QED
      BY <1>1, <1>2, <2>2, <3>1 DEF Poll, WatchTypeOK, PromptShows
  <2> QED
    BY <1>2, <2>1, <2>2 DEF Poll
<1>3. ASSUME NEW w \in Watchers, NEW S \in SUBSET Reqs, Continues(w, S),
             reported' \in [Reqs -> {"", "approved", "denied"}]
      PROVE  WatchTypeOK' /\ PromptShows'
  BY <1>1, <1>3 DEF Continues, WatchTypeOK, PromptShows
<1>4. ASSUME NEW w \in Watchers, Decides(w)
      PROVE  WatchTypeOK' /\ PromptShows'
  <2>1. reported' \in [Reqs -> {"", "approved", "denied"}]
    BY <1>1, <1>4 DEF Decides, WatchTypeOK
  <2> QED
    BY <1>3, <1>4, <2>1 DEF Decides
<1>5. ASSUME NEW w \in Watchers, PutsOff(w)
      PROVE  WatchTypeOK' /\ PromptShows'
  <2>1. shown[w] \in Reqs
    BY <1>1, <1>5 DEF PutsOff, Continues, PromptShows
  <2> QED
    BY <1>1, <1>3, <1>5, <2>1 DEF PutsOff, WatchTypeOK
<1>6. ASSUME NEW W, Return(W)
      PROVE  WatchTypeOK' /\ PromptShows'
  BY <1>1, <1>6 DEF Return, WatchTypeOK, PromptShows
<1>7. ASSUME TickWatched
      PROVE  WatchTypeOK' /\ PromptShows'
  BY <1>1, <1>7 DEF TickWatched, WatchTypeOK, PromptShows
<1>8. ASSUME SingleShot \/ Elsewhere \/ UNCHANGED watchVars
      PROVE  WatchTypeOK' /\ PromptShows'
  BY <1>1, <1>8 DEF SingleShot, Elsewhere, watchVars, WatchTypeOK, PromptShows
<1>9. WatchTypeOK' /\ PromptShows'
  BY <1>2, <1>4, <1>5, <1>6, <1>7, <1>8
     DEF WatchNext, Watch, AnswersTooLate, Quits, RestartUnder
<1> QED
  BY <1>9, WatchIsBroker, NextIInv DEF WatchInv

\* WatchInv holds in every reachable state.
LEMMA WatchInvariance == WatchSpec => []WatchInv
<1>1. WatchInit => WatchInv
  <2> SUFFICES ASSUME WatchInit PROVE WatchInv
    OBVIOUS
  <2>1. IInv
    BY InitIInv DEF WatchInit
  <2>2. WatchTypeOK
    BY DEF WatchInit, WatchTypeOK
  <2>3. PromptShows
    BY DEF WatchInit, PromptShows
  <2> QED
    BY <2>1, <2>2, <2>3 DEF WatchInv
<1> QED
  BY <1>1, WatchStep, PTL DEF WatchSpec

\* Watchers change nothing about what the broker does: every theorem about
\* Broker holds with them.
THEOREM WatchersUseTheBroker == WatchSpec => Spec
<1>1. WatchInit => Init
  BY DEF WatchInit
<1> QED
  BY <1>1, WatchInvariance, WatchIsBroker, PTL DEF WatchSpec, Spec

\* The watchers' variables keep their types.
THEOREM WatchTypeCorrect == WatchSpec => []WatchTypeOK
  BY WatchInvariance, PTL DEF WatchInv

-----------------------------------------------------------------------------
(* What humans are told.                                                   *)

ReportedInv ==
    \A r \in Reqs : reported[r] # "" =>
        /\ decision[r].outcome = reported[r]
        /\ pc[r] \notin {"idle", "entered"}
        /\ reported[r] = "denied" => pc[r] \notin RunningPCs

\* What a human has been told is what happens.
THEOREM ReportedAlwaysTrue == WatchSpec => []ReportedIsTrue
<1>1. WatchInit => ReportedInv
  BY DEF WatchInit, ReportedInv
<1>2. WatchInv /\ ReportedInv /\ [WatchNext]_watchVars => ReportedInv'
  <2> SUFFICES ASSUME WatchInv, ReportedInv, [WatchNext]_watchVars, NEW r \in Reqs,
                      reported'[r] # ""
               PROVE  /\ decision'[r].outcome = reported'[r]
                      /\ pc'[r] \notin {"idle", "entered"}
                      /\ reported'[r] = "denied" => pc'[r] \notin RunningPCs
    BY DEF ReportedInv
  <2>1. IInv /\ [Next]_vars /\ WatchTypeOK
    BY WatchIsBroker DEF WatchInv
  <2>2. CASE reported'[r] = reported[r]
    <3>1. /\ decision[r].outcome = reported[r] /\ pc[r] \notin {"idle", "entered"}
          /\ reported[r] = "denied" => pc[r] \notin RunningPCs
      BY <2>2 DEF ReportedInv
    <3> QED
      BY <2>1, <2>2, <3>1, DecidedStays
  <2>3. ASSUME NEW w \in Watchers, Decides(w), reported'[r] # reported[r]
        PROVE  /\ decision'[r].outcome = reported'[r]
               /\ pc'[r] = "waiting"
    <3>1. PICK scope \in Scopes, a \in Approvers, t \in ReadTimes :
             \/ /\ Approve(shown[w], scope, a, t)
                /\ reported' = [reported EXCEPT ![shown[w]] = "approved"]
             \/ /\ Deny(shown[w], scope, a, t)
                /\ reported' = [reported EXCEPT ![shown[w]] = "denied"]
      BY <2>3 DEF Decides
    <3>2. r = shown[w]
      BY <2>1, <2>3, <3>1 DEF WatchTypeOK
    <3>3. PICK outcome \in {"approved", "denied"} :
             /\ reported' = [reported EXCEPT ![r] = outcome]
             /\ decision' = P!Reviewed(r, P!ReviewDecision(outcome, scope, a), ctx')
             /\ P!Reviewable(r, ctx') /\ pc' = pc
      BY <3>1, <3>2 DEF Approve, Deny, queue
    <3> DEFINE d == P!ReviewDecision(outcome, scope, a)
    <3>4. d.outcome = outcome
      BY DEF P!ReviewDecision
    <3>5. r \in P!Resolved(r, d) /\ r \in pending
      BY <3>3 DEF P!Resolved, P!SameSession, P!Reviewable
    <3>6. decision'[r] = d
      BY <3>3, <3>5 DEF P!Reviewed, P!Finish, P!Reviewable
    <3>7. pc[r] = "waiting"
      BY <2>1, <3>5 DEF IInv, RequestsAccounted
    <3> HIDE DEF d
    <3>8. reported'[r] = outcome
      BY <2>1, <3>3 DEF WatchTypeOK
    <3> QED
      BY <3>3, <3>4, <3>6, <3>7, <3>8
  <2>4. CASE ~ \E w \in Watchers : Decides(w)
    BY <2>2, <2>4 DEF WatchNext, Watch, Poll, AnswersTooLate, PutsOff, Quits, Return, SingleShot,
       RestartUnder, TickWatched, Elsewhere, observed, watchVars
  <2> QED
    BY <2>2, <2>3, <2>4 DEF RunningPCs
<1>3. ReportedInv => ReportedIsTrue
  BY DEF ReportedInv, ReportedIsTrue, RunningPCs
<1> QED
  BY <1>1, <1>2, <1>3, WatchInvariance, PTL DEF WatchSpec

-----------------------------------------------------------------------------
(* What humans approve.                                                    *)

\* Only a prompt reports an approval, and the approval it reports meets the turn
\* that was on the screen.
THEOREM ApprovedAlwaysInShownTurn == WatchSpec => ApprovedInShownTurn
<1>1. ASSUME WatchInv, [WatchNext]_watchVars, NEW r \in Reqs,
             reported[r] = "", reported'[r] = "approved"
      PROVE  sessions'[Key(request[r])] = [state |-> "active", turn |-> request[r].turn]
  <2>1. PICK w \in Watchers : Decides(w)
    BY <1>1 DEF WatchNext, Watch, Poll, AnswersTooLate, PutsOff, Quits, Return, SingleShot,
       RestartUnder, TickWatched, Elsewhere, observed, watchVars
  <2>2. PICK scope \in Scopes, a \in Approvers, t \in ReadTimes :
           \/ /\ Approve(shown[w], scope, a, t)
              /\ reported' = [reported EXCEPT ![shown[w]] = "approved"]
           \/ /\ Deny(shown[w], scope, a, t)
              /\ reported' = [reported EXCEPT ![shown[w]] = "denied"]
    BY <2>1 DEF Decides
  <2>3. Approve(r, scope, a, t)
    BY <1>1, <2>2 DEF WatchInv, WatchTypeOK
  <2> DEFINE d == P!ReviewDecision("approved", scope, a)
  <2>4. IInv /\ Approves(r, d)
    BY <1>1, <2>3 DEF WatchInv, Approves
  <2> HIDE DEF d
  <2>5. PICK S \in SessionMaps :
           request[r] \in Requests /\ ActiveIn(S, request[r]) /\ sessions' = S
    BY <2>4, EnsuringStep
  <2> QED
    BY <2>5 DEF SessionMaps, ActiveIn, Requests, Key, Keys
<1>2. WatchInv /\ [WatchNext]_watchVars =>
        [\A r \in Reqs : reported[r] = "" /\ reported'[r] = "approved" =>
            sessions'[Key(request[r])] = [state |-> "active", turn |-> request[r].turn]]_watchVars
  BY <1>1
<1> QED
  BY <1>2, WatchInvariance, PTL DEF WatchSpec, ApprovedInShownTurn

-----------------------------------------------------------------------------
(* What humans get to see.                                                 *)

\* As long as everybody is quicker than the clock, a request still on its way to
\* the queue has time left, and one in the queue has time left or was put off.
SeenInv ==
    timely =>
        /\ \A r \in Reqs : pc[r] = "entered" => request[r].expires > clock
        /\ \A r \in pending, w \in Running :
              P!Open(r) => request[r].expires > clock \/ r \in seen[w]

\* A list that is not empty has a first item.
LEMMA OldestExists ==
    ASSUME NEW S, S # {}, \A r \in S : request[r].expires \in Nat
    PROVE  Oldest(S) # {}
<1> DEFINE T == {request[r].expires : r \in S}
<1> DEFINE Less == OpToRel(<, Nat)
<1>1. T \subseteq Nat /\ T # {}
  OBVIOUS
<1>2. IsWellFoundedOn(Less, Nat)
  BY NatLessThanWellFounded
<1>3. PICK n \in T : \A m \in T : ~(<<m, n>> \in Less)
  <2> HIDE DEF Less, T
  <2> QED
    BY <1>1, <1>2, WFMin
<1>4. ASSUME NEW m \in T, m < n
      PROVE  FALSE
  <2>1. <<m, n>> \in Nat \X Nat /\ <<m, n>>[1] < <<m, n>>[2]
    BY <1>1, <1>4
  <2>2. Less = {ss \in Nat \X Nat : ss[1] < ss[2]}
    BY DEF OpToRel
  <2> QED
    BY <1>3, <2>1, <2>2
<1>5. PICK r \in S : request[r].expires = n
  BY <1>3
<1>6. ASSUME NEW q \in S
      PROVE  n <= request[q].expires
  <2>1. request[q].expires \in T /\ request[q].expires \in Nat /\ n \in Nat
    BY <1>1
  <2> HIDE DEF T
  <2> QED
    BY <1>4, <2>1
<1> QED
  BY <1>5, <1>6 DEF Oldest

\* Time passes only where watchers are looked at.
LEMMA ClockStill ==
    ASSUME WatchInv, [WatchNext]_watchVars, ~TickWatched
    PROVE  clock' = clock
<1> USE DEF clients, handlers, queue, history
<1>1. ASSUME Request \/ Lifecycle \/ Review
      PROVE  clock' = clock
  <2>1. Lifecycle => clock' = clock
    BY DEF Lifecycle, SessionStarted, TurnStarted, AmbiguousTurnStart, TurnEnded, TurnStopped,
       SessionEnded, PruneOnly
  <2>2. Review => clock' = clock
    BY DEF Review, ListPending, Approve, Deny, DecideNotFound
  <2>3. ASSUME NEW r, Thread(r)
        PROVE  clock' = clock
    BY <2>3 DEF Thread, ProviderRegister, ProviderFinishOnContext, ProviderCollect, Outside,
       ProviderAnswersRequest, ResumeApproved, ResumeRefused, StartExecution, FinishExecution
  <2>4. Request => clock' = clock
    BY <2>3 DEF Request, RequestWithoutTurn, RequestOnLease, RequestCreated
  <2> QED
    BY <1>1, <2>1, <2>2, <2>4
<1>2. CASE \E w \in Watchers : Watch(w)
  BY <1>2 DEF Watch, Poll, ListPending, Decides, Approve, Deny, AnswersTooLate, DecideNotFound,
     PutsOff, Quits, vars
<1>3. CASE SingleShot
  BY <1>1, <1>3 DEF SingleShot, PruneOnly, Revoke
<1>4. CASE Elsewhere
  BY <1>1, <1>4 DEF Elsewhere, ProcessExits, ProcessReturns, Disconnect, DeadlineFires
<1> QED
  BY <1>2, <1>3, <1>4 DEF WatchNext, RestartUnder, Restart, watchVars, vars

\* A request comes to the queue with time left, and by way of "entered" only.
LEMMA ComesToQueue ==
    ASSUME IInv, [Next]_vars, MaxLockWait < ReqTTL, NEW r \in Reqs
    PROVE  /\ pc'[r] = "entered" => pc[r] = "entered" \/ request'[r].expires > clock'
           /\ pc'[r] = "waiting" => pc[r] \in {"entered", "waiting"}
<1> USE DEF clients, handlers, queue, history
<1>1. TypeOK
  BY DEF IInv
<1>2. CASE Environment \/ Lifecycle \/ Review \/ UNCHANGED vars \/ \E l \in leases : Revoke(l)
  <2>1. Lifecycle => pc' = pc
    BY DEF Lifecycle, SessionStarted, TurnStarted, AmbiguousTurnStart, TurnEnded,
       TurnStopped, SessionEnded, PruneOnly
  <2>2. Review => pc' = pc
    BY DEF Review, ListPending, Approve, Deny, DecideNotFound
  <2> QED
    BY <1>2, <2>1, <2>2 DEF Environment, Tick, ProcessExits, ProcessReturns, Disconnect, DeadlineFires, Restart,
       Revoke, vars
<1>3. ASSUME NEW q \in Reqs, NEW p, NEW t \in ReadTimes,
             RequestWithoutTurn(q, p, t) \/ RequestOnLease(q, p, t) \/ RequestCreated(q, p, t)
      PROVE  /\ pc'[r] = "entered" => pc[r] = "entered" \/ request'[r].expires > clock'
             /\ pc'[r] = "waiting" => pc[r] \in {"entered", "waiting"}
  <2>1. CASE RequestCreated(q, p, t)
    <3>1. q = r => request'[r].expires = t + ReqTTL
      BY <1>1, <2>1 DEF RequestCreated, Context, TypeOK
    <3>2. clock' = clock /\ clock \in Nat /\ t \in Nat /\ clock <= t + MaxLockWait
      BY <1>1, <2>1 DEF RequestCreated, TypeOK, ReadTimes
    <3>3. t + ReqTTL > clock
      BY <3>2, TTLAssumption, BoundsAssumption
    <3> QED
      BY <1>1, <2>1, <3>1, <3>2, <3>3 DEF RequestCreated, TypeOK
  <2> QED
    BY <1>1, <1>3, <2>1 DEF RequestWithoutTurn, RequestOnLease, TypeOK
<1>4. ASSUME NEW q \in Reqs, Thread(q)
      PROVE  /\ pc'[r] = "entered" => pc[r] = "entered"
             /\ pc'[r] = "waiting" => pc[r] \in {"entered", "waiting"}
  BY <1>1, <1>4 DEF Thread, ProviderRegister, ProviderFinishOnContext, ProviderCollect,
     P!Register, P!FinishOnContext, P!Collect, ProviderAnswersRequest, ResumeApproved,
     ResumeRefused, StartExecution, FinishExecution, TypeOK
<1> QED
  BY <1>2, <1>3, <1>4 DEF Next, Request

\* What a watcher has put off stays put off while it runs.
LEMMA SeenStays ==
    ASSUME WatchInv, [WatchNext]_watchVars, NEW w \in Watchers, w \in Running'
    PROVE  w \in Running /\ seen[w] \subseteq seen'[w]
<1> USE DEF watchers, observed
<1>1. WatchTypeOK
  BY DEF WatchInv
<1>2. ASSUME NEW v \in Watchers, NEW S, Continues(v, S)
      PROVE  w \in Running /\ seen[w] \subseteq seen'[w]
  BY <1>1, <1>2 DEF Continues, Running, WatchTypeOK
<1>3. ASSUME NEW W, Return(W)
      PROVE  w \in Running /\ seen[w] \subseteq seen'[w]
  BY <1>1, <1>3 DEF Return, Running, WatchTypeOK
<1>4. ASSUME NEW v \in Watchers, Poll(v)
      PROVE  w \in Running /\ seen[w] \subseteq seen'[w]
  BY <1>1, <1>4 DEF Poll, Running, WatchTypeOK
<1>5. CASE UNCHANGED watchers
  BY <1>5 DEF Running
<1> QED
  BY <1>2, <1>3, <1>4, <1>5 DEF WatchNext, Watch, Decides, AnswersTooLate, PutsOff, Quits,
     SingleShot, RestartUnder, TickWatched, Elsewhere, watchVars

\* Where the clock moves on time, every watcher has put off whatever is queued.
LEMMA TickSeen ==
    ASSUME WatchInv, TickWatched, timely', NEW r \in pending, NEW w \in Running
    PROVE  r \in seen[w]
<1>1. Candidates(w) = {}
  BY DEF TickWatched, HasWork, Running, WatchInv, WatchTypeOK
<1>2. \A q \in pending : request[q].expires \in Nat
  BY DEF WatchInv, IInv, TypeOK, Placed, RequestsAccounted, Requests
<1> QED
  BY <1>1, <1>2, OldestExists DEF Candidates

\* With handlers that wait for the broker less long than a request lives, nothing
\* a watcher has not shown reaches its end unless somebody was slow.
THEOREM NoneEverExpiresUnseen ==
    ASSUME MaxLockWait < ReqTTL
    PROVE  WatchSpec => []NoneExpiresUnseen
<1>1. WatchInit => SeenInv
  BY DEF WatchInit, Init, SeenInv
<1>2. WatchInv /\ SeenInv /\ [WatchNext]_watchVars => SeenInv'
  <2> SUFFICES ASSUME WatchInv, SeenInv, [WatchNext]_watchVars, timely'
               PROVE  /\ \A r \in Reqs : pc'[r] = "entered" => request'[r].expires > clock'
                      /\ \A r \in pending', w \in Running' :
                            (P!Open(r))' => request'[r].expires > clock' \/ r \in seen'[w]
    BY DEF SeenInv
  <2>1. IInv /\ IInv' /\ [Next]_vars
    BY WatchIsBroker, NextIInv DEF WatchInv
  <2>2. timely
    BY DEF WatchNext, Watch, Poll, Decides, Continues, AnswersTooLate, PutsOff, Quits, Return,
       SingleShot, RestartUnder, TickWatched, Elsewhere, observed, watchVars
  <2>3. /\ pending = {r \in Reqs : pc[r] = "waiting"}
        /\ pending' = {r \in Reqs : pc'[r] = "waiting"}
    BY <2>1 DEF IInv, RequestsAccounted
  <2>4. CASE TickWatched
    <3>1. \A r \in Reqs : pc'[r] # "entered"
      BY <2>4 DEF TickWatched, Tick, queue
    <3>2. pending' = pending /\ Running' = Running /\ seen' = seen
      BY <2>4 DEF TickWatched, Tick, queue, watchers, Running
    <3> QED
      BY <2>4, <3>1, <3>2, TickSeen
  <2>5. CASE ~TickWatched
    <3>1. clock' = clock
      BY <2>5, ClockStill
    <3>2. ASSUME NEW r \in Reqs, pc'[r] \in {"entered", "waiting"}, pc[r] \in {"entered", "waiting"}
          PROVE  request'[r] = request[r]
      BY <2>1, <3>2, AdmittedOnce
    <3>3. ASSUME NEW r \in Reqs, pc'[r] = "entered"
          PROVE  request'[r].expires > clock'
      BY <2>1, <2>2, <3>1, <3>2, <3>3, ComesToQueue DEF SeenInv
    <3>4. ASSUME NEW r \in pending', NEW w \in Running', (P!Open(r))'
          PROVE  request'[r].expires > clock' \/ r \in seen'[w]
      <4>1. r \in Reqs /\ pc'[r] = "waiting" /\ pc[r] \in {"entered", "waiting"}
        BY <2>1, <2>3, <3>4, ComesToQueue
      <4>2. request'[r] = request[r]
        BY <3>2, <4>1
      <4>3. P!Open(r)
        BY <2>1, <3>4, <4>1, DecisionsStay DEF P!Open
      <4>4. w \in Watchers /\ w \in Running /\ seen[w] \subseteq seen'[w]
        BY <3>4, SeenStays DEF Running
      <4> QED
        BY <2>2, <2>3, <3>1, <4>1, <4>2, <4>3, <4>4 DEF SeenInv
    <3> QED
      BY <3>3, <3>4
  <2> QED
    BY <2>4, <2>5
<1>3. SeenInv /\ WatchInv => NoneExpiresUnseen
  <2> SUFFICES ASSUME SeenInv, WatchInv, timely, NEW r \in pending, NEW w \in Running,
                      P!Open(r), request[r].expires <= clock
               PROVE  r \in seen[w]
    BY DEF NoneExpiresUnseen
  <2>1. request[r].expires \in Nat /\ clock \in Nat
    BY DEF WatchInv, IInv, TypeOK, Placed, RequestsAccounted, Requests
  <2> QED
    BY <2>1 DEF SeenInv
<1> QED
  BY <1>1, <1>2, <1>3, WatchInvariance, PTL DEF WatchSpec

=============================================================================
