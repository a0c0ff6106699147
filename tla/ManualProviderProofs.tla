------------------------- MODULE ManualProviderProofs -------------------------
(***************************************************************************)
(* Theorems about ManualProvider, for any number of calls, IDs, processes, *)
(* sessions, turns and approvers.                                          *)
(*                                                                         *)
(* Everything rests on two facts about the sections p.mu guards: they      *)
(* change no decision that has been made (SectionsKeepDecisions), and a    *)
(* review decides only items that are in the map and have outlived its     *)
(* pruning (ReviewEffect).  The invariant IInv adds that an item outside   *)
(* the map is open until Decide refuses or collects it.                    *)
(***************************************************************************)
EXTENDS ManualProvider, TLAPS

\* The goroutine that has not queued its item has not been told anything.
OpenUntilQueued == \A c \in Calls : call[c] \in {"idle", "entered"} => Open(c)

IInv == TypeOK /\ QueueMatchesCalls /\ OpenUntilQueued

Decisions == [outcome : Outcomes \cup {""}, scope : Scopes \cup {""},
              approver : Approvers \cup {NoApprover}]

ReviewerAnswer(d) == d \in Decisions /\ d.outcome \in {"approved", "denied"}

-----------------------------------------------------------------------------
(* The sections p.mu guards.                                               *)

\* An item ended by its context says so.
LEMMA EndedType ==
    ASSUME NEW state
    PROVE  Ended(state) \in Decisions /\ Ended(state).outcome \in {"expired", "cancelled"}
  BY DEF Ended, Undecided, Decisions, Outcomes

\* Pruning is typed, touches open items of the map only, and leaves open exactly
\* those whose context lives.
LEMMA PrunedEffect ==
    ASSUME decision \in [Calls -> Decisions], NEW ctxs
    PROVE  /\ Pruned(ctxs) \in [Calls -> Decisions]
           /\ \A c \in Calls :
                /\ ~Open(c) => Pruned(ctxs)[c] = decision[c]
                /\ Open(c) => \/ Pruned(ctxs)[c] = decision[c]
                              \/ Pruned(ctxs)[c].outcome \in {"expired", "cancelled"}
                /\ c \in pending /\ Pruned(ctxs)[c].outcome = "" => ctxs[c] = "live"
                /\ Open(c) /\ ctxs[c] = "live" => Pruned(ctxs)[c] = decision[c]
  BY EndedType DEF Pruned, Open

\* What a reviewer may send is a decision.
LEMMA ReviewDecisionType ==
    ASSUME NEW outcome \in {"approved", "denied"}, NEW scope \in Scopes, NEW a \in Approvers
    PROVE  LET d == ReviewDecision(outcome, scope, a)
           IN  /\ ReviewerAnswer(d)
               /\ d.outcome = outcome
               /\ outcome = "approved" => d.scope = scope
               /\ outcome = "denied" => d.scope = "command"
  BY DEF ReviewDecision, ReviewerAnswer, Decisions, Outcomes, Scopes

\* A review is typed; it gives d to exactly the items it resolves that outlived
\* the pruning and to every other item what pruning left it with.
LEMMA ReviewEffect ==
    ASSUME decision \in [Calls -> Decisions], NEW ctxs, NEW target, NEW d \in Decisions
    PROVE  /\ Reviewed(target, d, ctxs) \in [Calls -> Decisions]
           /\ \A c \in Calls :
                Reviewed(target, d, ctxs)[c] =
                  IF c \in Resolved(target, d) /\ Pruned(ctxs)[c].outcome = ""
                  THEN d ELSE Pruned(ctxs)[c]
<1>1. Pruned(ctxs) \in [Calls -> Decisions]
  BY PrunedEffect
<1> QED
  BY <1>1 DEF Reviewed, Finish

\* A review resolves items of the map only.
LEMMA ResolvedPending ==
    ASSUME NEW target \in pending, NEW d
    PROVE  Resolved(target, d) \subseteq pending
  BY DEF Resolved

-----------------------------------------------------------------------------
(* The invariant.                                                          *)

LEMMA InitIInv == Init => IInv
<1> SUFFICES ASSUME Init
             PROVE  IInv
  OBVIOUS
<1>1. TypeOK
  BY DEF Init, TypeOK, Undecided
<1>2. QueueMatchesCalls
  BY DEF Init, QueueMatchesCalls
<1>3. OpenUntilQueued
  BY DEF Init, OpenUntilQueued, Open, Undecided
<1> QED
  BY <1>1, <1>2, <1>3 DEF IInv

\* A section that touches only the decisions of queued items preserves IInv.
LEMMA SectionStep ==
    ASSUME IInv, decision' \in [Calls -> Decisions],
           \A c \in Calls : call[c] \in {"idle", "entered"} => decision'[c] = decision[c],
           UNCHANGED <<call, request, ctx, pending>>
    PROVE  IInv'
  BY DEF IInv, TypeOK, QueueMatchesCalls, OpenUntilQueued, Open, Decisions

\* Every step preserves IInv.
LEMMA NextIInv == IInv /\ [Next]_vars => IInv'
<1> SUFFICES ASSUME IInv, [Next]_vars
             PROVE  IInv'
  OBVIOUS
<1> USE DEF IInv
<1>t. decision \in [Calls -> Decisions]
  BY DEF TypeOK, Decisions
<1>q. \A c \in Calls : call[c] \in {"idle", "entered"} => Open(c) /\ c \notin pending
  BY DEF QueueMatchesCalls, OpenUntilQueued
<1>1. ASSUME NEW c \in Calls,
             NEW q \in [id : Ids, process : Procs, session : SessionIds, turn : Turns],
             Call(c, q)
      PROVE  IInv'
  <2>1. TypeOK'
    BY <1>1 DEF Call, TypeOK
  <2>2. QueueMatchesCalls'
    <3>1. c \notin pending
      BY <1>1, <1>q DEF Call
    <3>2. pending' = {e \in Calls : call'[e] = "waiting"}
      BY <1>1, <3>1 DEF Call, QueueMatchesCalls, TypeOK
    <3>3. \A e \in pending : request'[e] = request[e]
      BY <1>1, <3>1 DEF Call, TypeOK
    <3> QED
      BY <1>1, <3>2, <3>3 DEF Call, QueueMatchesCalls
  <2>3. OpenUntilQueued'
    BY <1>1 DEF Call, OpenUntilQueued, Open, TypeOK
  <2> QED
    BY <2>1, <2>2, <2>3
<1>2. ASSUME NEW c \in Calls, ContextEnds(c)
      PROVE  IInv'
  <2>1. TypeOK'
    BY <1>2 DEF ContextEnds, TypeOK
  <2>2. UNCHANGED <<call, request, decision, pending>>
    BY <1>2 DEF ContextEnds
  <2>3. QueueMatchesCalls' /\ OpenUntilQueued'
    BY <2>2 DEF QueueMatchesCalls, OpenUntilQueued, Open
  <2> QED
    BY <2>1, <2>3
<1>3. ASSUME NEW c \in Calls, Register(c)
      PROVE  IInv'
  <2>1. TypeOK'
    BY <1>3 DEF Register, TypeOK
  <2>2. QueueMatchesCalls'
    <3>1. pending' = {e \in Calls : call'[e] = "waiting"}
      BY <1>3 DEF Register, QueueMatchesCalls, TypeOK
    <3>2. \A e \in pending : request[e].id # request[c].id
      BY <1>3 DEF Register, DuplicateId
    <3> QED
      BY <1>3, <3>1, <3>2 DEF Register, QueueMatchesCalls
  <2>3. OpenUntilQueued'
    BY <1>3 DEF Register, OpenUntilQueued, Open, TypeOK
  <2> QED
    BY <2>1, <2>2, <2>3
<1>4. ASSUME NEW c \in Calls, RefuseDuplicate(c)
      PROVE  IInv'
  <2>1. Ended("canceled") \in Decisions
    BY EndedType
  <2>2. TypeOK'
    BY <1>4, <2>1 DEF RefuseDuplicate, TypeOK, Decisions
  <2>3. QueueMatchesCalls'
    BY <1>4 DEF RefuseDuplicate, QueueMatchesCalls, TypeOK
  <2>4. OpenUntilQueued'
    BY <1>4 DEF RefuseDuplicate, OpenUntilQueued, Open, TypeOK
  <2> QED
    BY <2>2, <2>3, <2>4
<1>5. ASSUME NEW c \in Calls, FinishOnContext(c)
      PROVE  IInv'
  <2>1. Ended(ctx[c]) \in Decisions
    BY EndedType
  <2>2. decision' \in [Calls -> Decisions]
    BY <1>5, <2>1, <1>t DEF FinishOnContext
  <2>3. \A e \in Calls : call[e] \in {"idle", "entered"} => decision'[e] = decision[e]
    BY <1>5, <1>t DEF FinishOnContext
  <2> QED
    BY <1>5, <2>2, <2>3, SectionStep DEF FinishOnContext
<1>6. ASSUME NEW c \in Calls, Collect(c)
      PROVE  IInv'
  BY <1>6 DEF Collect, TypeOK, QueueMatchesCalls, OpenUntilQueued, Open
<1>p. \A c \in Calls : call[c] \in {"idle", "entered"} => Pruned(ctx)[c] = decision[c]
  BY <1>q, <1>t DEF Pruned
<1>7. ASSUME decision' = Pruned(ctx), UNCHANGED <<call, request, ctx, pending>>
      PROVE  IInv'
  BY <1>7, <1>p, <1>t, PrunedEffect, SectionStep
<1>8. ASSUME NEW c \in Calls, NEW outcome \in {"approved", "denied"}, NEW scope \in Scopes,
             NEW a \in Approvers, Review(c, outcome, scope, a)
      PROVE  IInv'
  <2> DEFINE d == ReviewDecision(outcome, scope, a)
  <2>1. d \in Decisions
    BY ReviewDecisionType DEF ReviewerAnswer
  <2> HIDE DEF d
  <2>2. /\ c \in pending /\ decision' = Reviewed(c, d, ctx)
        /\ UNCHANGED <<call, request, ctx, pending>>
    BY <1>8 DEF Review, Reviewable, d
  <2>3. Resolved(c, d) \subseteq pending
    BY <2>2, ResolvedPending
  <2>4. decision' \in [Calls -> Decisions]
    BY <1>t, <2>1, <2>2, ReviewEffect
  <2>5. \A e \in Calls : call[e] \in {"idle", "entered"} => decision'[e] = decision[e]
    <3> SUFFICES ASSUME NEW e \in Calls, call[e] \in {"idle", "entered"}
                 PROVE  decision'[e] = decision[e]
      OBVIOUS
    <3>1. e \notin Resolved(c, d) /\ Pruned(ctx)[e] = decision[e]
      BY <1>p, <1>q, <2>3
    <3>2. decision'[e] = IF e \in Resolved(c, d) /\ Pruned(ctx)[e].outcome = ""
                         THEN d ELSE Pruned(ctx)[e]
      BY <1>t, <2>1, <2>2, ReviewEffect
    <3> QED
      BY <3>1, <3>2
  <2> QED
    BY <2>2, <2>4, <2>5, SectionStep
<1>9. CASE UNCHANGED vars
  BY <1>9 DEF vars, TypeOK, QueueMatchesCalls, OpenUntilQueued, Open
<1> QED
  BY <1>1, <1>2, <1>3, <1>4, <1>5, <1>6, <1>7, <1>8, <1>9
     DEF Next, ListPending, ReviewNotFound

\* IInv holds in every reachable state.
THEOREM Invariance == Spec => []IInv
  BY InitIInv, NextIInv, PTL DEF Spec

\* The queue's state is well typed.
THEOREM TypeCorrect == Spec => []TypeOK
  BY Invariance, PTL DEF IInv

\* The map holds exactly the items of the calls that wait, one per ID.
THEOREM QueueAlwaysMatchesCalls == Spec => []QueueMatchesCalls
  BY Invariance, PTL DEF IInv

-----------------------------------------------------------------------------
(* Decisions.                                                              *)

\* How a step may change a decision: not at all once it is made, by the end of
\* the context, or by a review of a queued call whose context is live.
Changes(c) ==
    \/ decision'[c] = decision[c]
    \/ Open(c) /\ decision'[c].outcome \in {"expired", "cancelled"}
    \/ Open(c) /\ c \in pending /\ ctx[c] = "live"

\* Every step changes decisions in those ways only.
LEMMA StepChanges == IInv /\ [Next]_vars => \A c \in Calls : Changes(c)
<1> SUFFICES ASSUME IInv, [Next]_vars, NEW e \in Calls
             PROVE  Changes(e)
  OBVIOUS
<1>t. decision \in [Calls -> Decisions]
  BY DEF IInv, TypeOK, Decisions
<1>1. CASE UNCHANGED decision
  BY <1>1 DEF Changes
<1>2. ASSUME NEW c \in Calls, RefuseDuplicate(c)
      PROVE  Changes(e)
  <2>1. Open(c)
    BY <1>2 DEF RefuseDuplicate, IInv, OpenUntilQueued
  <2>2. decision'[e] = IF e = c THEN Ended("canceled") ELSE decision[e]
    BY <1>2, <1>t DEF RefuseDuplicate
  <2> QED
    BY <2>1, <2>2, EndedType DEF Changes
<1>3. ASSUME NEW c \in Calls, FinishOnContext(c)
      PROVE  Changes(e)
  <2>1. decision'[e] = IF e = c THEN Ended(ctx[c]) ELSE decision[e]
    BY <1>3, <1>t DEF FinishOnContext
  <2> QED
    BY <1>3, <2>1, EndedType DEF Changes, FinishOnContext
<1>4. CASE decision' = Pruned(ctx)
  BY <1>4, <1>t, PrunedEffect DEF Changes
<1>5. ASSUME NEW c \in Calls, NEW outcome \in {"approved", "denied"}, NEW scope \in Scopes,
             NEW a \in Approvers, Review(c, outcome, scope, a)
      PROVE  Changes(e)
  <2> DEFINE d == ReviewDecision(outcome, scope, a)
  <2>1. d \in Decisions
    BY ReviewDecisionType DEF ReviewerAnswer
  <2> HIDE DEF d
  <2>2. c \in pending /\ decision' = Reviewed(c, d, ctx)
    BY <1>5 DEF Review, Reviewable, d
  <2>3. Resolved(c, d) \subseteq pending
    BY <2>2, ResolvedPending
  <2>4. CASE e \in Resolved(c, d) /\ Pruned(ctx)[e].outcome = ""
    BY <2>3, <2>4, <1>t, PrunedEffect DEF Changes, Open
  <2>5. CASE ~(e \in Resolved(c, d) /\ Pruned(ctx)[e].outcome = "")
    <3>1. decision'[e] = Pruned(ctx)[e]
      BY <2>1, <2>2, <2>5, <1>t, ReviewEffect
    <3> QED
      BY <3>1, <1>t, PrunedEffect DEF Changes
  <2> QED
    BY <2>4, <2>5
<1> QED
  BY <1>1, <1>2, <1>3, <1>4, <1>5
     DEF Next, Call, ContextEnds, Register, Collect, ListPending, ReviewNotFound, vars

\* A decision is final.
THEOREM DecisionAlwaysFinal == Spec => DecisionFinal
<1>1. IInv /\ [Next]_vars => [\A c \in Calls : ~Open(c) => decision'[c] = decision[c]]_vars
  BY StepChanges DEF Changes
<1> QED
  BY <1>1, Invariance, PTL DEF Spec, DecisionFinal

\* A reviewer decides only requests whose context is live.
THEOREM OnlyLiveAlwaysReviewed == Spec => OnlyLiveReviewed
<1>1. IInv /\ [Next]_vars =>
        [\A c \in Calls : Open(c) /\ decision'[c].outcome \in {"approved", "denied"} =>
            ctx[c] = "live"]_vars
  BY StepChanges DEF Changes, Open
<1> QED
  BY <1>1, Invariance, PTL DEF Spec, OnlyLiveReviewed

-----------------------------------------------------------------------------
(* The reach of an approval.                                               *)

\* The requests a decision d for request c reaches besides c itself.
Reached(c, d) ==
    IF d.outcome = "denied" \/ d.scope = "command" THEN {}
    ELSE {e \in Calls \ {c} :
            /\ e \in pending /\ Open(e) /\ ctx[e] = "live"
            /\ request[e].process = request[c].process
            /\ request[e].session = request[c].session
            /\ d.scope = "message" => request[e].turn = request[c].turn}

\* In the step that decides c by review, the other open requests with a live
\* context that are decided are the ones its scope reaches.
ReachesItsScope(c) ==
    Open(c) /\ decision'[c].outcome \in {"approved", "denied"} =>
      {e \in Calls \ {c} : /\ e \in pending /\ Open(e) /\ ctx[e] = "live"
                           /\ ~Open(e)'} = Reached(c, decision'[c])

\* A step that is no review decides no open item by review.
LEMMA OtherStepsDecideNothing ==
    ASSUME IInv, [Next]_vars, NEW e \in Calls, Open(e),
           decision'[e].outcome \in {"approved", "denied"}
    PROVE  \E c \in Calls, outcome \in {"approved", "denied"}, scope \in Scopes, a \in Approvers :
              Review(c, outcome, scope, a)
<1>t. decision \in [Calls -> Decisions]
  BY DEF IInv, TypeOK, Decisions
<1>0. decision[e].outcome = ""
  BY DEF Open
<1>1. decision' # decision
  BY <1>0
<1>2. ~ \E c \in Calls : RefuseDuplicate(c) \/ FinishOnContext(c)
  <2> SUFFICES ASSUME NEW c \in Calls, RefuseDuplicate(c) \/ FinishOnContext(c)
               PROVE  FALSE
    OBVIOUS
  <2>1. \E state : decision'[e] = decision[e] \/ decision'[e] = Ended(state)
    BY <1>t DEF RefuseDuplicate, FinishOnContext
  <2> QED
    BY <2>1, <1>0, EndedType
<1>3. decision' # Pruned(ctx)
  <2>1. Pruned(ctx)[e].outcome \notin {"approved", "denied"}
    <3>1. Pruned(ctx)[e] = IF e \in pending /\ decision[e].outcome = "" /\ ctx[e] # "live"
                           THEN Ended(ctx[e]) ELSE decision[e]
      BY DEF Pruned, Open
    <3> QED
      BY <3>1, <1>0, EndedType
  <2> QED
    BY <2>1
<1>4. /\ ~ \E c \in Calls, q \in [id : Ids, process : Procs, session : SessionIds, turn : Turns] :
            Call(c, q)
      /\ ~ \E c \in Calls : ContextEnds(c)
      /\ ~ \E c \in Calls : Register(c)
      /\ ~ \E c \in Calls : Collect(c)
  BY <1>1 DEF Call, ContextEnds, Register, Collect
<1>5. /\ ~ListPending
      /\ ~ \E id \in Ids : ReviewNotFound(id)
      /\ ~UNCHANGED vars
  BY <1>1, <1>3 DEF ListPending, ReviewNotFound, vars
<1>6. Next
  BY <1>5
<1>7. /\ ~ \E c \in Calls : RefuseDuplicate(c)
      /\ ~ \E c \in Calls : FinishOnContext(c)
  BY <1>2
<1> QED
  BY <1>4, <1>5, <1>6, <1>7 DEF Next

\* A review reaches exactly its scope, whichever of the decided requests one
\* looks at.
LEMMA ReviewReaches ==
    ASSUME IInv, NEW t \in Calls, NEW outcome \in {"approved", "denied"}, NEW scope \in Scopes,
           NEW a \in Approvers, Review(t, outcome, scope, a), NEW c \in Calls
    PROVE  ReachesItsScope(c)
<1> DEFINE d == ReviewDecision(outcome, scope, a)
<1>d. /\ d \in Decisions /\ d.outcome \in {"approved", "denied"}
      /\ d.outcome = "denied" => d.scope = "command"
  BY ReviewDecisionType DEF ReviewerAnswer
<1>s. d.scope \in Scopes
  BY DEF ReviewDecision, Scopes
<1> HIDE DEF d
<1>t. decision \in [Calls -> Decisions]
  BY DEF IInv, TypeOK, Decisions
<1> SUFFICES ASSUME Open(c), decision'[c].outcome \in {"approved", "denied"}
             PROVE  {e \in Calls \ {c} : /\ e \in pending /\ Open(e) /\ ctx[e] = "live"
                                         /\ ~Open(e)'} = Reached(c, decision'[c])
  BY DEF ReachesItsScope
<1>1. t \in pending /\ Pruned(ctx)[t].outcome = "" /\ decision' = Reviewed(t, d, ctx)
  BY DEF Review, Reviewable, d
<1>2. \A e \in Calls : decision'[e] =
        IF e \in Resolved(t, d) /\ Pruned(ctx)[e].outcome = "" THEN d ELSE Pruned(ctx)[e]
  BY <1>1, <1>d, <1>t, ReviewEffect
<1>3. c \in Resolved(t, d) /\ decision'[c] = d
  <2>1. Pruned(ctx)[c].outcome \notin {"approved", "denied"}
    <3>1. Pruned(ctx)[c] = decision[c] \/ Pruned(ctx)[c].outcome \in {"expired", "cancelled"}
      BY <1>t, PrunedEffect
    <3> QED
      BY <3>1 DEF Open
  <2>2. decision'[c] = IF c \in Resolved(t, d) /\ Pruned(ctx)[c].outcome = ""
                       THEN d ELSE Pruned(ctx)[c]
    BY <1>2
  <2> QED
    BY <2>1, <2>2
<1>4. \A e \in Calls : e \in pending /\ Open(e) /\ ctx[e] = "live" =>
        (~Open(e)' <=> e \in Resolved(t, d))
  <2> SUFFICES ASSUME NEW e \in Calls, e \in pending, Open(e), ctx[e] = "live"
               PROVE  ~Open(e)' <=> e \in Resolved(t, d)
    OBVIOUS
  <2>1. Pruned(ctx)[e] = decision[e]
    BY <1>t, PrunedEffect
  <2>2. decision[e].outcome = ""
    BY DEF Open
  <2>3. decision'[e] = IF e \in Resolved(t, d) THEN d ELSE decision[e]
    BY <1>2, <2>1, <2>2
  <2> QED
    BY <2>2, <2>3, <1>d DEF Open
<1>5. CASE d.outcome = "denied" \/ d.scope = "command"
  <2>1. Resolved(t, d) = {t} /\ c = t
    BY <1>3, <1>5, <1>d DEF Resolved
  <2> QED
    BY <2>1, <1>3, <1>4, <1>5 DEF Reached
<1>6. CASE ~(d.outcome = "denied" \/ d.scope = "command")
  <2>1. Resolved(t, d) = {e \in pending : /\ SameSession(request[e], request[t])
                                          /\ d.scope = "session" \/ request[e].turn = request[t].turn}
    BY <1>6, <1>d DEF Resolved
  <2>2. d.scope = "session" \/ d.scope = "message"
    BY <1>6, <1>s DEF Scopes
  <2>3. \A e \in pending : e \in Resolved(t, d) <=>
          /\ request[e].process = request[c].process
          /\ request[e].session = request[c].session
          /\ d.scope = "message" => request[e].turn = request[c].turn
    BY <2>1, <2>2, <1>3 DEF SameSession
  <2> QED
    BY <2>3, <1>3, <1>4, <1>6 DEF Reached
<1> QED
  BY <1>5, <1>6

\* A scoped approval resolves the queued requests of its turn or session, all of
\* them and no other; a command approval or a denial resolves one.
THEOREM ApprovalAlwaysReachesItsScope == Spec => ApprovalReachesItsScope
<1>1. IInv /\ [Next]_vars => \A c \in Calls : ReachesItsScope(c)
  <2> SUFFICES ASSUME IInv, [Next]_vars, NEW c \in Calls, Open(c),
                      decision'[c].outcome \in {"approved", "denied"}
               PROVE  ReachesItsScope(c)
    BY DEF ReachesItsScope
  <2> QED
    BY OtherStepsDecideNothing, ReviewReaches
<1>2. ASSUME \A c \in Calls : ReachesItsScope(c)
      PROVE  \A c \in Calls :
                LET d == decision'[c]
                    others == {e \in Calls \ {c} : e \in pending /\ Open(e) /\ ctx[e] = "live"}
                    resolved == {e \in others : ~Open(e)'}
                IN  Open(c) /\ d.outcome \in {"approved", "denied"} =>
                      resolved = IF d.outcome = "denied" \/ d.scope = "command" THEN {}
                                 ELSE {e \in others :
                                         /\ request[e].process = request[c].process
                                         /\ request[e].session = request[c].session
                                         /\ d.scope = "message" => request[e].turn = request[c].turn}
  BY <1>2 DEF ReachesItsScope, Reached
<1> QED
  BY <1>1, <1>2, Invariance, PTL DEF Spec, ApprovalReachesItsScope

=============================================================================
