----------------------------- MODULE BrokerProofs -----------------------------
(***************************************************************************)
(* Theorems about Broker, for any number of processes, sessions, requests, *)
(* approvers and turns, any TTLs, any waiting time for b.mu and either     *)
(* kind of provider.                                                       *)
(*                                                                         *)
(* The invariant IInv rests on one argument.  A section that prunes and    *)
(* then changes one session leaves sessions S, leases L and cancels the    *)
(* requests C (Commit); it is safe if the leases L are current in S and    *)
(* every live request it does not cancel is (CommitStep).  Pruning alone   *)
(* provides that (PruneStep), and each lifecycle event removes exactly     *)
(* what its own change to the session would leave behind.  Decide adds a   *)
(* lease without looking at the session; that is safe because the request  *)
(* it found open is live, hence current.                                   *)
(***************************************************************************)
EXTENDS Broker, TLAPS

SessionMaps == [Keys -> [state : {"absent", "idle", "active"}, turn : Nat]]

\* ContextActive and the conjuncts of LeasesCurrent in an arbitrary session map.
ActiveIn(S, q) == S[Key(q)].state = "active" /\ S[Key(q)].turn = q.turn

CurrentIn(S, l) ==
    /\ S[Key(l)] # Absent
    /\ l.scope = "message" => S[Key(l)].state = "active" /\ S[Key(l)].turn = l.turn

\* A goroutine past its first section knows its context.
Placed == \A r \in Reqs : pc[r] \notin {"idle", "refused", "lost"} => request[r] \in Requests

IInv == TypeOK /\ Placed /\ RequestsAccounted /\ LiveRequestsCurrent /\ LeasesCurrent

-----------------------------------------------------------------------------
(* Pruning.                                                                *)

\* The key of a request or a lease is a key of the session map.
LEMMA KeyType ==
    /\ \A q \in Requests : Key(q) \in Keys /\ Key(q)[1] = q.process
    /\ \A l \in Leases : Key(l) \in Keys /\ Key(l)[1] = l.process
  BY DEF Key, Keys, Requests, Leases

\* What pruneLocked leaves is typed and current, and so is every live request
\* that it does not cancel.
LEMMA PruneStep ==
    ASSUME IInv, NEW t \in Nat
    PROVE  /\ LivingSessions \in SessionMaps
           /\ LivingLeases(t) \subseteq leases
           /\ leases \subseteq Leases
           /\ \A l \in LivingLeases(t) : CurrentIn(LivingSessions, l)
           /\ \A r \in Reqs \ Overdue(t) : ctx[r] = "live" =>
                r \in inflight /\ request[r] \in Requests /\ ActiveIn(LivingSessions, request[r])
<1>1. LivingSessions \in SessionMaps
  BY DEF LivingSessions, SessionMaps, IInv, TypeOK, Absent
<1>2. LivingLeases(t) \subseteq leases /\ leases \subseteq Leases
  BY DEF LivingLeases, IInv, TypeOK
<1>3. ASSUME NEW l \in LivingLeases(t)
      PROVE  CurrentIn(LivingSessions, l)
  <2>1. Key(l) \in Keys /\ Key(l)[1] = l.process
    BY <1>2, <1>3, KeyType
  <2>2. LivingSessions[Key(l)] = sessions[Key(l)]
    BY <1>3, <2>1 DEF LivingSessions, LivingLeases
  <2> QED
    BY <1>2, <1>3, <2>2 DEF CurrentIn, IInv, LeasesCurrent
<1>4. ASSUME NEW r \in Reqs \ Overdue(t), ctx[r] = "live"
      PROVE  r \in inflight /\ request[r] \in Requests /\ ActiveIn(LivingSessions, request[r])
  <2>1. r \in inflight /\ ContextActive(request[r])
    BY <1>4 DEF IInv, LiveRequestsCurrent
  <2>2. request[r] \in Requests
    BY <2>1 DEF IInv, Placed, RequestsAccounted
  <2>3. Key(request[r]) \in Keys /\ Key(request[r])[1] = request[r].process
    BY <2>2, KeyType
  <2>4. sessions[Key(request[r])] # Absent
    BY <2>1 DEF ContextActive, Absent
  <2>5. request[r].process \in alive
    BY <1>4, <2>1, <2>4 DEF Overdue
  <2> QED
    BY <2>1, <2>2, <2>3, <2>5 DEF LivingSessions, ContextActive, ActiveIn
<1> QED
  BY <1>1, <1>2, <1>3, <1>4

\* A section that keeps to what is current, and cancels the requests it leaves
\* behind, preserves the invariant.  It may also move a request that is not in
\* flight.
LEMMA CommitAndMove ==
    ASSUME IInv, NEW S \in SessionMaps, NEW L, L \subseteq Leases, NEW C,
           \A l \in L : CurrentIn(S, l),
           \A r \in Reqs \ C : ctx[r] = "live" => ActiveIn(S, request[r]),
           Commit(S, L, C),
           clock' \in Nat, alive' \subseteq Procs, closed' \subseteq Reqs,
           decision' \in [Reqs -> Decisions],
           epoch' \in [Keys -> Nat], approvals' \subseteq Approvals,
           pc' \in [Reqs -> PCs], request' \in [Reqs -> Requests \cup {NoRequest}],
           UNCHANGED <<inflight, pending>>, Placed', RequestsAccounted',
           \A r \in inflight : request'[r] = request[r]
    PROVE  IInv'
<1>1. ctx' \in [Reqs -> {"none", "live", "canceled", "deadline"}]
  BY DEF Commit, IInv, TypeOK
<1>2. TypeOK'
  BY <1>1 DEF Commit, IInv, TypeOK, SessionMaps
<1>3. LiveRequestsCurrent'
  <2> SUFFICES ASSUME NEW r \in Reqs, ctx'[r] = "live"
               PROVE  r \in inflight /\ ActiveIn(S, request'[r])
    BY DEF LiveRequestsCurrent, ContextActive, ActiveIn, Commit, Key
  <2>1. ctx[r] = "live" /\ r \notin C
    BY DEF Commit
  <2> QED
    BY <2>1 DEF IInv, LiveRequestsCurrent
<1>4. LeasesCurrent'
  BY DEF LeasesCurrent, CurrentIn, Commit, Absent, Key
<1> QED
  BY <1>2, <1>3, <1>4 DEF IInv

\* The usual case: no request moves.
LEMMA CommitStep ==
    ASSUME IInv, NEW S \in SessionMaps, NEW L, L \subseteq Leases, NEW C,
           \A l \in L : CurrentIn(S, l),
           \A r \in Reqs \ C : ctx[r] = "live" => ActiveIn(S, request[r]),
           Commit(S, L, C),
           clock' \in Nat, alive' \subseteq Procs, closed' \subseteq Reqs,
           decision' \in [Reqs -> Decisions],
           epoch' \in [Keys -> Nat], approvals' \subseteq Approvals,
           UNCHANGED <<inflight, pending, pc, request>>
    PROVE  IInv'
<1>1. /\ pc' \in [Reqs -> PCs] /\ request' \in [Reqs -> Requests \cup {NoRequest}]
      /\ Placed' /\ RequestsAccounted' /\ \A r \in inflight : request'[r] = request[r]
  BY DEF IInv, TypeOK, Placed, RequestsAccounted
<1> QED
  BY <1>1, CommitAndMove

\* ensureLeaseLocked for a request of the active turn adds only a typed and
\* current lease.
LEMMA EnsuredStep ==
    ASSUME NEW S \in SessionMaps, NEW L, L \subseteq Leases, \A l \in L : CurrentIn(S, l),
           NEW q \in Requests, ActiveIn(S, q),
           NEW d, Valid(d), d.outcome = "approved", d.approver \in Approvers, NEW t \in Nat
    PROVE  LET E == Ensured(L, q, d, t)
           IN  E \subseteq Leases /\ \A l \in E : CurrentIn(S, l)
<1>1. CASE Ensured(L, q, d, t) = L
  BY <1>1
<1>2. CASE Ensured(L, q, d, t) # L
  <2> DEFINE n == NewLease(q, d, t)
  <2>1. Ensured(L, q, d, t) = L \cup {n} /\ d.scope \in {"message", "session"}
    BY <1>2 DEF Ensured, Valid, Scopes
  <2>2. n \in Leases /\ Key(n) = Key(q) /\ (n.scope = "message" => n.turn = q.turn)
    BY <2>1, TTLAssumption DEF NewLease, Leases, Requests, Key
  <2>3. CurrentIn(S, n)
    BY <2>2 DEF CurrentIn, ActiveIn, Absent
  <2> QED
    BY <2>1, <2>2, <2>3
<1> QED
  BY <1>1, <1>2

-----------------------------------------------------------------------------
(* One lemma per group of actions.                                         *)

LEMMA InitIInv == Init => IInv
<1> SUFFICES ASSUME Init PROVE IInv
  OBVIOUS
<1>1. P!Undecided \in Decisions
  BY DEF P!Undecided, Decisions
<1>2. TypeOK
  BY <1>1 DEF Init, TypeOK, PCs, Absent
<1> QED
  BY <1>2 DEF Init, IInv, Placed, RequestsAccounted, LiveRequestsCurrent, LeasesCurrent

LEMMA EnvironmentIInv == IInv /\ Environment => IInv'
<1> SUFFICES ASSUME IInv, Environment PROVE IInv'
  OBVIOUS
<1> USE DEF clients, handlers, queue, history
<1>1. CASE Tick
  BY <1>1 DEF Tick, IInv, TypeOK, Placed, RequestsAccounted, LiveRequestsCurrent,
              LeasesCurrent, ContextActive, Key, BoundsAssumption
<1>2. CASE \E p \in Procs : ProcessExits(p) \/ ProcessReturns(p)
  BY <1>2 DEF ProcessExits, ProcessReturns, IInv, TypeOK, Placed, RequestsAccounted, LiveRequestsCurrent,
              LeasesCurrent, ContextActive, Key
<1>3. ASSUME NEW r \in Reqs, Disconnect(r)
      PROVE  IInv'
  <2>1. sessions \in SessionMaps /\ leases \subseteq Leases
    BY DEF IInv, TypeOK, SessionMaps
  <2>2. \A l \in leases : CurrentIn(sessions, l)
    BY DEF IInv, LeasesCurrent, CurrentIn
  <2>3. \A q \in Reqs : ctx[q] = "live" => ActiveIn(sessions, request[q])
    BY DEF IInv, LiveRequestsCurrent, ContextActive, ActiveIn
  <2>4. /\ clock' \in Nat /\ alive' \subseteq Procs /\ closed' \subseteq Reqs
        /\ decision' \in [Reqs -> Decisions] /\ epoch' \in [Keys -> Nat]
        /\ approvals' \subseteq Approvals
        /\ UNCHANGED <<inflight, pending, pc, request>>
    BY <1>3 DEF Disconnect, IInv, TypeOK
  <2>5. Commit(sessions, leases, {r})
    BY <1>3 DEF Disconnect
  <2> QED
    BY <2>1, <2>2, <2>3, <2>4, <2>5, CommitStep
<1>4. ASSUME NEW r \in Reqs, DeadlineFires(r)
      PROVE  IInv'
  <2>1. ctx' \in [Reqs -> {"none", "live", "canceled", "deadline"}]
    BY <1>4 DEF DeadlineFires, IInv, TypeOK
  <2>2. \A q \in Reqs : ctx'[q] = "live" => ctx[q] = "live"
    BY <1>4 DEF DeadlineFires, IInv, TypeOK
  <2> QED
    BY <1>4, <2>1, <2>2 DEF DeadlineFires, IInv, TypeOK, Placed, RequestsAccounted,
              LiveRequestsCurrent, LeasesCurrent, ContextActive, Key
<1>5. CASE Restart
  <2>1. TypeOK'
    BY <1>5 DEF Restart, IInv, TypeOK, Absent, PCs
  <2> QED
    BY <1>5, <2>1 DEF Restart, IInv, TypeOK, Placed, RequestsAccounted,
              LiveRequestsCurrent, LeasesCurrent
<1> QED
  BY <1>1, <1>2, <1>3, <1>4, <1>5 DEF Environment

LEMMA LifecycleIInv == IInv /\ Lifecycle => IInv'
<1> SUFFICES ASSUME IInv, Lifecycle PROVE IInv'
  OBVIOUS
<1> USE DEF clients, queue, history
<1>1. \A t \in ReadTimes : t \in Nat
  BY DEF ReadTimes
<1>2. /\ clock \in Nat /\ alive \subseteq Procs /\ closed \subseteq Reqs
      /\ decision \in [Reqs -> Decisions] /\ epoch \in [Keys -> Nat]
      /\ approvals \subseteq Approvals
  BY DEF IInv, TypeOK
<1>3. ASSUME NEW k \in Keys, NEW t \in ReadTimes, SessionStarted(k, t)
      PROVE  IInv'
  <2> DEFINE S == [LivingSessions EXCEPT ![k].state = "idle"]
  <2>1. S \in SessionMaps /\ \A j \in Keys \ {k} : S[j] = LivingSessions[j]
    BY <1>1, PruneStep DEF SessionMaps
  <2>2. \A l \in LivingLeases(t) : CurrentIn(S, l)
    BY <1>1, <1>3, <2>1, PruneStep, KeyType DEF CurrentIn, SessionStarted, Absent
  <2>3. \A r \in Reqs \ Overdue(t) : ctx[r] = "live" => ActiveIn(S, request[r])
    BY <1>1, <1>3, <2>1, PruneStep, KeyType DEF ActiveIn, SessionStarted, Absent
  <2>4. LivingLeases(t) \subseteq Leases
    BY <1>1, PruneStep
  <2>5. Commit(S, LivingLeases(t), Overdue(t)) /\ epoch' \in [Keys -> Nat]
    BY <1>2, <1>3 DEF SessionStarted
  <2> HIDE DEF S
  <2> QED
    BY <1>2, <1>3, <2>1, <2>2, <2>3, <2>4, <2>5, CommitStep DEF SessionStarted
<1>4. ASSUME NEW k \in Keys, NEW t \in ReadTimes, TurnStarted(k, t)
      PROVE  IInv'
  <2> DEFINE S == [LivingSessions EXCEPT ![k].state = "active", ![k].turn = @ + 1]
             L == LivingLeases(t) \ MessageLeases(k)
             C == Overdue(t) \cup Waiting(k)
  <2>1. S \in SessionMaps /\ S[k].state = "active" /\ \A j \in Keys \ {k} : S[j] = LivingSessions[j]
    BY <1>1, PruneStep DEF SessionMaps
  <2>2. Commit(S, L, C) /\ L \subseteq Leases
    BY <1>1, <1>4, PruneStep DEF TurnStarted
  <2> HIDE DEF S
  <2>3. S[k] # Absent
    BY <2>1 DEF Absent
  <2>4. \A l \in L : CurrentIn(S, l)
    BY <1>1, <2>1, <2>3, PruneStep, KeyType DEF CurrentIn, MessageLeases
  <2>5. \A r \in Reqs \ C : ctx[r] = "live" => ActiveIn(S, request[r])
    BY <1>1, <2>1, PruneStep, KeyType DEF ActiveIn, Waiting
  <2> HIDE DEF L, C
  <2> QED
    BY <1>2, <1>4, <2>1, <2>2, <2>4, <2>5, CommitStep DEF TurnStarted
<1>5. ASSUME NEW k \in Keys, NEW t \in ReadTimes, TurnStopped(k, t)
      PROVE  IInv'
  <2> DEFINE S == [LivingSessions EXCEPT ![k].state = "idle"]
             L == LivingLeases(t) \ MessageLeases(k)
             C == Overdue(t) \cup Waiting(k)
  <2>1. S \in SessionMaps /\ S[k].state = "idle" /\ \A j \in Keys \ {k} : S[j] = LivingSessions[j]
    BY <1>1, PruneStep DEF SessionMaps
  <2>2. \A l \in L : CurrentIn(S, l)
    BY <1>1, <2>1, PruneStep, KeyType DEF CurrentIn, MessageLeases, Absent
  <2>3. \A r \in Reqs \ C : ctx[r] = "live" => ActiveIn(S, request[r])
    BY <1>1, <2>1, PruneStep, KeyType DEF ActiveIn, Waiting
  <2>4. L \subseteq Leases
    BY <1>1, PruneStep
  <2>5. Commit(S, L, C)
    BY <1>5 DEF TurnStopped
  <2> HIDE DEF S, L, C
  <2> QED
    BY <1>2, <1>5, <2>1, <2>2, <2>3, <2>4, <2>5, CommitStep DEF TurnStopped
<1>6. ASSUME NEW k \in Keys, NEW t \in ReadTimes, SessionEnded(k, t)
      PROVE  IInv'
  <2> DEFINE S == [LivingSessions EXCEPT ![k] = Absent]
             L == LivingLeases(t) \ SessionLeases(k)
             C == Overdue(t) \cup Waiting(k)
  <2>1. S \in SessionMaps /\ \A j \in Keys \ {k} : S[j] = LivingSessions[j]
    BY <1>1, PruneStep DEF SessionMaps, Absent
  <2>2. \A l \in L : CurrentIn(S, l)
    BY <1>1, <2>1, PruneStep, KeyType DEF CurrentIn, SessionLeases
  <2>3. \A r \in Reqs \ C : ctx[r] = "live" => ActiveIn(S, request[r])
    BY <1>1, <2>1, PruneStep, KeyType DEF ActiveIn, Waiting
  <2>4. L \subseteq Leases
    BY <1>1, PruneStep
  <2>5. Commit(S, L, C)
    BY <1>6 DEF SessionEnded
  <2> HIDE DEF S, L, C
  <2> QED
    BY <1>2, <1>6, <2>1, <2>2, <2>3, <2>4, <2>5, CommitStep DEF SessionEnded
<1>7. ASSUME NEW t \in ReadTimes, PruneOnly(t)
      PROVE  IInv'
  <2>1. Commit(LivingSessions, LivingLeases(t), Overdue(t))
    BY <1>7 DEF PruneOnly
  <2>2. LivingLeases(t) \subseteq Leases
    BY <1>1, PruneStep
  <2> QED
    BY <1>1, <1>2, <1>7, <2>1, <2>2, PruneStep, CommitStep DEF PruneOnly
<1> QED
  BY <1>3, <1>4, <1>5, <1>6, <1>7 DEF Lifecycle, AmbiguousTurnStart, TurnEnded

LEMMA RequestIInv == IInv /\ Request => IInv'
<1> SUFFICES ASSUME IInv, NEW r \in Reqs,
                    \/ \E p \in Procs, t \in ReadTimes :
                          \/ RequestWithoutTurn(r, p, t)
                          \/ RequestOnLease(r, p, t)
                          \/ RequestCreated(r, p, t)
                    \/ Thread(r)
             PROVE  IInv'
  BY DEF Request
<1> USE DEF clients, handlers, history
<1>1. \A t \in ReadTimes : t \in Nat
  BY DEF ReadTimes
<1>2. TypeOK /\ Placed /\ RequestsAccounted /\ LiveRequestsCurrent /\ LeasesCurrent
  BY DEF IInv
<1>3. ASSUME NEW k \in Keys, NEW t \in ReadTimes
      PROVE  Context(r, k, t) \in Requests /\ Context(r, k, t).id = r
             /\ Key(Context(r, k, t)) = k /\ Context(r, k, t).turn = LivingSessions[k].turn
  <2>1. LivingSessions[k].turn \in Nat /\ t + ReqTTL \in Nat /\ epoch[k] \in Nat
    BY <1>1, <1>2, PruneStep, TTLAssumption DEF SessionMaps, TypeOK
  <2> QED
    BY <2>1 DEF Context, Requests, Key, Keys
<1>4. ASSUME NEW t \in ReadTimes
      PROVE  LivingSessions \in SessionMaps /\ LivingLeases(t) \subseteq Leases
  BY <1>1, PruneStep
<1>5. \A p, t : RequestWithoutTurn(r, p, t) /\ t \in ReadTimes => IInv'
  <2> SUFFICES ASSUME NEW p, NEW t \in ReadTimes, RequestWithoutTurn(r, p, t)
               PROVE  IInv'
    OBVIOUS
  <2>1. Commit(LivingSessions, LivingLeases(t), Overdue(t))
    BY DEF RequestWithoutTurn
  <2>2. pc' \in [Reqs -> PCs] /\ \A q \in Reqs : pc'[q] = IF q = r THEN "refused" ELSE pc[q]
    BY <1>2 DEF RequestWithoutTurn, TypeOK, PCs
  <2>3. Placed' /\ RequestsAccounted'
    BY <1>2, <2>2 DEF RequestWithoutTurn, Placed, RequestsAccounted
  <2> QED
    BY <1>1, <1>2, <1>4, <2>1, <2>2, <2>3, PruneStep, CommitAndMove DEF RequestWithoutTurn, TypeOK
<1>6. \A p, t : RequestOnLease(r, p, t) /\ t \in ReadTimes => IInv'
  <2> SUFFICES ASSUME NEW p, NEW t \in ReadTimes, RequestOnLease(r, p, t)
               PROVE  IInv'
    OBVIOUS
  <2>1. PICK k \in Keys : /\ \E l \in Matching(k, t) :
                               decision' = [decision EXCEPT ![r] =
                                 [outcome |-> "approved", scope |-> l.scope,
                                  approver |-> l.approver]]
                          /\ request' = [request EXCEPT ![r] = Context(r, k, t)]
    BY DEF RequestOnLease
  <2>2. decision' \in [Reqs -> Decisions]
    <3>1. PICK l \in Matching(k, t) :
            decision' = [decision EXCEPT ![r] = [outcome |-> "approved", scope |-> l.scope,
                                                 approver |-> l.approver]]
      BY <2>1
    <3>2. l.scope \in Scopes /\ l.approver \in Approvers
      BY <1>4 DEF Matching, Leases, Scopes
    <3> QED
      BY <1>2, <3>1, <3>2 DEF TypeOK, Decisions
  <2>3. Commit(LivingSessions, LivingLeases(t), Overdue(t))
    BY DEF RequestOnLease
  <2>4. pc' \in [Reqs -> PCs] /\ \A q \in Reqs : pc'[q] = IF q = r THEN "authorized" ELSE pc[q]
    BY <1>2 DEF RequestOnLease, TypeOK, PCs
  <2>5. /\ request' \in [Reqs -> Requests \cup {NoRequest}]
        /\ \A q \in Reqs : request'[q] = IF q = r THEN Context(r, k, t) ELSE request[q]
    BY <1>2, <1>3, <2>1 DEF TypeOK
  <2>6. pc[r] = "idle" /\ r \notin inflight
    BY <1>2 DEF RequestOnLease, RequestsAccounted
  <2>7. Placed' /\ RequestsAccounted'
    BY <1>2, <1>3, <2>4, <2>5, <2>6 DEF RequestOnLease, Placed, RequestsAccounted
  <2>8. \A q \in inflight : request'[q] = request[q]
    BY <1>2, <2>5, <2>6 DEF TypeOK
  <2> QED
    BY <1>1, <1>2, <1>4, <2>2, <2>3, <2>4, <2>5, <2>7, <2>8, PruneStep, CommitAndMove
       DEF RequestOnLease, TypeOK
<1>7. \A p, t : RequestCreated(r, p, t) /\ t \in ReadTimes => IInv'
  <2> SUFFICES ASSUME NEW p, NEW t \in ReadTimes, RequestCreated(r, p, t)
               PROVE  IInv'
    OBVIOUS
  <2>1. PICK k \in Keys : ActiveKeys(p) = {k} /\ request' = [request EXCEPT ![r] = Context(r, k, t)]
    BY DEF RequestCreated
  <2>2. LivingSessions[k].state = "active"
    BY <2>1 DEF ActiveKeys
  <2>3. /\ request' \in [Reqs -> Requests \cup {NoRequest}]
        /\ \A q \in Reqs : request'[q] = IF q = r THEN Context(r, k, t) ELSE request[q]
    BY <1>2, <1>3, <2>1 DEF TypeOK
  <2>4. /\ pc[r] = "idle" /\ inflight' = inflight \cup {r} /\ pending' = pending
        /\ pc' \in [Reqs -> PCs]
        /\ \A q \in Reqs : pc'[q] = IF q = r THEN "entered" ELSE pc[q]
    BY <1>2 DEF RequestCreated, TypeOK, PCs
  <2>5. ctx' \in [Reqs -> {"none", "live", "canceled", "deadline"}]
    BY <1>2 DEF RequestCreated, TypeOK
  <2>6. TypeOK'
    BY <1>2, <1>4, <2>3, <2>4, <2>5 DEF RequestCreated, TypeOK, SessionMaps
  <2>7. Placed' /\ RequestsAccounted'
    BY <1>2, <1>3, <2>3, <2>4 DEF Placed, RequestsAccounted
  <2>8. LiveRequestsCurrent'
    <3> SUFFICES ASSUME NEW q \in Reqs, ctx'[q] = "live"
                 PROVE  q \in inflight' /\ ActiveIn(LivingSessions, request'[q])
      BY DEF LiveRequestsCurrent, ContextActive, ActiveIn, RequestCreated, Key
    <3>1. CASE q = r
      BY <1>3, <2>2, <2>3, <2>4, <3>1 DEF ActiveIn
    <3>2. CASE q # r
      <4>1. ctx[q] = "live" /\ q \notin Overdue(t)
        BY <3>2 DEF RequestCreated
      <4> QED
        BY <1>1, <2>3, <2>4, <3>2, <4>1, PruneStep
    <3> QED
      BY <3>1, <3>2
  <2>9. LeasesCurrent'
    BY <1>1, PruneStep DEF LeasesCurrent, CurrentIn, RequestCreated, Absent, Key
  <2> QED
    BY <2>6, <2>7, <2>8, <2>9 DEF IInv
<1>8. ASSUME ProviderRegister(r)
      PROVE  IInv'
  <2>1. /\ pc' \in [Reqs -> PCs] /\ pending' \subseteq Reqs
        /\ pc[r] = "entered" /\ pending' = pending \cup {r}
        /\ \A q \in Reqs : pc'[q] = IF q = r THEN "waiting" ELSE pc[q]
    BY <1>2, <1>8 DEF ProviderRegister, P!Register, TypeOK, PCs
  <2> QED
    BY <1>2, <1>8, <2>1 DEF ProviderRegister, P!Register, Outside, IInv, TypeOK, Placed,
       RequestsAccounted, LiveRequestsCurrent, LeasesCurrent, ContextActive, Key
<1>9. ASSUME ProviderFinishOnContext(r)
      PROVE  IInv'
  <2>1. decision' \in [Reqs -> Decisions]
    BY <1>2, <1>9 DEF ProviderFinishOnContext, P!FinishOnContext, P!Ended, P!Undecided,
       TypeOK, Decisions
  <2> QED
    BY <1>2, <1>9, <2>1 DEF ProviderFinishOnContext, P!FinishOnContext, Outside, IInv, TypeOK,
       Placed, RequestsAccounted, LiveRequestsCurrent, LeasesCurrent, ContextActive, Key
<1>10. ASSUME ProviderCollect(r)
       PROVE  IInv'
  <2>1. /\ pc' \in [Reqs -> PCs] /\ pending' \subseteq Reqs
        /\ pc[r] = "waiting" /\ pending' = pending \ {r}
        /\ \A q \in Reqs : pc'[q] = IF q = r THEN "returned" ELSE pc[q]
    BY <1>2, <1>10 DEF ProviderCollect, P!Collect, TypeOK, PCs
  <2>2. TypeOK'
    BY <1>2, <1>10, <2>1 DEF ProviderCollect, P!Collect, Outside, TypeOK
  <2>3. Placed' /\ RequestsAccounted'
    BY <1>2, <1>10, <2>1 DEF ProviderCollect, P!Collect, Outside, TypeOK, Placed, RequestsAccounted
  <2>4. LiveRequestsCurrent' /\ LeasesCurrent'
    BY <1>2, <1>10, <2>1
       DEF ProviderCollect, P!Collect, Outside, TypeOK, LiveRequestsCurrent, LeasesCurrent, ContextActive, Key
  <2> QED
    BY <2>2, <2>3, <2>4 DEF IInv
<1>11. ASSUME ProviderAnswersRequest(r)
       PROVE  IInv'
  <2>1. /\ pc' \in [Reqs -> PCs] /\ pc[r] = "entered"
        /\ \A q \in Reqs : pc'[q] = IF q = r THEN "returned" ELSE pc[q]
    BY <1>2, <1>11 DEF ProviderAnswersRequest, TypeOK, PCs
  <2>2. decision' \in [Reqs -> Decisions]
    <3>1. ProviderAnswers \subseteq Decisions
      BY ProviderAssumption DEF Decisions, Scopes
    <3> QED
      BY <1>2, <1>11, <3>1 DEF ProviderAnswersRequest, TypeOK
  <2>3. \A d \in ProviderAnswers : d.outcome = "approved" /\ Valid(d) => Approval(request[r], d) \in Approvals
    <3>1. request[r] \in Requests
      BY <1>2, <2>1 DEF Placed
    <3> QED
      BY <3>1, ProviderAssumption DEF Valid, Approval, Approvals, Requests
  <2>4. approvals' \subseteq Approvals
    BY <1>2, <1>11, <2>3 DEF ProviderAnswersRequest, TypeOK
  <2>5. TypeOK'
    BY <1>2, <1>11, <2>1, <2>2, <2>4 DEF ProviderAnswersRequest, TypeOK
  <2>6. Placed' /\ RequestsAccounted'
    BY <1>2, <1>11, <2>1 DEF ProviderAnswersRequest, TypeOK, Placed, RequestsAccounted
  <2>7. LiveRequestsCurrent' /\ LeasesCurrent'
    BY <1>2, <1>11, <2>1
       DEF ProviderAnswersRequest, TypeOK, LiveRequestsCurrent, LeasesCurrent, ContextActive, Key
  <2> QED
    BY <2>5, <2>6, <2>7 DEF IInv
<1>12. ASSUME ResumeApproved(r)
       PROVE  IInv'
  <2>1. /\ pc' \in [Reqs -> PCs] /\ pc[r] = "returned"
        /\ \A q \in Reqs : pc'[q] = IF q = r THEN "authorized" ELSE pc[q]
    BY <1>2, <1>12 DEF ResumeApproved, TypeOK, PCs
  <2>2. /\ ctx' \in [Reqs -> {"none", "live", "canceled", "deadline"}]
        /\ \A q \in Reqs : ctx'[q] = "live" => ctx[q] = "live" /\ q # r
    BY <1>2, <1>12 DEF ResumeApproved, TypeOK
  <2>3. request[r] \in Requests /\ ContextActive(request[r]) /\ Valid(decision[r])
        /\ decision[r].outcome = "approved" /\ decision[r].approver \in Approvers
        /\ clock \in Nat
    BY <1>2, <1>12, <2>1 DEF Placed, ResumeApproved, Granted, Valid, TypeOK, Decisions
  <2>4. leases' \subseteq Leases /\ \A l \in leases' : CurrentIn(sessions, l)
    <3>1. sessions \in SessionMaps /\ leases \subseteq Leases
      BY <1>2 DEF TypeOK, SessionMaps
    <3>2. \A l \in leases : CurrentIn(sessions, l)
      BY <1>2 DEF LeasesCurrent, CurrentIn
    <3>3. ActiveIn(sessions, request[r])
      BY <2>3 DEF ContextActive, ActiveIn
    <3> QED
      BY <1>12, <2>3, <3>1, <3>2, <3>3, EnsuredStep DEF ResumeApproved
  <2>5. TypeOK'
    BY <1>2, <1>12, <2>1, <2>2, <2>4 DEF ResumeApproved, TypeOK
  <2>6. Placed' /\ RequestsAccounted'
    BY <1>2, <1>12, <2>1, <2>2 DEF ResumeApproved, TypeOK, Placed, RequestsAccounted
  <2>7. LiveRequestsCurrent' /\ LeasesCurrent'
    BY <1>2, <1>12, <2>1, <2>2, <2>4
       DEF ResumeApproved, TypeOK, LiveRequestsCurrent, LeasesCurrent, CurrentIn, ContextActive, Key
  <2> QED
    BY <2>5, <2>6, <2>7 DEF IInv
<1>13. ASSUME ResumeRefused(r)
       PROVE  IInv'
  <2>1. /\ pc' \in [Reqs -> PCs] /\ pc[r] = "returned"
        /\ \A q \in Reqs : pc'[q] = IF q = r THEN "refused" ELSE pc[q]
    BY <1>2, <1>13 DEF ResumeRefused, TypeOK, PCs
  <2>2. /\ ctx' \in [Reqs -> {"none", "live", "canceled", "deadline"}]
        /\ \A q \in Reqs : ctx'[q] = "live" => ctx[q] = "live" /\ q # r
    BY <1>2, <1>13 DEF ResumeRefused, TypeOK
  <2>3. TypeOK'
    BY <1>2, <1>13, <2>1, <2>2 DEF ResumeRefused, TypeOK
  <2>4. Placed' /\ RequestsAccounted'
    BY <1>2, <1>13, <2>1, <2>2 DEF ResumeRefused, TypeOK, Placed, RequestsAccounted
  <2>5. LiveRequestsCurrent' /\ LeasesCurrent'
    BY <1>2, <1>13, <2>1, <2>2
       DEF ResumeRefused, TypeOK, LiveRequestsCurrent, LeasesCurrent, ContextActive, Key
  <2> QED
    BY <2>3, <2>4, <2>5 DEF IInv
<1>14. ASSUME StartExecution(r)
       PROVE  IInv'
  <2>1. /\ pc' \in [Reqs -> PCs] /\ pc[r] = "authorized"
        /\ \A q \in Reqs \ {r} : pc'[q] = pc[q]
        /\ pc'[r] \in {"executing", "refused"}
    BY <1>2, <1>14 DEF StartExecution, TypeOK, PCs
  <2>2. TypeOK'
    BY <1>2, <1>14, <2>1 DEF StartExecution, TypeOK
  <2>3. Placed' /\ RequestsAccounted'
    BY <1>2, <1>14, <2>1 DEF StartExecution, TypeOK, Placed, RequestsAccounted
  <2>4. LiveRequestsCurrent' /\ LeasesCurrent'
    BY <1>2, <1>14, <2>1
       DEF StartExecution, TypeOK, LiveRequestsCurrent, LeasesCurrent, ContextActive, Key
  <2> QED
    BY <2>2, <2>3, <2>4 DEF IInv
<1>15. ASSUME FinishExecution(r)
       PROVE  IInv'
  <2>1. /\ pc' \in [Reqs -> PCs] /\ pc[r] = "executing"
        /\ \A q \in Reqs : pc'[q] = IF q = r THEN "done" ELSE pc[q]
    BY <1>2, <1>15 DEF FinishExecution, TypeOK, PCs
  <2>2. TypeOK'
    BY <1>2, <1>15, <2>1 DEF FinishExecution, TypeOK
  <2>3. Placed' /\ RequestsAccounted'
    BY <1>2, <1>15, <2>1 DEF FinishExecution, TypeOK, Placed, RequestsAccounted
  <2>4. LiveRequestsCurrent' /\ LeasesCurrent'
    BY <1>2, <1>15, <2>1
       DEF FinishExecution, TypeOK, LiveRequestsCurrent, LeasesCurrent, ContextActive, Key
  <2> QED
    BY <2>2, <2>3, <2>4 DEF IInv
<1> QED
  BY <1>5, <1>6, <1>7, <1>8, <1>9, <1>10, <1>11, <1>12, <1>13, <1>14, <1>15 DEF Thread

LEMMA ReviewIInv == IInv /\ Review => IInv'
<1> SUFFICES ASSUME IInv, Review PROVE IInv'
  OBVIOUS
<1> USE DEF clients, history
<1>1. \A t \in ReadTimes : t \in Nat
  BY DEF ReadTimes
<1>2. TypeOK /\ Placed /\ RequestsAccounted /\ LiveRequestsCurrent /\ LeasesCurrent
  BY DEF IInv
<1>3. ASSUME NEW t \in Nat
      PROVE  LivingSessions \in SessionMaps /\ LivingLeases(t) \subseteq Leases
  BY PruneStep
\* What the provider does to the decisions keeps their type.
<1>4. P!Pruned(ctx') \in [Reqs -> Decisions]
  BY <1>2 DEF P!Pruned, P!Ended, P!Undecided, P!Open, TypeOK, Decisions
<1>5. ASSUME NEW r \in Reqs, NEW outcome \in {"approved", "denied"}, NEW scope \in Scopes,
             NEW a \in Approvers
      PROVE  P!Reviewed(r, P!ReviewDecision(outcome, scope, a), ctx') \in [Reqs -> Decisions]
  <2>1. P!ReviewDecision(outcome, scope, a) \in Decisions
    BY DEF P!ReviewDecision, Decisions, Scopes
  <2> QED
    BY <1>4, <2>1 DEF P!Reviewed, P!Finish
<1>6. CASE ListPending
  <2>1. clock \in Nat
    BY <1>2 DEF TypeOK
  <2> QED
    BY <1>2, <1>3, <1>4, <1>6, <2>1, PruneStep, CommitStep DEF ListPending, TypeOK
<1>7. ASSUME NEW r \in Reqs, NEW scope \in Scopes, NEW a \in Approvers, NEW t \in ReadTimes,
             Deny(r, scope, a, t)
      PROVE  IInv'
  BY <1>1, <1>2, <1>3, <1>5, <1>7, PruneStep, CommitStep DEF Deny, TypeOK
<1>8. ASSUME NEW r \in Reqs, NEW t \in ReadTimes, DecideNotFound(r, t)
      PROVE  IInv'
  BY <1>1, <1>2, <1>3, <1>4, <1>8, PruneStep, CommitStep DEF DecideNotFound, TypeOK
<1>9. ASSUME NEW r \in Reqs, NEW scope \in Scopes, NEW a \in Approvers, NEW t \in ReadTimes,
             Approve(r, scope, a, t)
      PROVE  IInv'
  <2> DEFINE d == P!ReviewDecision("approved", scope, a)
             L == Ensured(LivingLeases(t), request[r], d, t)
  <2>1. Commit(LivingSessions, L, Overdue(t))
    BY <1>9 DEF Approve, Commit
  \* The item is open after pruning, so its context is live, so it is current.
  <2>2. ctx'[r] = "live"
    BY <1>2, <1>9 DEF Approve, P!Reviewable, P!Pruned, P!Ended, P!Undecided, P!Open
  <2>3. ctx[r] = "live" /\ r \notin Overdue(t)
    BY <2>1, <2>2 DEF Commit
  <2>4. request[r] \in Requests /\ ActiveIn(LivingSessions, request[r])
    BY <1>1, <2>3, PruneStep
  <2>5. Valid(d) /\ d.outcome = "approved" /\ d \in Decisions /\ d.scope = scope /\ d.approver = a
    BY ProviderAssumption DEF P!ReviewDecision, Valid, Decisions, Scopes
  <2>6. L \subseteq Leases /\ \A l \in L : CurrentIn(LivingSessions, l)
    BY <1>1, <1>3, <2>4, <2>5, PruneStep, EnsuredStep
  <2>7. approvals' \subseteq Approvals
    BY <1>2, <1>9, <2>4, <2>5 DEF Approve, TypeOK, Approval, Approvals, Requests
  <2> HIDE DEF L, d
  <2>8. decision' \in [Reqs -> Decisions]
    BY <1>5, <1>9 DEF Approve
  <2> QED
    BY <1>1, <1>2, <1>3, <1>9, <2>1, <2>6, <2>7, <2>8, PruneStep, CommitStep DEF Approve, TypeOK
<1> QED
  BY <1>6, <1>7, <1>8, <1>9 DEF Review

LEMMA RevokeIInv == IInv /\ (\E l \in leases : Revoke(l)) => IInv'
  BY DEF Revoke, clients, queue, history, IInv, TypeOK, Placed, RequestsAccounted,
         LiveRequestsCurrent, LeasesCurrent, ContextActive, Key

-----------------------------------------------------------------------------
\* Every step preserves IInv.
LEMMA NextIInv == IInv /\ [Next]_vars => IInv'
<1> SUFFICES ASSUME IInv, [Next]_vars PROVE IInv'
  OBVIOUS
<1>1. CASE UNCHANGED vars
  BY <1>1 DEF vars, IInv, TypeOK, Placed, RequestsAccounted, LiveRequestsCurrent,
              LeasesCurrent, ContextActive, Key
<1> QED
  BY <1>1, EnvironmentIInv, LifecycleIInv, RequestIInv, ReviewIInv, RevokeIInv DEF Next

\* IInv holds in every reachable state.
THEOREM Invariance == Spec => []IInv
  BY InitIInv, NextIInv, PTL DEF Spec

\* The broker's variables keep their types.
THEOREM TypeCorrect == Spec => []TypeOK
  BY Invariance, PTL DEF IInv

\* No entry of the two maps of waiting requests leaks or is lost.
THEOREM RequestsAlwaysAccounted == Spec => []RequestsAccounted
  BY Invariance, PTL DEF IInv

\* A request whose context is live is in flight and belongs to the active turn.
THEOREM LiveRequestsAlwaysCurrent == Spec => []LiveRequestsCurrent
  BY Invariance, PTL DEF IInv

\* No message lease outlives its turn and no session lease its session.
THEOREM LeasesAlwaysCurrent == Spec => []LeasesCurrent
  BY Invariance, PTL DEF IInv

-----------------------------------------------------------------------------
(***************************************************************************)
(* Authorised.  What a goroutine runs under is an approval's scope and     *)
(* approver, which it has from its own decision or from a lease; so the    *)
(* invariant says of those two that an approval stands behind them.        *)
(***************************************************************************)

Gave(a, q, d) == Covers(a, q) /\ a.scope = d.scope /\ a.approver = d.approver

Stands(a, l) ==
    /\ a.process = l.process
    /\ a.session = l.session
    /\ a.scope = l.scope
    /\ a.approver = l.approver
    /\ a.scope = "message" => a.turn = l.turn

LeasesBacked == \A l \in leases : \E a \in approvals : Stands(a, l)

DecisionsBacked ==
    \A r \in Reqs :
        pc[r] \in {"entered", "waiting", "returned"} /\ decision[r].outcome = "approved"
        /\ Valid(decision[r]) => \E a \in approvals : Gave(a, request[r], decision[r])

\* Nothing is decided before the provider is asked.
FreshUndecided == \A r \in Reqs : pc[r] \in {"idle", "entered"} => decision[r].outcome = ""

AuthorisedInv == Authorised /\ LeasesBacked /\ DecisionsBacked /\ FreshUndecided

\* Steps that decide nothing and add no lease.
LEMMA QuietStep ==
    ASSUME AuthorisedInv, leases' \subseteq leases, approvals \subseteq approvals',
           UNCHANGED <<pc, request, decision>>
    PROVE  AuthorisedInv'
<1>1. Authorised'
  BY DEF AuthorisedInv, Authorised, Covers
<1>2. LeasesBacked'
  BY DEF AuthorisedInv, LeasesBacked, Stands
<1>3. DecisionsBacked'
  BY DEF AuthorisedInv, DecisionsBacked, Gave, Covers, Valid, Scopes
<1>4. FreshUndecided'
  BY DEF AuthorisedInv, FreshUndecided
<1> QED
  BY <1>1, <1>2, <1>3, <1>4 DEF AuthorisedInv

\* A lease that ensureLeaseLocked adds stands for the decision's approval.
LEMMA EnsuredBacked ==
    ASSUME LeasesBacked, NEW L, L \subseteq leases, NEW q, NEW d, NEW t, NEW app, NEW a \in app,
           approvals \subseteq app, Valid(d), d.outcome = "approved", Gave(a, q, d)
    PROVE  \A l \in Ensured(L, q, d, t) : \E b \in app : Stands(b, l)
<1> SUFFICES ASSUME NEW l \in Ensured(L, q, d, t)
             PROVE  \E b \in app : Stands(b, l)
  OBVIOUS
<1>1. CASE l \in L
  BY <1>1 DEF LeasesBacked
<1>2. CASE l \notin L
  <2>1. l = NewLease(q, d, t) /\ d.scope # "command"
    BY <1>2 DEF Ensured
  <2>2. Stands(a, l)
    BY <2>1 DEF NewLease, Stands, Gave, Covers
  <2> QED
    BY <2>2
<1> QED
  BY <1>1, <1>2

LEMMA AuthorisedEnvironment == IInv /\ AuthorisedInv /\ Environment => AuthorisedInv'
<1> SUFFICES ASSUME IInv, AuthorisedInv, Environment PROVE AuthorisedInv'
  OBVIOUS
<1> USE DEF handlers, queue, history
<1>1. CASE Tick
  BY <1>1, QuietStep DEF Tick
<1>2. CASE \E p \in Procs : ProcessExits(p) \/ ProcessReturns(p)
  BY <1>2, QuietStep DEF ProcessExits, ProcessReturns
<1>3. CASE \E r \in Reqs : Disconnect(r)
  BY <1>3, QuietStep DEF Disconnect, Commit
<1>4. CASE \E r \in Reqs : DeadlineFires(r)
  BY <1>4, QuietStep DEF DeadlineFires
<1>5. CASE Restart
  <2>1. \A r \in Reqs : pc'[r] = IF pc[r] \in {"idle", "done", "refused"} THEN pc[r] ELSE "lost"
    BY <1>5 DEF Restart
  <2>2. leases' = {} /\ UNCHANGED <<request, decision, approvals>>
    BY <1>5 DEF Restart
  <2> QED
    BY <2>1, <2>2 DEF AuthorisedInv, Authorised, LeasesBacked, DecisionsBacked, FreshUndecided
<1> QED
  BY <1>1, <1>2, <1>3, <1>4, <1>5 DEF Environment

LEMMA AuthorisedLifecycle == IInv /\ AuthorisedInv /\ Lifecycle => AuthorisedInv'
<1> SUFFICES ASSUME IInv, AuthorisedInv, Lifecycle PROVE AuthorisedInv'
  OBVIOUS
<1>1. approvals' = approvals /\ UNCHANGED <<pc, request, decision>>
  BY DEF Lifecycle, SessionStarted, TurnStarted, AmbiguousTurnStart, TurnEnded, TurnStopped,
         SessionEnded, PruneOnly, queue, history
<1>2. \A t : LivingLeases(t) \subseteq leases
  BY DEF LivingLeases
<1>3. leases' \subseteq leases
  <2>1. ASSUME NEW k \in Keys, NEW t, SessionStarted(k, t) \/ TurnStarted(k, t)
        PROVE  leases' \subseteq leases
    BY <1>2, <2>1 DEF SessionStarted, TurnStarted, Commit
  <2>2. ASSUME NEW k \in Keys, NEW t,
               AmbiguousTurnStart(k, t) \/ TurnEnded(k, t) \/ SessionEnded(k, t)
        PROVE  leases' \subseteq leases
    BY <1>2, <2>2 DEF AmbiguousTurnStart, TurnEnded, TurnStopped, SessionEnded, Commit
  <2>3. ASSUME NEW t, PruneOnly(t)
        PROVE  leases' \subseteq leases
    BY <1>2, <2>3 DEF PruneOnly, Commit
  <2> QED
    BY <2>1, <2>2, <2>3 DEF Lifecycle
<1> QED
  BY <1>1, <1>3, QuietStep

\* Pruning the queue never approves.
LEMMA PrunedStep ==
    ASSUME NEW ctxs
    PROVE  \A r \in Reqs : \/ P!Pruned(ctxs)[r] = decision[r]
                           \/ r \in pending /\ P!Pruned(ctxs)[r].outcome \in {"expired", "cancelled"}
  BY DEF P!Pruned, P!Ended, P!Undecided

\* Steps of the admin plane that approve nothing: what they decide, they decide
\* about queued requests.
LEMMA RefusingStep ==
    ASSUME IInv, AuthorisedInv, leases' \subseteq leases, UNCHANGED <<approvals, pc, request>>,
           \A r \in Reqs : \/ decision'[r] = decision[r]
                           \/ r \in pending /\ decision'[r].outcome # "approved"
    PROVE  AuthorisedInv'
<1>1. \A r \in pending : pc[r] = "waiting"
  BY DEF IInv, RequestsAccounted
<1>2. Authorised'
  BY <1>1 DEF AuthorisedInv, Authorised, Covers
<1>3. LeasesBacked'
  BY DEF AuthorisedInv, LeasesBacked, Stands
<1>4. DecisionsBacked'
  BY DEF AuthorisedInv, DecisionsBacked, Gave, Covers, Valid, Scopes
<1>5. FreshUndecided'
  BY <1>1 DEF AuthorisedInv, FreshUndecided
<1> QED
  BY <1>2, <1>3, <1>4, <1>5 DEF AuthorisedInv

LEMMA AuthorisedReview == IInv /\ AuthorisedInv /\ Review => AuthorisedInv'
<1> SUFFICES ASSUME IInv, AuthorisedInv, Review PROVE AuthorisedInv'
  OBVIOUS
<1> USE DEF history
<1>1. \A t : LivingLeases(t) \subseteq leases
  BY DEF LivingLeases
<1>2. CASE ListPending
  BY <1>1, <1>2, PrunedStep, RefusingStep DEF ListPending, Commit
<1>3. CASE \E r \in Reqs, t \in ReadTimes : DecideNotFound(r, t)
  BY <1>1, <1>3, PrunedStep, RefusingStep DEF DecideNotFound, Commit
<1>4. ASSUME NEW r \in Reqs, NEW scope \in Scopes, NEW a \in Approvers, NEW t \in ReadTimes,
             Deny(r, scope, a, t)
      PROVE  AuthorisedInv'
  <2> DEFINE d == P!ReviewDecision("denied", scope, a)
  <2>1. d.outcome = "denied" /\ r \in pending
    BY <1>4 DEF P!ReviewDecision, Deny, P!Reviewable
  <2>2. \A q \in Reqs : decision'[q] = P!Pruned(ctx')[q] \/ (q = r /\ decision'[q] = d)
    BY <1>4, <2>1 DEF Deny, P!Reviewed, P!Finish, P!Resolved
  <2>3. \A q \in Reqs : \/ decision'[q] = decision[q]
                        \/ q \in pending /\ decision'[q].outcome # "approved"
    BY <2>1, <2>2, PrunedStep
  <2> QED
    BY <1>1, <1>4, <2>3, RefusingStep DEF Deny, Commit
<1>5. ASSUME NEW r \in Reqs, NEW scope \in Scopes, NEW a \in Approvers, NEW t \in ReadTimes,
             Approve(r, scope, a, t)
      PROVE  AuthorisedInv'
  <2> DEFINE d == P!ReviewDecision("approved", scope, a)
             app == Approval(request[r], d)
  <2>1. d.outcome = "approved" /\ d.scope = scope /\ d.approver = a /\ Valid(d)
    BY ProviderAssumption DEF P!ReviewDecision, Valid
  <2>2. r \in pending /\ request[r] \in Requests
    BY <1>5 DEF Approve, P!Reviewable, IInv, Placed, RequestsAccounted
  <2>3. approvals' = approvals \cup {app} /\ UNCHANGED <<pc, request>>
    BY <1>5 DEF Approve
  \* The new approval reaches every request that it decides.
  <2>4. \A q \in P!Resolved(r, d) : q \in pending /\ Gave(app, request[q], d)
    BY <2>1, <2>2 DEF P!Resolved, P!SameSession, Gave, Covers, Approval, Requests
  <2>5. \A q \in Reqs : \/ decision'[q] = P!Pruned(ctx')[q]
                        \/ q \in P!Resolved(r, d) /\ decision'[q] = d
    BY <1>5 DEF Approve, P!Reviewed, P!Finish
  <2>6. \A q \in Reqs : \/ decision'[q] = decision[q]
                        \/ q \in pending /\ decision'[q].outcome # "approved"
                        \/ q \in pending /\ decision'[q] = d /\ Gave(app, request[q], d)
    BY <2>4, <2>5, PrunedStep
  <2>7. \A q \in pending : pc[q] = "waiting"
    BY DEF IInv, RequestsAccounted
  <2>8. leases' = Ensured(LivingLeases(t), request[r], d, t)
    BY <1>5 DEF Approve
  <2>9. r \in P!Resolved(r, d)
    BY <2>2 DEF P!Resolved, P!SameSession
  <2>10. Gave(app, request[r], d)
    BY <2>4, <2>9
  <2> HIDE DEF d, app
  <2>11. LeasesBacked'
    <3>1. \A l \in leases' : \E b \in approvals' : Stands(b, l)
      BY <1>1, <2>1, <2>3, <2>8, <2>10, EnsuredBacked DEF AuthorisedInv
    <3> QED
      BY <3>1 DEF LeasesBacked, Stands
  <2>12. Authorised'
    BY <2>3, <2>6, <2>7 DEF AuthorisedInv, Authorised, Covers
  <2>13. DecisionsBacked'
    <3> SUFFICES ASSUME NEW q \in Reqs, pc[q] \in {"entered", "waiting", "returned"},
                        decision'[q].outcome = "approved", Valid(decision'[q])
                 PROVE  \E b \in approvals' : Gave(b, request[q], decision'[q])
      BY <2>3 DEF DecisionsBacked, Gave, Covers, Valid, Scopes
    <3>1. CASE decision'[q] = decision[q]
      BY <2>3, <3>1 DEF AuthorisedInv, DecisionsBacked
    <3>2. CASE decision'[q] = d /\ Gave(app, request[q], d)
      BY <2>3, <3>2
    <3> QED
      BY <2>6, <3>1, <3>2
  <2>14. FreshUndecided'
    BY <2>3, <2>6, <2>7 DEF AuthorisedInv, FreshUndecided
  <2> QED
    BY <2>11, <2>12, <2>13, <2>14 DEF AuthorisedInv
<1> QED
  BY <1>2, <1>3, <1>4, <1>5 DEF Review

\* Steps of request r alone: it moves on, and what it holds afterwards an
\* approval gave.
LEMMA OwnStep ==
    ASSUME AuthorisedInv, TypeOK, NEW r \in Reqs,
           LeasesBacked', approvals \subseteq approvals',
           \A q \in Reqs \ {r} :
              pc'[q] = pc[q] /\ request'[q] = request[q] /\ decision'[q] = decision[q],
           pc'[r] \in {"idle", "entered"} => decision'[r].outcome = "",
           \/ pc'[r] \in {"authorized", "executing", "done"}
           \/ pc'[r] \in {"entered", "waiting", "returned"} /\ decision'[r].outcome = "approved"
              /\ Valid(decision'[r])
           => \E a \in approvals' : Gave(a, request'[r], decision'[r])
    PROVE  AuthorisedInv'
<1>1. Authorised'
  <2> SUFFICES ASSUME NEW q \in Reqs, pc'[q] \in {"authorized", "executing", "done"}
               PROVE  \E a \in approvals' : Gave(a, request'[q], decision'[q])
    BY DEF Authorised, Gave, Covers
  <2>1. CASE q # r
    <3>1. pc'[q] = pc[q] /\ request'[q] = request[q] /\ decision'[q] = decision[q]
      BY <2>1
    <3>2. Authorised
      BY DEF AuthorisedInv
    <3>3. PICK a \in approvals : Gave(a, request[q], decision[q])
      BY <3>1, <3>2 DEF Authorised, Gave
    <3> QED
      BY <3>1, <3>3
  <2> QED
    BY <2>1
<1>2. DecisionsBacked'
  <2> SUFFICES ASSUME NEW q \in Reqs, pc'[q] \in {"entered", "waiting", "returned"},
                      decision'[q].outcome = "approved", Valid(decision'[q])
               PROVE  \E a \in approvals' : Gave(a, request'[q], decision'[q])
    BY DEF DecisionsBacked, Gave, Covers, Valid, Scopes
  <2>1. CASE q # r
    BY <2>1 DEF AuthorisedInv, DecisionsBacked
  <2> QED
    BY <2>1
<1>3. FreshUndecided'
  BY DEF AuthorisedInv, FreshUndecided
<1> QED
  BY <1>1, <1>2, <1>3 DEF AuthorisedInv

LEMMA AuthorisedRequest == IInv /\ AuthorisedInv /\ Request => AuthorisedInv'
<1> SUFFICES ASSUME IInv, AuthorisedInv, NEW r \in Reqs,
                    \/ \E p \in Procs, t \in ReadTimes :
                          \/ RequestWithoutTurn(r, p, t)
                          \/ RequestOnLease(r, p, t)
                          \/ RequestCreated(r, p, t)
                    \/ Thread(r)
             PROVE  AuthorisedInv'
  BY DEF Request
<1> USE DEF handlers, history
<1>1. TypeOK /\ LeasesBacked /\ FreshUndecided
  BY DEF IInv, AuthorisedInv
\* A decision that an approval gave stays given while r keeps it.
<1>2. pc[r] \in {"entered", "waiting", "returned"} /\ decision[r].outcome = "approved"
      /\ Valid(decision[r]) => \E a \in approvals : Gave(a, request[r], decision[r])
  BY DEF AuthorisedInv, DecisionsBacked
<1>3. pc[r] \in {"authorized", "executing", "done"} =>
        \E a \in approvals : Gave(a, request[r], decision[r])
  BY DEF AuthorisedInv, Authorised, Gave
<1>4. leases' \subseteq leases /\ approvals' = approvals => LeasesBacked'
  BY <1>1 DEF LeasesBacked, Stands
<1>5. ASSUME NEW p, NEW t, RequestWithoutTurn(r, p, t)
      PROVE  AuthorisedInv'
  <2>1. \A q \in Reqs : pc'[q] = IF q = r THEN "refused" ELSE pc[q]
    BY <1>1, <1>5 DEF RequestWithoutTurn, TypeOK
  <2>2. leases' \subseteq leases /\ UNCHANGED <<request, decision, approvals>>
    BY <1>5 DEF RequestWithoutTurn, Commit, LivingLeases
  <2> QED
    BY <1>1, <1>4, <2>1, <2>2, OwnStep
<1>6. ASSUME NEW p, NEW t, RequestOnLease(r, p, t)
      PROVE  AuthorisedInv'
  <2>0. PICK k \in Keys :
             /\ \E l \in Matching(k, t) :
                   decision' = [decision EXCEPT ![r] = [outcome |-> "approved", scope |-> l.scope,
                                                        approver |-> l.approver]]
             /\ request' = [request EXCEPT ![r] = Context(r, k, t)]
    BY <1>6 DEF RequestOnLease
  <2>1. PICK l \in Matching(k, t) :
             decision' = [decision EXCEPT ![r] = [outcome |-> "approved", scope |-> l.scope,
                                                  approver |-> l.approver]]
    BY <2>0
  <2>2. /\ \A q \in Reqs : pc'[q] = IF q = r THEN "authorized" ELSE pc[q]
        /\ \A q \in Reqs \ {r} : request'[q] = request[q] /\ decision'[q] = decision[q]
        /\ request'[r] = Context(r, k, t)
        /\ decision'[r].scope = l.scope /\ decision'[r].approver = l.approver
    BY <1>1, <1>6, <2>0, <2>1 DEF RequestOnLease, TypeOK
  <2>3. leases' \subseteq leases /\ approvals' = approvals
    BY <1>6 DEF RequestOnLease, Commit, LivingLeases
  \* The approval behind the lease reaches the turn the request came in.
  <2>4. PICK a \in approvals : Stands(a, l)
    BY <1>1 DEF LeasesBacked, Matching, LivingLeases
  <2>5. l \in Leases
    BY <1>1 DEF Matching, LivingLeases, TypeOK
  <2>6. Gave(a, Context(r, k, t), decision'[r])
    BY <2>2, <2>4, <2>5 DEF Stands, Gave, Covers, Context, Matching, Key, Leases
  <2> QED
    BY <1>1, <1>4, <2>2, <2>3, <2>6, OwnStep
<1>7. ASSUME NEW p, NEW t, RequestCreated(r, p, t)
      PROVE  AuthorisedInv'
  <2>1. /\ \A q \in Reqs : pc'[q] = IF q = r THEN "entered" ELSE pc[q]
        /\ \A q \in Reqs \ {r} : request'[q] = request[q]
        /\ decision' = decision /\ pc[r] = "idle"
    BY <1>1, <1>7 DEF RequestCreated, TypeOK
  <2>2. leases' \subseteq leases /\ approvals' = approvals
    BY <1>7 DEF RequestCreated, LivingLeases
  <2>3. decision[r].outcome = ""
    BY <1>1, <2>1 DEF FreshUndecided
  <2> QED
    BY <1>1, <1>4, <2>1, <2>2, <2>3, OwnStep
<1>8. CASE ProviderRegister(r)
  <2>1. /\ \A q \in Reqs : pc'[q] = IF q = r THEN "waiting" ELSE pc[q]
        /\ pc[r] = "entered" /\ UNCHANGED <<request, decision, leases, approvals>>
    BY <1>1, <1>8 DEF ProviderRegister, P!Register, Outside, TypeOK
  <2> QED
    BY <1>1, <1>2, <1>4, <2>1, OwnStep
<1>9. CASE ProviderFinishOnContext(r)
  <2>1. /\ \A q \in Reqs \ {r} : decision'[q] = decision[q]
        /\ decision'[r].outcome \in {"expired", "cancelled"}
        /\ pc[r] = "waiting" /\ UNCHANGED <<pc, request, leases, approvals>>
    BY <1>1, <1>9 DEF ProviderFinishOnContext, P!FinishOnContext, P!Ended, P!Undecided, Outside,
       TypeOK
  <2> QED
    BY <1>1, <1>4, <2>1, OwnStep
<1>10. CASE ProviderCollect(r)
  <2>1. /\ \A q \in Reqs : pc'[q] = IF q = r THEN "returned" ELSE pc[q]
        /\ pc[r] = "waiting" /\ UNCHANGED <<request, decision, leases, approvals>>
    BY <1>1, <1>10 DEF ProviderCollect, P!Collect, Outside, TypeOK
  <2> QED
    BY <1>1, <1>2, <1>4, <2>1, OwnStep
<1>11. CASE ProviderAnswersRequest(r)
  <2>1. PICK d \in ProviderAnswers :
             /\ decision' = [decision EXCEPT ![r] = d]
             /\ approvals' = IF d.outcome = "approved" /\ Valid(d)
                             THEN approvals \cup {Approval(request[r], d)} ELSE approvals
    BY <1>11 DEF ProviderAnswersRequest
  <2>2. /\ \A q \in Reqs : pc'[q] = IF q = r THEN "returned" ELSE pc[q]
        /\ \A q \in Reqs \ {r} : decision'[q] = decision[q]
        /\ decision'[r] = d /\ UNCHANGED <<request, leases>>
    BY <1>1, <1>11, <2>1 DEF ProviderAnswersRequest, TypeOK
  <2>3. approvals \subseteq approvals'
    BY <2>1
  <2>4. LeasesBacked'
    BY <1>1, <2>2, <2>3 DEF LeasesBacked, Stands
  <2>5. Gave(Approval(request[r], d), request[r], d)
    BY DEF Gave, Covers, Approval
  <2>6. d.outcome = "approved" /\ Valid(d) => Approval(request[r], d) \in approvals'
    BY <2>1
  <2> QED
    BY <1>1, <2>2, <2>3, <2>4, <2>5, <2>6, OwnStep
<1>12. CASE ResumeApproved(r)
  <2>1. /\ \A q \in Reqs : pc'[q] = IF q = r THEN "authorized" ELSE pc[q]
        /\ pc[r] = "returned" /\ UNCHANGED <<request, decision, approvals>>
        /\ decision[r].outcome = "approved" /\ Valid(decision[r])
        /\ leases' = Ensured(leases, request[r], decision[r], clock)
    BY <1>1, <1>12 DEF ResumeApproved, Granted, TypeOK
  <2>2. PICK a \in approvals : Gave(a, request[r], decision[r])
    BY <1>2, <2>1
  <2>3. LeasesBacked'
    <3>1. \A l \in leases' : \E b \in approvals : Stands(b, l)
      BY <1>1, <2>1, <2>2, EnsuredBacked
    <3> QED
      BY <2>1, <3>1 DEF LeasesBacked, Stands
  <2> QED
    BY <1>1, <2>1, <2>2, <2>3, OwnStep
<1>13. CASE ResumeRefused(r)
  <2>1. /\ \A q \in Reqs : pc'[q] = IF q = r THEN "refused" ELSE pc[q]
        /\ UNCHANGED <<request, decision, leases, approvals>>
    BY <1>1, <1>13 DEF ResumeRefused, TypeOK
  <2> QED
    BY <1>1, <1>4, <2>1, OwnStep
<1>14. CASE StartExecution(r)
  <2>1. /\ \A q \in Reqs \ {r} : pc'[q] = pc[q]
        /\ pc'[r] \in {"executing", "refused"} /\ pc[r] = "authorized"
        /\ UNCHANGED <<request, decision, leases, approvals>>
    BY <1>1, <1>14 DEF StartExecution, TypeOK
  <2> QED
    BY <1>1, <1>3, <1>4, <2>1, OwnStep
<1>15. CASE FinishExecution(r)
  <2>1. /\ \A q \in Reqs : pc'[q] = IF q = r THEN "done" ELSE pc[q]
        /\ pc[r] = "executing" /\ UNCHANGED <<request, decision, leases, approvals>>
    BY <1>1, <1>15 DEF FinishExecution, TypeOK
  <2> QED
    BY <1>1, <1>3, <1>4, <2>1, OwnStep
<1> QED
  BY <1>5, <1>6, <1>7, <1>8, <1>9, <1>10, <1>11, <1>12, <1>13, <1>14, <1>15 DEF Thread

\* AuthorisedInv holds in every reachable state.
THEOREM AuthorisedInvariance == Spec => []AuthorisedInv
<1>1. Init => AuthorisedInv
  <2>1. Init => leases = {} /\ \A r \in Reqs : pc[r] = "idle" /\ decision[r] = P!Undecided
    BY DEF Init
  <2>2. P!Undecided.outcome = ""
    BY DEF P!Undecided
  <2> QED
    BY <2>1, <2>2 DEF AuthorisedInv, Authorised, LeasesBacked, DecisionsBacked, FreshUndecided
<1>2. IInv /\ AuthorisedInv /\ [Next]_vars => AuthorisedInv'
  <2> SUFFICES ASSUME IInv, AuthorisedInv, [Next]_vars PROVE AuthorisedInv'
    OBVIOUS
  <2>1. CASE UNCHANGED vars
    BY <2>1, QuietStep DEF vars
  <2>2. CASE \E l \in leases : Revoke(l)
    BY <2>2, QuietStep DEF Revoke, queue, history
  <2> QED
    BY <2>1, <2>2, AuthorisedEnvironment, AuthorisedLifecycle, AuthorisedRequest,
       AuthorisedReview DEF Next
<1> QED
  BY <1>1, <1>2, Invariance, PTL DEF Spec

\* Behind every command that runs stands an approval that covers its request and
\* that has the scope and the approver recorded for it.
THEOREM AlwaysAuthorised == Spec => []Authorised
  BY AuthorisedInvariance, PTL DEF AuthorisedInv

\* What is not a step of the request's own goroutine leaves it where it is or,
\* as a restart, loses it.
LEMMA OthersLeavePlaces ==
    ASSUME NEW r \in Reqs, Environment \/ Lifecycle \/ Review \/ \E l \in leases : Revoke(l)
    PROVE  pc'[r] = pc[r] \/ pc'[r] = "lost"
<1>1. CASE Restart
  BY <1>1 DEF Restart
<1>2. CASE Environment /\ ~Restart
  BY <1>2 DEF Environment, Tick, ProcessExits, ProcessReturns, Disconnect, DeadlineFires,
     handlers, queue
<1>3. CASE Lifecycle
  BY <1>3 DEF Lifecycle, SessionStarted, TurnStarted, AmbiguousTurnStart, TurnEnded, TurnStopped,
     SessionEnded, PruneOnly, handlers, queue
<1>4. CASE Review
  BY <1>4 DEF Review, ListPending, Approve, Deny, DecideNotFound, handlers, queue
<1>5. CASE \E l \in leases : Revoke(l)
  BY <1>5 DEF Revoke, handlers, queue
<1> QED
  BY <1>1, <1>2, <1>3, <1>4, <1>5

\* A goroutine obtains its authority in two ways only.
LEMMA AuthorityGained ==
    ASSUME TypeOK, Next, NEW r \in Reqs, pc[r] # "authorized", pc'[r] = "authorized"
    PROVE  ResumeApproved(r) \/ \E p \in Procs, t \in ReadTimes : RequestOnLease(r, p, t)
<1>1. ASSUME Environment \/ Lifecycle \/ Review \/ \E l \in leases : Revoke(l)
      PROVE  pc'[r] = pc[r] \/ pc'[r] = "lost"
  BY <1>1, OthersLeavePlaces
<1>2. ASSUME NEW q \in Reqs, Thread(q), ~ResumeApproved(q)
      PROVE  pc'[r] = pc[r] \/ pc'[r] # "authorized"
  BY <1>2 DEF Thread, ProviderRegister, ProviderFinishOnContext, ProviderCollect,
     ProviderAnswersRequest, ResumeRefused, StartExecution, FinishExecution, P!Register,
     P!FinishOnContext, P!Collect, TypeOK
<1>3. ASSUME NEW q \in Reqs, NEW p, NEW t, RequestWithoutTurn(q, p, t) \/ RequestCreated(q, p, t)
      PROVE  pc'[r] = pc[r] \/ pc'[r] # "authorized"
  BY <1>3 DEF RequestWithoutTurn, RequestCreated, TypeOK
<1>4. ASSUME NEW q \in Reqs, q # r, NEW p, NEW t, ResumeApproved(q) \/ RequestOnLease(q, p, t)
      PROVE  pc'[r] = pc[r]
  BY <1>4 DEF ResumeApproved, RequestOnLease, TypeOK
<1> QED
  BY <1>1, <1>2, <1>3, <1>4 DEF Next, Request

\* A goroutine gets its authority only in the active turn it was admitted in.
THEOREM AlwaysAuthorisedInTurn == Spec => AuthorisedInTurn
<1> DEFINE GrantedInTurn ==
      \A r \in Reqs : pc[r] # "authorized" /\ pc'[r] = "authorized" =>
          /\ sessions'[Key(request'[r])].state = "active"
          /\ sessions'[Key(request'[r])].turn = request'[r].turn
<1>1. IInv /\ [Next]_vars => [GrantedInTurn]_vars
  <2> SUFFICES ASSUME IInv, Next, NEW r \in Reqs, pc[r] # "authorized", pc'[r] = "authorized"
               PROVE  /\ sessions'[Key(request'[r])].state = "active"
                      /\ sessions'[Key(request'[r])].turn = request'[r].turn
    OBVIOUS
  <2>1. TypeOK
    BY DEF IInv
  <2>2. CASE ResumeApproved(r)
    BY <2>2 DEF ResumeApproved, Granted, ContextActive
  <2>3. ASSUME NEW p \in Procs, NEW t \in ReadTimes, RequestOnLease(r, p, t)
        PROVE  /\ sessions'[Key(request'[r])].state = "active"
               /\ sessions'[Key(request'[r])].turn = request'[r].turn
    <3>1. PICK k \in Keys : ActiveKeys(p) = {k} /\ request' = [request EXCEPT ![r] = Context(r, k, t)]
      BY <2>3 DEF RequestOnLease
    <3>2. LivingSessions[k].state = "active" /\ sessions' = LivingSessions
      BY <2>3, <3>1 DEF ActiveKeys, RequestOnLease, Commit
    <3>3. request'[r] = Context(r, k, t)
      BY <2>1, <3>1 DEF TypeOK
    <3>4. Key(Context(r, k, t)) = k /\ Context(r, k, t).turn = LivingSessions[k].turn
      BY DEF Context, Key, Keys
    <3> QED
      BY <3>2, <3>3, <3>4
  <2> QED
    BY <2>1, <2>2, <2>3, AuthorityGained
<1> QED
  BY <1>1, Invariance, PTL DEF Spec, AuthorisedInTurn

=============================================================================
