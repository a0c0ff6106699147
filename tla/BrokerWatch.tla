------------------------------ MODULE BrokerWatch ------------------------------
(***************************************************************************)
(* Broker with its human reviewers: rootbroker-admin watch                 *)
(* (internal/commands/admin.go).  A watcher polls Pending, shows the first *)
(* request its human has not put off, waits at a prompt for as long as the *)
(* human likes, and sends the answer in a second call.  What it shows is   *)
(* what the first call returned; the answer meets whatever the broker has  *)
(* become since.  Other reviewers use the single-shot commands at the same *)
(* time (SingleShot).                                                      *)
(***************************************************************************)
EXTENDS Broker

CONSTANT Watchers       \* rootbroker-admin processes that run watch

VARIABLES
    phase,      \* phase[w]: "polling", "prompting" (at readApprovalChoice), "exited"
    shown,      \* shown[w]: current, the request on the screen
    seen,       \* seen[w]: the requests put off with "l"
    reported,   \* history: what watchers have printed about each request
    timely      \* history: the clock has never moved while a watcher, or a
                \* request not yet queued, had something to do

watchers == <<phase, shown, seen>>
observed == <<reported, timely>>
watchVars == <<vars, watchers, observed>>

Running == {w \in Watchers : phase[w] # "exited"}

WatchTypeOK ==
    /\ phase \in [Watchers -> {"polling", "prompting", "exited"}]
    /\ shown \in [Watchers -> Reqs \cup {NoRequest}]
    /\ seen \in [Watchers -> SUBSET Reqs]
    /\ reported \in [Reqs -> {"", "approved", "denied"}]
    /\ timely \in BOOLEAN

WatchInit ==
    /\ Init
    /\ phase = [w \in Watchers |-> "polling"]
    /\ shown = [w \in Watchers |-> NoRequest]
    /\ seen = [w \in Watchers |-> {}]
    /\ reported = [r \in Reqs |-> ""]
    /\ timely = TRUE

-----------------------------------------------------------------------------
\* ManualProvider.Pending sorts by creation; decided items are listed until
\* their goroutines collect them.
Oldest(S) == {r \in S : \A q \in S : request[r].expires <= request[q].expires}

\* Fault: the list is read only up to the first request that was put off.
CandidatesBeforeSeen(w) ==
    {r \in Oldest(pending \ seen[w]) :
        ~ \E q \in pending \cap seen[w] : request[q].expires <= request[r].expires}

\* The item watch shows next: the first one of the list that is not in seen.
Candidates(w) == Oldest(pending \ seen[w])

\* getPending, and the prompt if there is something to show; sleeping otherwise.
Poll(w) ==
    /\ phase[w] = "polling"
    /\ ListPending
    /\ \/ /\ Candidates(w) = {}
          /\ UNCHANGED <<phase, shown>>
       \/ \E r \in Candidates(w) :
             /\ shown' = [shown EXCEPT ![w] = r]
             /\ phase' = [phase EXCEPT ![w] = "prompting"]
    /\ UNCHANGED <<seen, observed>>

\* readApprovalChoice has returned; watch polls again, with S put off.
Continues(w, S) ==
    /\ phase[w] = "prompting"
    /\ phase' = [phase EXCEPT ![w] = "polling"]
    /\ shown' = [shown EXCEPT ![w] = NoRequest]
    /\ seen' = [seen EXCEPT ![w] = @ \cup S]
    /\ UNCHANGED timely

\* watch returns in the processes W; what they knew is gone.
Return(W) ==
    /\ phase' = [w \in Watchers |-> IF w \in W THEN "exited" ELSE phase[w]]
    /\ shown' = [w \in Watchers |-> IF w \in W THEN NoRequest ELSE shown[w]]
    /\ seen' = [w \in Watchers |-> IF w \in W THEN {} ELSE seen[w]]
    /\ UNCHANGED observed

\* "c", "m", "s" and "d": adminMutation succeeds.
Decides(w) ==
    /\ Continues(w, {})
    /\ \E scope \in Scopes, a \in Approvers, t \in ReadTimes :
          \/ /\ Approve(shown[w], scope, a, t)
             /\ reported' = [reported EXCEPT ![shown[w]] = "approved"]
          \/ /\ Deny(shown[w], scope, a, t)
             /\ reported' = [reported EXCEPT ![shown[w]] = "denied"]

\* The request is no longer open: adminMutation fails and watch returns its code.
AnswersTooLate(w) ==
    /\ phase[w] = "prompting"
    /\ \E t \in ReadTimes : DecideNotFound(shown[w], t)
    /\ Return({w})

\* "l".
PutsOff(w) ==
    /\ Continues(w, {shown[w]})
    /\ UNCHANGED <<vars, reported>>

\* "q", or the end of the terminal.
Quits(w) ==
    /\ phase[w] = "prompting"
    /\ Return({w})
    /\ UNCHANGED vars

\* The commands pending, leases, approve, deny and revoke: one call each.
SingleShot ==
    /\ \/ Review
       \/ \E t \in ReadTimes : PruneOnly(t)
       \/ \E l \in leases : Revoke(l)
    /\ UNCHANGED <<watchers, observed>>

\* Watchers whose calls meet the daemon while it is down return at once.
RestartUnder(W) ==
    /\ Restart
    /\ Return(W)

HasWork(w) == phase[w] = "prompting" \/ (phase[w] = "polling" /\ Candidates(w) # {})

TickWatched ==
    /\ Tick
    /\ timely' = (/\ timely
                  /\ \A w \in Watchers : ~HasWork(w)
                  /\ \A r \in Reqs : pc[r] # "entered")
    /\ UNCHANGED <<watchers, reported>>

Elsewhere ==
    /\ \/ \E p \in Procs : ProcessExits(p) \/ ProcessReturns(p)
       \/ \E r \in Reqs : Disconnect(r) \/ DeadlineFires(r)
       \/ Lifecycle
       \/ Request
    /\ UNCHANGED <<watchers, observed>>

Watch(w) == Poll(w) \/ Decides(w) \/ AnswersTooLate(w) \/ PutsOff(w) \/ Quits(w)

WatchNext ==
    \/ \E w \in Watchers : Watch(w)
    \/ SingleShot
    \/ \E W \in SUBSET Running : RestartUnder(W)
    \/ TickWatched
    \/ Elsewhere

WatchSpec == WatchInit /\ [][WatchNext]_watchVars

-----------------------------------------------------------------------------
(* Properties                                                              *)

\* What a human has been told is what happens: nobody else's answer, no group
\* approval and no context that ends replaces it, and a command reported denied
\* never runs.
ReportedIsTrue ==
    \A r \in Reqs : reported[r] # "" =>
        /\ decision[r].outcome = reported[r]
        /\ reported[r] = "denied" => pc[r] \notin {"authorized", "executing", "done"}

\* However long a human looks at a prompt, an approval is accepted only while the
\* turn on the screen is the active one.
ApprovedInShownTurn ==
    [][\A r \in Reqs : reported[r] = "" /\ reported'[r] = "approved" =>
          sessions'[Key(request[r])] = [state |-> "active", turn |-> request[r].turn]
      ]_watchVars

\* As long as humans and watchers are quicker than the clock, no request reaches the
\* end of its TTL undecided without having been shown by every watcher that runs:
\* neither an answered, a withdrawn nor a put-off request hides another one.
NoneExpiresUnseen ==
    timely => \A r \in pending, w \in Running :
        P!Open(r) /\ request[r].expires <= clock => r \in seen[w]

=============================================================================
