------------------------------ MODULE AgentWalk ------------------------------
(***************************************************************************)
(* Who is asking?  FindAgent and Alive (internal/proc/proc_linux.go).      *)
(*                                                                         *)
(* FindAgent climbs from the peer of a connection to the nearest ancestor  *)
(* that runs an agent's executable as the peer's user; Alive tells later   *)
(* whether what it found is still there.  Both read one file of /proc      *)
(* after the other, while processes fork, execute other files and end,     *)
(* their PIDs are given to others and files are replaced.                  *)
(*                                                                         *)
(* Modelled is one connection: FindAgent once, then Alive any number of    *)
(* times.  Start times are taken to tell processes apart: a PID is not     *)
(* given out twice within a clock tick of the kernel.                      *)
(***************************************************************************)
EXTENDS Naturals, FiniteSets

CONSTANTS
    Pids,           \* bound: PIDs other than 1
    Pid1,           \* the init process, where every climb ends
    NoProcess,      \* the table entry of a PID that is not in use
    Users,
    Executables,    \* files that processes run
    Agents,         \* wanted: those that are configured, root's and nobody else's to write
    NoFile,         \* the /proc/PID/exe of one that has ended or whose file was replaced
    Nobody,         \* no peer yet, nothing read, no agent found
    MaxDepth,       \* how many processes FindAgent looks at
    MaxBorn         \* bound: processes ever started

VARIABLES
    table,      \* the processes
    born,       \* how many have been started; start times count them
    peer,       \* the PID and UID the kernel tells of the connecting process
    op,         \* "find" or "alive": who calls read
    at,         \* the next file to read, or "idle", "refused", "found"
    pid,        \* the process being read
    seen,       \* FindAgent's set of the PIDs read, the one being read included
    item,       \* what read has read of it so far
    identity,   \* what FindAgent returned
    verdict,    \* what Alive returned last
    ancestry,   \* history: the peer and its ancestors when it connected,
    nearest,    \* ... the agent that was the nearest of them,
    changed,    \* ... what has happened to them since: "no", "changed", "reused"
    agents,     \* history: start times of processes that have run an agent
    gone        \* history: the agent had ended, and its parent knew, when Alive was called

system == <<table, born>>
reading == <<op, at, pid, seen, item>>
answers == <<identity, verdict>>
history == <<ancestry, nearest, changed, agents, gone>>
vars == <<system, peer, reading, answers, history>>

Identities == [pid : Pids, uid : Users, start : 1..MaxBorn]
Stats == [start : 1..MaxBorn, parent : Pids \cup {Pid1}]
Processes == [start : 1..MaxBorn, uid : Users, parent : Pids \cup {Pid1},
              exe : Executables \cup {NoFile}, ended : BOOLEAN]

ASSUME AgentWalkAssumption ==
    /\ IsFiniteSet(Pids) /\ Pid1 \notin Pids /\ NoProcess \notin Processes
    /\ Nobody \notin Identities
    /\ Agents \subseteq Executables /\ NoFile \notin Executables
    /\ MaxDepth \in Nat \ {0} /\ MaxBorn \in Nat

TypeOK ==
    /\ table \in [Pids -> Processes \cup {NoProcess}]
    /\ born \in 0..MaxBorn
    /\ peer \in [pid : Pids, uid : Users] \cup {Nobody}
    /\ op \in {"find", "alive"}
    /\ at \in {"idle", "stat", "status", "exe", "found", "refused"}
    /\ at \in {"stat", "status", "exe"} => pid \in Pids
    /\ seen \subseteq Pids
    /\ item \in {Nobody} \cup Stats
                 \cup [start : 1..MaxBorn, parent : Pids \cup {Pid1}, uid : Users]
    /\ identity \in Identities \cup {Nobody}
    /\ verdict \in {"", "alive", "dead"}

Init ==
    /\ table = [p \in Pids |-> NoProcess]
    /\ born = 0
    /\ peer = Nobody /\ item = Nobody
    /\ op = "find" /\ at = "idle" /\ pid = Pid1 /\ seen = {}
    /\ identity = Nobody /\ verdict = ""
    /\ ancestry = {} /\ nearest = Nobody /\ changed = "no"
    /\ agents = {} /\ gone = FALSE

-----------------------------------------------------------------------------
(* The processes.                                                          *)

Running(p) == p \in Pids /\ table[p] # NoProcess /\ ~table[p].ended
Listed(who) == table[who.pid] # NoProcess /\ table[who.pid].start = who.start
Named(p) == [pid |-> p, uid |-> table[p].uid, start |-> table[p].start]

\* p and its ancestors but for init: they are in every set that holds p and, with a
\* process, its parent.
Ancestors(p) ==
    {q \in Pids : \A S \in SUBSET Pids :
        p \in S /\ (\A s \in S : table[s] # NoProcess => table[s].parent \in S \cup {Pid1})
            => q \in S}

\* Something happens to the processes in P, if they are of the peer's ancestry.
Disturb(P) ==
    changed' = IF changed = "no" /\ \E p \in P : Named(p) \in ancestry
               THEN "changed" ELSE changed

RunAgents(t) == {t[p].start : p \in {q \in Pids : t[q] # NoProcess /\ t[q].exe \in Agents}}

\* A process starts another one; init and privileged ones may do so for any user.
Fork(p, q, u, x) ==
    /\ table[q] = NoProcess
    /\ born < MaxBorn
    /\ \/ p = Pid1 /\ x # NoFile
       \/ Running(p) /\ x = table[p].exe
    /\ born' = born + 1
    /\ table' = [table EXCEPT ![q] = [start |-> born + 1, uid |-> u, parent |-> p,
                                      exe |-> x, ended |-> FALSE]]
    /\ changed' = IF \E a \in ancestry : a.pid = q THEN "reused" ELSE changed
    /\ agents' = agents \cup RunAgents(table')
    /\ UNCHANGED <<peer, reading, answers, ancestry, nearest, gone>>

Exec(p, x) ==
    /\ Running(p)
    /\ table' = [table EXCEPT ![p].exe = x]
    /\ Disturb({p})
    /\ agents' = agents \cup RunAgents(table')
    /\ UNCHANGED <<born, peer, reading, answers, ancestry, nearest, gone>>

\* The children go to an ancestor that asked for them (a subreaper) or to init.
Exit(p, reaper) ==
    /\ Running(p)
    /\ reaper \in {Pid1} \cup (Ancestors(p) \ {p})
    /\ table' = [q \in Pids |->
                    IF q = p THEN [table[p] EXCEPT !.ended = TRUE, !.exe = NoFile]
                    ELSE IF table[q] # NoProcess /\ table[q].parent = p
                    THEN [table[q] EXCEPT !.parent = reaper]
                    ELSE table[q]]
    /\ Disturb({p})
    /\ UNCHANGED <<born, peer, reading, answers, ancestry, nearest, agents, gone>>

Reap(p) ==
    /\ table[p] # NoProcess /\ ~Running(p)
    /\ table' = [table EXCEPT ![p] = NoProcess]
    /\ UNCHANGED <<born, peer, reading, answers, history>>

\* An installation puts another file in the place of x: the links of the processes
\* that run the old one lead nowhere.
Replace(x) ==
    LET users == {p \in Pids : Running(p) /\ table[p].exe = x}
    IN  /\ users # {}
        /\ table' = [p \in Pids |-> IF p \in users THEN [table[p] EXCEPT !.exe = NoFile]
                                    ELSE table[p]]
        /\ Disturb(users)
        /\ UNCHANGED <<born, peer, reading, answers, ancestry, nearest, agents, gone>>

Others ==
    \/ \E p \in Pids \cup {Pid1}, q \in Pids, u \in Users, x \in Executables \cup {NoFile} :
          Fork(p, q, u, x)
    \/ \E p \in Pids : Reap(p)
    \/ \E p \in Pids, x \in Executables : Exec(p, x)
    \/ \E p \in Pids, reaper \in Pids \cup {Pid1} : Exit(p, reaper)
    \/ \E x \in Executables : Replace(x)

-----------------------------------------------------------------------------
(* The daemon.                                                             *)

\* What FindAgent is to find: the nearest process, among those it may look at, that
\* is an agent of its user and has nothing unreadable before it.
AgentAt(p, uid) == table[p].uid = uid /\ table[p].exe \in Agents

NearestAgent(p, uid) ==
    LET Below(q) == Ancestors(p) \ Ancestors(q)
        first == {q \in Ancestors(p) :
                     /\ AgentAt(q, uid) /\ Cardinality(Below(q)) < MaxDepth
                     /\ \A m \in Below(q) : ~AgentAt(m, uid) /\ table[m].exe # NoFile}
    IN  IF first = {} THEN Nobody ELSE Named(CHOOSE q \in first : TRUE)

\* A process connects and sends its message; the handler comes to FindAgent later.
Connect(p) ==
    /\ at = "idle"
    /\ Running(p)
    /\ peer' = [pid |-> p, uid |-> table[p].uid]
    /\ at' = "stat" /\ pid' = p /\ seen' = {p}
    /\ ancestry' = {Named(q) : q \in Ancestors(p)}
    /\ nearest' = NearestAgent(p, table[p].uid)
    /\ UNCHANGED <<system, op, item, answers, changed, agents, gone>>

\* FindAgent or Alive returns.
Returns(result) == at' = result /\ pid' = Pid1 /\ seen' = {} /\ item' = Nobody

\* A file of /proc/PID that is not there ends read, and with it FindAgent and Alive.
Readable == table[pid] # NoProcess /\ (at = "exe" => table[pid].exe # NoFile)

Fails ==
    /\ at \in {"stat", "status", "exe"}
    /\ ~Readable
    /\ \/ op = "find" /\ Returns("refused") /\ UNCHANGED verdict
       \/ op = "alive" /\ Returns("found") /\ verdict' = "dead"
    /\ UNCHANGED <<system, peer, op, identity, history>>

ReadStat ==
    /\ at = "stat" /\ Readable
    /\ item' = [start |-> table[pid].start, parent |-> table[pid].parent]
    /\ at' = "status"
    /\ UNCHANGED <<system, peer, op, pid, seen, answers, history>>

ReadStatus ==
    /\ at = "status" /\ Readable
    /\ item' = [start |-> item.start, parent |-> item.parent, uid |-> table[pid].uid]
    /\ at' = "exe"
    /\ UNCHANGED <<system, peer, op, pid, seen, answers, history>>

\* Fault: the user of the process is not compared with the peer's.
IsAgentOfAnybody(exe) == exe \in Agents

\* wanted, and owned by root; the user is the peer's.
IsAgent(exe) == item.uid = peer.uid /\ exe \in Agents

\* Fault: the last process that may be looked at is not.
ClimbsTooShort(next) == next # Pid1 /\ next \notin seen /\ Cardinality(seen) + 1 < MaxDepth

\* Fault: init is looked at.
ClimbsIntoInit(next) == next \notin seen /\ Cardinality(seen) < MaxDepth

\* The loop's condition and the test of seen; count is the size of seen.
Climbs(next) == next # Pid1 /\ next \notin seen /\ Cardinality(seen) < MaxDepth

\* read has returned, and FindAgent ends or goes on with the parent.
FindAgent ==
    /\ op = "find" /\ at = "exe" /\ Readable
    /\ \/ /\ IsAgent(table[pid].exe)
          /\ identity' = [pid |-> pid, uid |-> item.uid, start |-> item.start]
          /\ Returns("found")
       \/ /\ ~IsAgent(table[pid].exe) /\ Climbs(item.parent)
          /\ pid' = item.parent
          /\ seen' = seen \cup {item.parent}
          /\ at' = "stat" /\ item' = Nobody
          /\ UNCHANGED identity
       \/ /\ ~IsAgent(table[pid].exe) /\ ~Climbs(item.parent)
          /\ Returns("refused")
          /\ UNCHANGED identity
    /\ UNCHANGED <<system, peer, op, verdict, history>>

\* The broker asks for the agent of a session or a lease.
CallAlive ==
    /\ at = "found"
    /\ op' = "alive" /\ at' = "stat" /\ pid' = identity.pid
    /\ gone' = ~Listed(identity)
    /\ UNCHANGED <<system, peer, seen, item, answers, ancestry, nearest, changed, agents>>

\* Fault: a PID in use by the same user will do.
SamePidAndUser == item.uid = identity.uid

SameIdentity == item.uid = identity.uid /\ item.start = identity.start

Alive ==
    /\ op = "alive" /\ at = "exe" /\ Readable
    /\ verdict' = IF SameIdentity THEN "alive" ELSE "dead"
    /\ Returns("found")
    /\ UNCHANGED <<system, peer, op, identity, history>>

Daemon == (\E p \in Pids : Connect(p)) \/ Fails \/ ReadStat \/ ReadStatus \/ FindAgent
          \/ CallAlive \/ Alive

\* After a refusal the connection is closed.
Next == (at # "refused" /\ Others) \/ Daemon

Spec == Init /\ [][Next]_vars

-----------------------------------------------------------------------------
(* Properties                                                              *)

\* "Agent requests must descend from the exact configured, root-owned agent
\* executable": whatever happens during the walk, what FindAgent returns was the peer
\* or an ancestor of it and has run an agent as the peer's user; unless the PID of one
\* of them was given away before it had been read.
FoundIsAncestor ==
    identity # Nobody /\ changed # "reused" =>
        identity \in ancestry /\ identity.start \in agents /\ identity.uid = peer.uid

\* A request is refused, or taken for that of an outer agent, only if something has
\* happened to its ancestors: up to the last process FindAgent may look at.
NearestIsFound ==
    at \in {"refused", "found"} /\ changed = "no" => identity = nearest

\* Once an agent has ended and has been waited for, Alive is never true of it again,
\* whoever has got its PID, not even if read has mixed up two processes when FindAgent
\* called it; and it is true of nothing that was no agent.
AliveIsTheAgent == verdict = "alive" /\ at = "found" => ~gone /\ identity.start \in agents
=============================================================================
