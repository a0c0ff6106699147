--------------------------- MODULE AgentWalkProofs ---------------------------
(***************************************************************************)
(* Theorems about AgentWalk, for any number of PIDs and users and a climb  *)
(* of any length.                                                          *)
(*                                                                         *)
(* IInv has five parts: the shapes of what is read (Types); the process    *)
(* table, in which parents run and are older than their children (Family); *)
(* what Alive may say of the agent found (Past); the peer's ancestry as    *)
(* long as none of its PIDs was given away (Lineage); and, as long as      *)
(* nothing at all has happened to it, how far the climb has come           *)
(* (Undisturbed).                                                          *)
(***************************************************************************)
EXTENDS AgentWalk, FiniteSetTheorems, TLAPS

Reading == at \in {"stat", "status", "exe"}
Items == [start : 1..MaxBorn, parent : Pids \cup {Pid1}, uid : Users]

Types ==
    /\ TypeOK
    /\ at # "idle" => peer \in [pid : Pids, uid : Users]
    /\ at = "status" => item \in Stats
    /\ at = "exe" => item \in Items
    /\ at = "idle" => op = "find" /\ changed = "no" /\ ancestry = {} /\ identity = Nobody
    /\ at = "found" \/ op = "alive" => identity \in Identities
    /\ Reading /\ op = "alive" => pid = identity.pid
    /\ Reading /\ op = "find" => identity = Nobody
    /\ changed \in {"no", "changed", "reused"}
    /\ ancestry \subseteq Identities

\* Children are younger than their parents.
Family ==
    /\ \A p \in Pids : table[p] # NoProcess =>
          /\ table[p].start <= born
          /\ table[p].parent # Pid1 =>
                Running(table[p].parent) /\ table[table[p].parent].start < table[p].start
    /\ RunAgents(table) \subseteq agents

\* A start time that has been read has been given, and to one process only.
Past ==
    /\ at \in {"status", "exe"} => item.start <= born
    /\ identity # Nobody =>
          identity.start <= born /\ (Listed(identity) => identity.start \in agents)
    /\ gone => op = "alive" /\ ~Listed(identity)
    /\ op = "alive" /\ at \in {"status", "exe"} /\ item.start = identity.start =>
          ~gone /\ identity.start \in agents
    /\ op = "find" => verdict # "alive"
    /\ AliveIsTheAgent

AncestorPids == {a.pid : a \in ancestry}

\* As long as no PID of the ancestry was given away, the walk stays in it.
Lineage ==
    changed # "reused" =>
        /\ \A a \in ancestry : table[a.pid] # NoProcess =>
              /\ Named(a.pid) = a
              /\ table[a.pid].parent \in AncestorPids \cup {Pid1}
        /\ Reading /\ op = "find" => pid \in AncestorPids
        /\ at \in {"status", "exe"} /\ op = "find" =>
              /\ item.parent \in AncestorPids \cup {Pid1}
              /\ \E a \in ancestry : a.pid = pid /\ a.start = item.start /\ (at = "exe" => a.uid = item.uid)
        /\ identity # Nobody =>
              identity \in ancestry /\ identity.start \in agents /\ identity.uid = peer.uid

\* The climb from p, as user u, has come to c and has passed everybody below it.
ClimbedTo(c, p, u) ==
    /\ c \in Ancestors(p)
    /\ seen = (Ancestors(p) \ Ancestors(c)) \cup {c}
    /\ Cardinality(seen) <= MaxDepth
    /\ \A m \in seen \ {c} : ~AgentAt(m, u) /\ table[m].exe # NoFile
    /\ at \in {"status", "exe"} =>
          item.start = table[c].start /\ item.parent = table[c].parent
    /\ at = "exe" => item.uid = table[c].uid

\* Those NearestAgent(p, u) chooses from.
FirstAgents(p, u) ==
    {q \in Ancestors(p) :
        /\ AgentAt(q, u) /\ Cardinality(Ancestors(p) \ Ancestors(q)) < MaxDepth
        /\ \A m \in Ancestors(p) \ Ancestors(q) : ~AgentAt(m, u) /\ table[m].exe # NoFile}

\* Nothing has happened to the ancestry of the peer p: it is as it was at the connect.
UndisturbedOf(p, u) ==
    /\ Running(p)
    /\ ancestry = {Named(q) : q \in Ancestors(p)}
    /\ nearest = NearestAgent(p, u)
    /\ Reading /\ op = "find" => \A c \in Pids : c = pid => ClimbedTo(c, p, u)
    /\ ~Reading \/ op = "alive" => identity = nearest

Undisturbed ==
    changed = "no" /\ at # "idle" =>
        \A p \in Pids, u \in Users : peer = [pid |-> p, uid |-> u] => UndisturbedOf(p, u)

IInv == Types /\ Family /\ Past /\ Lineage /\ Undisturbed

-----------------------------------------------------------------------------
(* Ancestors.                                                              *)

\* An entry of the table that is in use.
LEMMA EntryParts ==
    ASSUME TypeOK, NEW p \in Pids, table[p] # NoProcess
    PROVE  /\ table[p] \in Processes
           /\ table[p].start \in 1..MaxBorn /\ table[p].start \in Nat
           /\ table[p].uid \in Users /\ table[p].parent \in Pids \cup {Pid1}
           /\ table[p].exe \in Executables \cup {NoFile} /\ table[p].ended \in BOOLEAN
<1>1. table[p] \in Processes
  BY DEF TypeOK
<1>2. /\ table[p].start \in 1..MaxBorn
      /\ table[p].uid \in Users /\ table[p].parent \in Pids \cup {Pid1}
      /\ table[p].exe \in Executables \cup {NoFile} /\ table[p].ended \in BOOLEAN
  BY <1>1 DEF Processes
<1>3. MaxBorn \in Nat
  BY AgentWalkAssumption
<1> QED
  BY <1>1, <1>2, <1>3

\* The ancestors of p are the least set that holds p and is closed under parents.
LEMMA AncestorsLeast ==
    ASSUME TypeOK, NEW p \in Pids
    PROVE  /\ p \in Ancestors(p) /\ Ancestors(p) \in SUBSET Pids
           /\ \A q \in Ancestors(p) :
                 table[q] # NoProcess => table[q].parent \in Ancestors(p) \cup {Pid1}
           /\ \A S \in SUBSET Pids :
                 p \in S /\ (\A s \in S : table[s] # NoProcess => table[s].parent \in S \cup {Pid1})
                    => Ancestors(p) \subseteq S
<1>1. ASSUME NEW q \in Ancestors(p), table[q] # NoProcess, table[q].parent # Pid1
      PROVE  table[q].parent \in Ancestors(p)
  <2>1. q \in Pids /\ table[q].parent \in Pids
    BY <1>1, EntryParts DEF Ancestors
  <2> QED
    BY <1>1, <2>1 DEF Ancestors
<1> QED
  BY <1>1 DEF Ancestors

\* Ancestors of an ancestor.
LEMMA AncestorsTransitive ==
    ASSUME TypeOK, NEW p \in Pids, NEW q \in Ancestors(p)
    PROVE  q \in Pids /\ Ancestors(q) \subseteq Ancestors(p)
BY AncestorsLeast

\* A running process has running ancestors, none of them younger.
LEMMA AncestorsRun ==
    ASSUME TypeOK, Family, NEW p \in Pids, Running(p)
    PROVE  \A q \in Ancestors(p) : Running(q) /\ table[q].start <= table[p].start
<1> DEFINE S == {q \in Pids : Running(q) /\ table[q].start <= table[p].start}
<1>1. p \in S
  BY EntryParts DEF Running
<1>2. ASSUME NEW s \in S
      PROVE  table[s].parent \in S \cup {Pid1}
  <2>1. Running(s) /\ table[s].start <= table[p].start
    BY <1>2
  <2>2. CASE table[s].parent = Pid1
    BY <2>2
  <2>3. CASE table[s].parent # Pid1
    <3> DEFINE up == table[s].parent
    <3>1. Running(up) /\ up \in Pids /\ table[up].start < table[s].start
      BY <2>1, <2>3 DEF Family, Running
    <3>2. table[up].start \in Nat /\ table[s].start \in Nat /\ table[p].start \in Nat
      BY <2>1, <3>1, EntryParts DEF Running
    <3> QED
      BY <2>1, <3>1, <3>2
  <2> QED
    BY <2>2, <2>3
<1> HIDE DEF S
<1>3. Ancestors(p) \subseteq S
  BY <1>1, <1>2, AncestorsLeast DEF S
<1> QED
  BY <1>3 DEF S

\* The ancestors of p are p and those of its parent, who do not include p.
LEMMA AncestorsOneUp ==
    ASSUME TypeOK, Family, NEW p \in Pids, Running(p)
    PROVE  /\ table[p].parent = Pid1 => Ancestors(p) = {p}
           /\ table[p].parent # Pid1 =>
                 /\ Ancestors(p) = {p} \cup Ancestors(table[p].parent)
                 /\ p \notin Ancestors(table[p].parent)
<1>1. p \in Ancestors(p)
  BY AncestorsLeast
<1>2. CASE table[p].parent = Pid1
  <2>1. {p} \in SUBSET Pids /\ \A s \in {p} : table[s].parent \in {p} \cup {Pid1}
    BY <1>2
  <2>2. Ancestors(p) \subseteq {p}
    BY <2>1, AncestorsLeast
  <2> QED
    BY <1>1, <1>2, <2>2
<1>3. CASE table[p].parent # Pid1
  <2> DEFINE up == table[p].parent
  <2>1. up \in Pids /\ Running(up) /\ table[up].start < table[p].start
    BY <1>3 DEF Family, Running
  <2>2. up \in Ancestors(p)
    BY <1>1, <1>3, AncestorsLeast DEF Running
  <2> HIDE DEF up
  <2>3. Ancestors(up) \subseteq Ancestors(p)
    BY <2>2, AncestorsTransitive
  <2>4. /\ Ancestors(up) \in SUBSET Pids
        /\ \A s \in Ancestors(up) :
              table[s] # NoProcess => table[s].parent \in Ancestors(up) \cup {Pid1}
        /\ up \in Ancestors(up)
    BY <2>1, AncestorsLeast
  <2>5. Ancestors(p) \subseteq {p} \cup Ancestors(up)
    <3> DEFINE S == {p} \cup Ancestors(up)
    <3>1. S \in SUBSET Pids /\ p \in S
      BY <2>4
    <3>2. \A s \in S : table[s] # NoProcess => table[s].parent \in S \cup {Pid1}
      BY <2>4 DEF up
    <3> HIDE DEF S
    <3>3. Ancestors(p) \subseteq S
      BY <3>1, <3>2, AncestorsLeast
    <3> QED
      BY <3>3 DEF S
  <2>6. p \notin Ancestors(up)
    <3>1. p \in Ancestors(up) => table[p].start <= table[up].start
      BY <2>1, AncestorsRun
    <3>2. table[p].start \in Nat /\ table[up].start \in Nat
      BY <2>1, EntryParts DEF Running
    <3> QED
      BY <2>1, <3>1, <3>2
  <2> QED
    BY <1>1, <1>3, <2>3, <2>5, <2>6 DEF up
<1> QED
  BY <1>2, <1>3

\* Whose ancestors stay as they are has the same ancestors.
LEMMA AncestorsKept ==
    ASSUME TypeOK, TypeOK', NEW p \in Pids, \A q \in Ancestors(p) : table'[q] = table[q]
    PROVE  Ancestors(p)' = Ancestors(p)
<1> DEFINE A == Ancestors(p)
           B == Ancestors(p)'
<1>1. /\ A \in SUBSET Pids /\ p \in A
      /\ \A s \in A : table'[s] # NoProcess => table'[s].parent \in A \cup {Pid1}
  BY AncestorsLeast
<1>2. B \subseteq A
  <2> HIDE DEF A
  <2> QED
    BY <1>1 DEF Ancestors
<1>3. \A s \in B : table[s] # NoProcess => table[s].parent \in B \cup {Pid1}
  <2> SUFFICES ASSUME NEW s \in B, table[s] # NoProcess, table[s].parent # Pid1
               PROVE  table[s].parent \in B
    OBVIOUS
  <2>1. table'[s] = table[s] /\ s \in Pids
    BY <1>1, <1>2
  <2>2. table[s].parent \in Pids
    BY <2>1, EntryParts
  <2> QED
    BY <2>1, <2>2 DEF Ancestors
<1>4. B \in SUBSET Pids /\ p \in B
  BY DEF Ancestors
<1> HIDE DEF B
<1>5. A \subseteq B
  BY <1>3, <1>4, AncestorsLeast
<1> QED
  BY <1>2, <1>5 DEF B

-----------------------------------------------------------------------------
(* What the processes do keeps the invariant.                              *)

\* An agent that was found.
LEMMA IdentityParts ==
    ASSUME Types
    PROVE  /\ identity # Nobody => /\ identity \in Identities /\ identity.pid \in Pids
                                   /\ identity.start \in 1..MaxBorn /\ identity.start \in Nat
           /\ at = "found" \/ op = "alive" => identity # Nobody
<1>1. identity # Nobody => identity \in Identities
  BY DEF Types, TypeOK
<1>2. \A i \in Identities : i.pid \in Pids /\ i.start \in 1..MaxBorn /\ i.start \in Nat
  BY AgentWalkAssumption DEF Identities
<1>3. at = "found" \/ op = "alive" => identity # Nobody
  BY AgentWalkAssumption DEF Types
<1> QED
  BY <1>1, <1>2, <1>3

\* Steps that leave the daemon alone and list nobody again who was no longer listed.
LEMMA PastStays ==
    ASSUME Types, Past, UNCHANGED <<reading, answers, gone>>, born \in Nat, born' \in Nat,
           born <= born', agents \subseteq agents',
           \A who \in Identities : who.start <= born /\ Listed(who)' => Listed(who)
    PROVE  Past'
<1>1. identity # Nobody => identity.start \in Nat /\ identity \in Identities
  BY IdentityParts
<1>2. gone => identity # Nobody /\ ~Listed(identity)
  BY IdentityParts DEF Past
<1>3. identity # Nobody => identity.start <= born'
  BY <1>1 DEF Past
<1>5. at \in {"status", "exe"} => item.start \in Nat
  BY AgentWalkAssumption DEF Types, Stats, Items
<1>6. at \in {"status", "exe"} => item.start <= born'
  BY <1>5 DEF Past
<1>4. ASSUME identity # Nobody, NEW who \in Identities, who = identity
      PROVE  Listed(who)' => Listed(who) /\ who.start \in agents'
  BY <1>4 DEF Past
<1> QED
  BY <1>1, <1>2, <1>3, <1>4, <1>6 DEF Past, Listed, AliveIsTheAgent, reading, answers

\* Steps that leave the daemon alone and, of the peer's ancestry, change nothing but
\* parents, for others of the ancestry; or give a PID of it away.
LEMMA LineageStays ==
    ASSUME Lineage, UNCHANGED <<peer, reading, answers, ancestry>>, agents \subseteq agents',
           changed' # "reused" =>
              /\ changed # "reused"
              /\ \A a \in ancestry : table'[a.pid] # NoProcess =>
                    /\ Named(a.pid)' = a
                    /\ table'[a.pid].parent \in AncestorPids \cup {Pid1}
    PROVE  Lineage'
<1> SUFFICES ASSUME changed' # "reused"
             PROVE  Lineage'
  BY DEF Lineage
<1>1. AncestorPids' = AncestorPids
  BY DEF AncestorPids
<1> QED
  BY <1>1 DEF Lineage, Named, Reading, reading, answers

\* Steps that leave the daemon alone and, as long as nothing is said to have changed,
\* the ancestors too.
LEMMA UndisturbedStays ==
    ASSUME IInv, TypeOK', UNCHANGED <<peer, reading, answers, ancestry, nearest>>,
           changed' = "no" => changed = "no",
           changed' = "no" /\ at # "idle" =>
               \A p \in Pids : p = peer.pid =>
                   \A q \in Ancestors(p) : table'[q] = table[q]
    PROVE  Undisturbed'
<1> SUFFICES ASSUME changed' = "no", at # "idle", NEW p \in Pids, NEW u \in Users,
                    peer = [pid |-> p, uid |-> u]
             PROVE  UndisturbedOf(p, u)'
  BY DEF Undisturbed, reading
<1> DEFINE A == Ancestors(p)
<1>1. TypeOK /\ TypeOK' /\ UndisturbedOf(p, u)
  BY DEF IInv, Types, Undisturbed
<1>2. /\ Running(p) /\ ancestry = {Named(q) : q \in A}
      /\ nearest = NearestAgent(p, u)
      /\ Reading /\ op = "find" => \A c \in Pids : c = pid => ClimbedTo(c, p, u)
      /\ ~Reading \/ op = "alive" => identity = nearest
  BY <1>1 DEF UndisturbedOf
<1>3. \A q \in A : table'[q] = table[q]
  OBVIOUS
<1>4. \A q \in A : q \in Pids /\ Ancestors(q) \subseteq A
  BY <1>1, AncestorsTransitive
<1>5. \A q \in A : Ancestors(q)' = Ancestors(q)
  <2> TAKE q \in A
  <2>1. q \in Pids /\ \A r \in Ancestors(q) : table'[r] = table[r]
    BY <1>3, <1>4
  <2> QED
    BY <1>1, <2>1, AncestorsKept
<1>6. p \in A
  BY <1>1, AncestorsLeast
<1>7. A' = A /\ \A q \in A : Named(q)' = Named(q)
  BY <1>3, <1>5, <1>6 DEF Named
<1>8. \A q \in A : AgentAt(q, u)' = AgentAt(q, u)
  BY <1>3 DEF AgentAt
<1>9. Running(p)'
  BY <1>2, <1>3, <1>6 DEF Running
<1>10. (ancestry = {Named(q) : q \in Ancestors(p)})'
  BY <1>2, <1>7
<1>11. NearestAgent(p, u)' = NearestAgent(p, u)
  <2>1. FirstAgents(p, u)' = FirstAgents(p, u) /\ FirstAgents(p, u) \subseteq A
    BY <1>3, <1>5, <1>7, <1>8 DEF FirstAgents
  <2>2. NearestAgent(p, u) = IF FirstAgents(p, u) = {} THEN Nobody
                             ELSE Named(CHOOSE q \in FirstAgents(p, u) : TRUE)
    BY DEF NearestAgent, FirstAgents
  <2>3. \A F : F = FirstAgents(p, u)' =>
           NearestAgent(p, u)' = IF F = {} THEN Nobody ELSE Named(CHOOSE q \in F : TRUE)'
    BY DEF NearestAgent, FirstAgents, Named
  <2> HIDE DEF A
  <2>4. CASE FirstAgents(p, u) = {}
    BY <2>1, <2>2, <2>3, <2>4
  <2>5. CASE FirstAgents(p, u) # {}
    <3>1. PICK c \in A : c = CHOOSE q \in FirstAgents(p, u) : TRUE
      BY <2>1, <2>5
    <3> QED
      BY <1>7, <2>1, <2>2, <2>3, <2>5, <3>1 DEF Named
  <2> QED
    BY <2>4, <2>5
<1>12. ASSUME Reading, op = "find", NEW c \in Pids, c = pid
       PROVE  ClimbedTo(c, p, u)'
  <2>1. ClimbedTo(c, p, u)
    BY <1>2, <1>12
  <2> HIDE DEF A
  <2> QED
    BY <1>1, <1>3, <1>5, <1>7, <1>8, <2>1 DEF ClimbedTo, A, reading
<1> QED
  BY <1>2, <1>7, <1>9, <1>10, <1>11, <1>12 DEF UndisturbedOf, Reading, reading, answers

\* Steps that leave the daemon alone.
LEMMA TypesStay ==
    ASSUME Types, UNCHANGED <<peer, reading, answers, ancestry>>,
           table' \in [Pids -> Processes \cup {NoProcess}], born' \in 0..MaxBorn,
           changed' = changed \/ (ancestry # {} /\ changed' \in {"changed", "reused"})
    PROVE  Types'
<1>1. TypeOK'
  BY DEF Types, TypeOK, reading, answers
<1> QED
  BY <1>1 DEF Types, Reading, reading, answers

\* What happens to P is noted if P is of the ancestry.
LEMMA DisturbNotes ==
    ASSUME NEW P, Disturb(P)
    PROVE  /\ changed' = changed \/ (ancestry # {} /\ changed' = "changed")
           /\ changed' = "reused" <=> changed = "reused"
           /\ changed' = "no" => changed = "no" /\ \A p \in P : Named(p) \notin ancestry
<1>1. CASE changed = "no" /\ \E p \in P : Named(p) \in ancestry
  <2>1. changed' = "changed" /\ ancestry # {}
    BY <1>1 DEF Disturb
  <2> QED
    BY <1>1, <2>1
<1>2. CASE ~(changed = "no" /\ \E p \in P : Named(p) \in ancestry)
  <2>1. changed' = changed
    BY <1>2 DEF Disturb
  <2> QED
    BY <1>2, <2>1
<1> QED
  BY <1>1, <1>2

\* As long as nothing has happened to them, the peer's ancestors are those it had.
LEMMA PeerAncestors ==
    ASSUME IInv, changed = "no", at # "idle", NEW p \in Pids, p = peer.pid
    PROVE  /\ \A q \in Ancestors(p) : q \in Pids /\ Named(q) \in ancestry /\ Running(q)
           /\ \A q \in Ancestors(p) : \E a \in ancestry : a.pid = q
           /\ \A q \in Ancestors(p) : table[q].parent \in Ancestors(p) \cup {Pid1}
<1>1. PICK u \in Users : peer = [pid |-> p, uid |-> u]
  BY DEF IInv, Types
<1>2. Running(p) /\ ancestry = {Named(q) : q \in Ancestors(p)}
  BY <1>1 DEF IInv, Undisturbed, UndisturbedOf
<1>3. TypeOK /\ Family
  BY DEF IInv, Types
<1>4. \A q \in Ancestors(p) : q \in Pids /\ Running(q)
  BY <1>2, <1>3, AncestorsRun DEF Running
<1>5. \A q \in Ancestors(p) : Named(q) \in ancestry /\ Named(q).pid = q
  BY <1>2 DEF Named
<1> QED
  BY <1>3, <1>4, <1>5, AncestorsLeast DEF Running

LEMMA TableParts ==
    ASSUME IInv
    PROVE  /\ Types /\ TypeOK /\ Family
           /\ table \in [Pids -> Processes \cup {NoProcess}]
           /\ born \in 0..MaxBorn /\ born \in Nat /\ MaxBorn \in Nat
<1>1. Types /\ TypeOK /\ Family
  BY DEF IInv, Types
<1>2. table \in [Pids -> Processes \cup {NoProcess}] /\ born \in 0..MaxBorn
  BY <1>1 DEF TypeOK
<1> QED
  BY <1>1, <1>2, AgentWalkAssumption

\* The processes stay the same, but for the files they run; whose ancestry that is of is
\* noted.
LEMMA SameProcessesKeep ==
    ASSUME IInv, NEW P \in SUBSET Pids, Disturb(P),
           UNCHANGED <<born, peer, reading, answers, ancestry, nearest, gone>>,
           table' \in [Pids -> Processes \cup {NoProcess}],
           \A r \in Pids :
               /\ table'[r] # NoProcess <=> table[r] # NoProcess
               /\ table[r] # NoProcess =>
                     /\ table'[r].start = table[r].start /\ table'[r].parent = table[r].parent
                     /\ table'[r].uid = table[r].uid /\ table'[r].ended = table[r].ended,
           \A r \in Pids \ P : table'[r] = table[r],
           agents \subseteq agents', RunAgents(table') \subseteq agents'
    PROVE  IInv'
<1>1. Types /\ TypeOK /\ born \in Nat /\ born' \in Nat /\ born' \in 0..MaxBorn
  BY TableParts
<1>2. Types'
  <2>1. changed' = changed \/ (ancestry # {} /\ changed' \in {"changed", "reused"})
    BY DisturbNotes
  <2> QED
    BY <1>1, <2>1, TypesStay
<1>3. Family'
  <2>1. ASSUME NEW r \in Pids, table'[r] # NoProcess
        PROVE  /\ table'[r].start <= born'
               /\ table'[r].parent # Pid1 =>
                     \E up \in Pids : /\ up = table'[r].parent /\ Running(up)'
                                      /\ table'[up].start < table'[r].start
    <3>1. table[r] # NoProcess /\ table[r].start <= born
      BY <2>1 DEF IInv, Family
    <3>2. ASSUME NEW up, up = table[r].parent, up # Pid1
          PROVE  up \in Pids /\ Running(up) /\ table[up].start < table[r].start
      BY <3>1, <3>2 DEF IInv, Family, Running
    <3> QED
      BY <2>1, <3>1, <3>2 DEF Running
  <2> QED
    BY <2>1 DEF Family, Running
<1>4. Past'
  <2>1. ASSUME NEW who \in Identities, who.start <= born, Listed(who)'
        PROVE  Listed(who)
    BY <2>1 DEF Listed, Identities
  <2> QED
    BY <1>1, <2>1, PastStays DEF IInv
<1>5. Lineage'
  <2>1. ASSUME changed' # "reused", NEW a \in ancestry, table'[a.pid] # NoProcess
        PROVE  Named(a.pid)' = a /\ table'[a.pid].parent \in AncestorPids \cup {Pid1}
    <3>1. a.pid \in Pids
      BY <1>1 DEF Types, Identities
    <3>2. changed # "reused"
      BY <2>1, DisturbNotes
    <3>3. /\ Named(a.pid) = a /\ table[a.pid].parent \in AncestorPids \cup {Pid1}
      BY <2>1, <3>1, <3>2 DEF IInv, Lineage
    <3> QED
      BY <2>1, <3>1, <3>3 DEF Named
  <2>2. changed' # "reused" => changed # "reused"
    BY DisturbNotes
  <2> QED
    BY <2>1, <2>2, LineageStays DEF IInv
<1>6. Undisturbed'
  <2>1. changed' = "no" => changed = "no" /\ \A r \in P : Named(r) \notin ancestry
    BY DisturbNotes
  <2>2. ASSUME changed' = "no", at # "idle", NEW r \in Pids, r = peer.pid
        PROVE  \A s \in Ancestors(r) : table'[s] = table[s]
    <3>1. \A s \in Ancestors(r) : s \in Pids /\ Named(s) \in ancestry
      BY <2>1, <2>2, PeerAncestors
    <3> QED
      BY <2>1, <2>2, <3>1
  <2> QED
    BY <1>2, <2>1, <2>2, UndisturbedStays DEF Types
<1> QED
  BY <1>2, <1>3, <1>4, <1>5, <1>6 DEF IInv

LEMMA ForkKeeps ==
    ASSUME IInv, NEW p \in Pids \cup {Pid1}, NEW q \in Pids, NEW u \in Users,
           NEW x \in Executables \cup {NoFile}, Fork(p, q, u, x)
    PROVE  IInv'
<1>0. /\ table[q] = NoProcess /\ born < MaxBorn
      /\ p = Pid1 \/ (Running(p) /\ x = table[p].exe)
      /\ born' = born + 1
      /\ table' = [table EXCEPT ![q] = [start |-> born + 1, uid |-> u, parent |-> p,
                                        exe |-> x, ended |-> FALSE]]
      /\ changed' = IF \E a \in ancestry : a.pid = q THEN "reused" ELSE changed
      /\ agents' = agents \cup RunAgents(table')
      /\ UNCHANGED <<peer, reading, answers, ancestry, nearest, gone>>
  BY DEF Fork
<1>1. /\ Types /\ TypeOK /\ table \in [Pids -> Processes \cup {NoProcess}]
      /\ born \in Nat /\ born' = born + 1 /\ born' \in 1..MaxBorn /\ born' \in 0..MaxBorn
  BY <1>0, TableParts
<1>2. /\ table'[q] = [start |-> born + 1, uid |-> u, parent |-> p, exe |-> x, ended |-> FALSE]
      /\ \A r \in Pids \ {q} : table'[r] = table[r]
      /\ table'[q] # NoProcess /\ table' \in [Pids -> Processes \cup {NoProcess}]
  <2>1. [start |-> born + 1, uid |-> u, parent |-> p, exe |-> x, ended |-> FALSE] \in Processes
    BY <1>1 DEF Processes
  <2> QED
    BY <1>0, <1>1, <2>1, AgentWalkAssumption
<1>3. Types'
  BY <1>0, <1>1, <1>2, TypesStay
<1>4. Family'
  <2>1. ASSUME NEW r \in Pids, table'[r] # NoProcess
        PROVE  /\ table'[r].start <= born'
               /\ table'[r].parent # Pid1 =>
                     \E up \in Pids : /\ up = table'[r].parent /\ Running(up)'
                                      /\ table'[up].start < table'[r].start
    <3>1. CASE r = q
      <4>1. p # Pid1 => p \in Pids \ {q} /\ Running(p) /\ table[p].start <= born
                        /\ table[p].start \in Nat
        BY <1>0, <1>1, EntryParts DEF Running, IInv, Family
      <4> QED
        BY <1>1, <1>2, <3>1, <4>1 DEF Running
    <3>2. CASE r # q
      <4>1. table'[r] = table[r] /\ table[r].start <= born /\ table[r].start \in Nat
        BY <1>1, <1>2, <2>1, <3>2, EntryParts DEF IInv, Family
      <4>2. ASSUME NEW up, up = table[r].parent, up # Pid1
            PROVE  /\ up \in Pids \ {q} /\ Running(up) /\ table[up].start < table[r].start
        BY <1>0, <2>1, <4>1, <4>2 DEF IInv, Family, Running
      <4>3. ASSUME NEW up, up = table[r].parent, up # Pid1
            PROVE  Running(up)' /\ table'[up] = table[up]
        BY <1>2, <4>2, <4>3 DEF Running
      <4> QED
        BY <1>1, <4>1, <4>2, <4>3
    <3> QED
      BY <3>1, <3>2
  <2> QED
    BY <1>0, <2>1 DEF Family, Running
<1>5. Past'
  <2>1. ASSUME NEW who \in Identities, who.start <= born, Listed(who)'
        PROVE  Listed(who)
    <3>1. who.pid \in Pids /\ who.start \in Nat
      BY AgentWalkAssumption DEF Identities
    <3>2. who.pid # q
      BY <1>1, <1>2, <2>1, <3>1 DEF Listed
    <3> QED
      BY <1>2, <2>1, <3>1, <3>2 DEF Listed
  <2> QED
    BY <1>0, <1>1, <2>1, PastStays DEF IInv
<1>6. Lineage'
  <2>1. ASSUME changed' # "reused"
        PROVE  changed # "reused" /\ \A a \in ancestry : a.pid \in Pids \ {q}
    BY <1>0, <1>1, <2>1 DEF Types, Identities
  <2>2. ASSUME changed' # "reused", NEW a \in ancestry, table'[a.pid] # NoProcess
        PROVE  Named(a.pid)' = a /\ table'[a.pid].parent \in AncestorPids \cup {Pid1}
    <3>1. table'[a.pid] = table[a.pid]
      BY <1>2, <2>1, <2>2
    <3> QED
      BY <2>1, <2>2, <3>1 DEF IInv, Lineage, Named
  <2> QED
    BY <1>0, <2>1, <2>2, LineageStays DEF IInv
<1>7. Undisturbed'
  <2>1. changed' = "no" => changed = "no" /\ \A a \in ancestry : a.pid # q
    BY <1>0
  <2>2. ASSUME changed' = "no", at # "idle", NEW r \in Pids, r = peer.pid
        PROVE  \A s \in Ancestors(r) : table'[s] = table[s]
    BY <1>2, <2>1, <2>2, PeerAncestors
  <2> QED
    BY <1>0, <1>3, <2>1, <2>2, UndisturbedStays DEF Types
<1> QED
  BY <1>3, <1>4, <1>5, <1>6, <1>7 DEF IInv

LEMMA ExecKeeps ==
    ASSUME IInv, NEW p \in Pids, NEW x \in Executables, Exec(p, x)
    PROVE  IInv'
<1>0. /\ Running(p) /\ table' = [table EXCEPT ![p].exe = x] /\ Disturb({p})
      /\ agents' = agents \cup RunAgents(table')
      /\ UNCHANGED <<born, peer, reading, answers, ancestry, nearest, gone>>
  BY DEF Exec
<1>1. /\ Types /\ TypeOK /\ table \in [Pids -> Processes \cup {NoProcess}]
      /\ born \in Nat /\ born' \in 0..MaxBorn
  BY <1>0, TableParts
<1>2. /\ table[p] \in Processes /\ table'[p] \in Processes
      /\ table'[p] = [table[p] EXCEPT !.exe = x]
      /\ \A r \in Pids \ {p} : table'[r] = table[r]
      /\ table' \in [Pids -> Processes \cup {NoProcess}]
  <2>1. table[p] \in Processes
    BY <1>0, <1>1 DEF Running
  <2>2. [table[p] EXCEPT !.exe = x] \in Processes
    BY <2>1 DEF Processes
  <2> QED
    BY <1>0, <1>1, <2>1, <2>2
<1>3. \A r \in Pids :
         /\ table'[r] # NoProcess <=> table[r] # NoProcess
         /\ table[r] # NoProcess =>
               /\ table'[r].start = table[r].start /\ table'[r].parent = table[r].parent
               /\ table'[r].uid = table[r].uid /\ table'[r].ended = table[r].ended
  <2>1. table'[p] # NoProcess /\ table[p] # NoProcess
    BY <1>2, AgentWalkAssumption
  <2>2. /\ table'[p].start = table[p].start /\ table'[p].parent = table[p].parent
        /\ table'[p].uid = table[p].uid /\ table'[p].ended = table[p].ended
    BY <1>2 DEF Processes
  <2> QED
    BY <1>2, <2>1, <2>2
<1> QED
  BY <1>0, <1>1, <1>2, <1>3, SameProcessesKeep DEF IInv

LEMMA ReplaceKeeps ==
    ASSUME IInv, NEW x \in Executables, Replace(x)
    PROVE  IInv'
<1> DEFINE users == {p \in Pids : Running(p) /\ table[p].exe = x}
<1>0. /\ table' = [p \in Pids |-> IF p \in users THEN [table[p] EXCEPT !.exe = NoFile]
                                 ELSE table[p]]
      /\ Disturb(users)
      /\ UNCHANGED <<born, peer, reading, answers, ancestry, nearest, agents, gone>>
  BY DEF Replace
<1>1. Types /\ TypeOK /\ Family /\ table \in [Pids -> Processes \cup {NoProcess}]
  BY TableParts
<1>2. ASSUME NEW p \in users
      PROVE  /\ table[p] \in Processes /\ table'[p] \in Processes
             /\ table'[p] = [table[p] EXCEPT !.exe = NoFile]
  <2>1. table[p] \in Processes
    BY <1>1 DEF Running
  <2>2. [table[p] EXCEPT !.exe = NoFile] \in Processes
    BY <2>1 DEF Processes
  <2> QED
    BY <1>0, <2>1, <2>2
<1>3. users \in SUBSET Pids /\ \A p \in Pids \ users : table'[p] = table[p]
  BY <1>0
<1> HIDE DEF users
<1>4. \A r \in Pids :
         /\ table'[r] # NoProcess <=> table[r] # NoProcess
         /\ table[r] # NoProcess =>
               /\ table'[r].start = table[r].start /\ table'[r].parent = table[r].parent
               /\ table'[r].uid = table[r].uid /\ table'[r].ended = table[r].ended
  <2>1. ASSUME NEW r \in users
        PROVE  /\ table'[r] # NoProcess /\ table[r] # NoProcess
               /\ table'[r].start = table[r].start /\ table'[r].parent = table[r].parent
               /\ table'[r].uid = table[r].uid /\ table'[r].ended = table[r].ended
    <3>1. /\ table'[r].start = table[r].start /\ table'[r].parent = table[r].parent
          /\ table'[r].uid = table[r].uid /\ table'[r].ended = table[r].ended
      BY <1>2 DEF Processes
    <3>2. NoProcess \notin Processes
      BY AgentWalkAssumption
    <3> QED
      BY <1>2, <3>1, <3>2
  <2> QED
    BY <1>3, <2>1
<1>5. table' \in [Pids -> Processes \cup {NoProcess}]
  <2>1. \A r \in Pids : table'[r] \in Processes \cup {NoProcess}
    BY <1>1, <1>2, <1>3
  <2> QED
    BY <1>0, <2>1
<1>6. RunAgents(table') \subseteq agents'
  <2> SUFFICES ASSUME NEW r \in Pids, table'[r] # NoProcess, table'[r].exe \in Agents
               PROVE  table'[r].start \in agents'
    BY DEF RunAgents
  <2>1. r \notin users
    BY <1>2, AgentWalkAssumption DEF Processes
  <2> QED
    BY <1>0, <1>1, <1>3, <2>1 DEF Family, RunAgents
<1> QED
  BY <1>0, <1>3, <1>4, <1>5, <1>6, SameProcessesKeep

LEMMA ReapKeeps ==
    ASSUME IInv, NEW p \in Pids, Reap(p)
    PROVE  IInv'
<1>0. /\ table[p] # NoProcess /\ ~Running(p) /\ table' = [table EXCEPT ![p] = NoProcess]
      /\ UNCHANGED <<born, peer, reading, answers, history>>
  BY DEF Reap
<1>1. /\ Types /\ TypeOK /\ Family /\ table \in [Pids -> Processes \cup {NoProcess}]
      /\ born \in Nat /\ born' \in Nat /\ born' \in 0..MaxBorn
  BY <1>0, TableParts
<1>2. /\ table'[p] = NoProcess /\ \A r \in Pids \ {p} : table'[r] = table[r]
      /\ table' \in [Pids -> Processes \cup {NoProcess}]
  BY <1>0, <1>1
<1>3. Types'
  BY <1>0, <1>1, <1>2, TypesStay DEF history
<1>4. Family'
  <2>1. ASSUME NEW r \in Pids, table'[r] # NoProcess
        PROVE  /\ table'[r].start <= born'
               /\ table'[r].parent # Pid1 =>
                     \E up \in Pids : /\ up = table'[r].parent /\ Running(up)'
                                      /\ table'[up].start < table'[r].start
    <3>1. table'[r] = table[r] /\ table[r] # NoProcess /\ table[r].start <= born
      BY <1>1, <1>2, <2>1 DEF Family
    <3>2. ASSUME NEW up, up = table[r].parent, up # Pid1
          PROVE  up \in Pids \ {p} /\ Running(up) /\ table[up].start < table[r].start
      BY <1>0, <1>1, <3>1, <3>2 DEF Family, Running
    <3> QED
      BY <1>0, <1>2, <2>1, <3>1, <3>2 DEF Running
  <2>2. RunAgents(table') \subseteq agents'
    BY <1>0, <1>1, <1>2 DEF RunAgents, Family, history
  <2> QED
    BY <2>1, <2>2 DEF Family, Running
<1>5. Past'
  <2>1. ASSUME NEW who \in Identities, who.start <= born, Listed(who)'
        PROVE  Listed(who)
    BY <1>2, <2>1 DEF Listed, Identities
  <2> QED
    BY <1>0, <1>1, <2>1, PastStays DEF IInv, history
<1>6. Lineage'
  <2>1. ASSUME changed' # "reused", NEW a \in ancestry, table'[a.pid] # NoProcess
        PROVE  Named(a.pid)' = a /\ table'[a.pid].parent \in AncestorPids \cup {Pid1}
    <3>1. a.pid \in Pids
      BY <1>1 DEF Types, Identities
    <3>2. table'[a.pid] = table[a.pid] /\ changed # "reused"
      BY <1>0, <1>2, <2>1, <3>1 DEF history
    <3>3. /\ Named(a.pid) = a /\ table[a.pid].parent \in AncestorPids \cup {Pid1}
      BY <2>1, <3>1, <3>2 DEF IInv, Lineage
    <3> QED
      BY <3>2, <3>3 DEF Named
  <2> QED
    BY <1>0, <2>1, LineageStays DEF IInv, history
<1>7. Undisturbed'
  <2>1. ASSUME changed = "no", at # "idle", NEW r \in Pids, r = peer.pid
        PROVE  \A s \in Ancestors(r) : table'[s] = table[s]
    BY <1>0, <1>2, <2>1, PeerAncestors
  <2> QED
    BY <1>0, <1>3, <2>1, UndisturbedStays DEF Types, history
<1> QED
  BY <1>3, <1>4, <1>5, <1>6, <1>7 DEF IInv

LEMMA ExitKeeps ==
    ASSUME IInv, NEW p \in Pids, NEW reaper \in Pids \cup {Pid1}, Exit(p, reaper)
    PROVE  IInv'
<1> DEFINE Child(r) == r # p /\ table[r] # NoProcess /\ table[r].parent = p
<1>0. /\ Running(p) /\ reaper \in {Pid1} \cup (Ancestors(p) \ {p})
      /\ table' = [q \in Pids |->
                      IF q = p THEN [table[p] EXCEPT !.ended = TRUE, !.exe = NoFile]
                      ELSE IF table[q] # NoProcess /\ table[q].parent = p
                      THEN [table[q] EXCEPT !.parent = reaper]
                      ELSE table[q]]
      /\ Disturb({p})
      /\ UNCHANGED <<born, peer, reading, answers, ancestry, nearest, agents, gone>>
  BY DEF Exit
<1>1. /\ Types /\ TypeOK /\ Family /\ table \in [Pids -> Processes \cup {NoProcess}]
      /\ born \in Nat /\ born' \in Nat /\ born' \in 0..MaxBorn
  BY <1>0, TableParts
<1>2. /\ table[p] # NoProcess /\ table'[p] \in Processes /\ table'[p] # NoProcess
      /\ table'[p].exe = NoFile /\ table'[p].start = table[p].start
      /\ table'[p].uid = table[p].uid /\ table'[p].parent = table[p].parent
  <2>1. table[p] \in Processes /\ table[p] # NoProcess
    BY <1>0, <1>1 DEF Running
  <2>2. table'[p] = [table[p] EXCEPT !.ended = TRUE, !.exe = NoFile]
    BY <1>0
  <2>3. table'[p] \in Processes
    BY <2>1, <2>2 DEF Processes
  <2> QED
    BY <2>1, <2>2, <2>3, AgentWalkAssumption DEF Processes
<1>3. ASSUME NEW r \in Pids, Child(r)
      PROVE  /\ table'[r] \in Processes /\ table'[r] # NoProcess
             /\ table'[r].start = table[r].start /\ table'[r].uid = table[r].uid
             /\ table'[r].exe = table[r].exe /\ table'[r].ended = table[r].ended
             /\ table'[r].parent = reaper
  <2>1. table[r] \in Processes
    BY <1>1, <1>3
  <2>2. table'[r] = [table[r] EXCEPT !.parent = reaper]
    BY <1>0, <1>3
  <2>3. table'[r] \in Processes
    BY <2>1, <2>2 DEF Processes
  <2> QED
    BY <2>1, <2>2, <2>3, AgentWalkAssumption DEF Processes
<1>4. \A r \in Pids : r # p /\ ~Child(r) => table'[r] = table[r]
  BY <1>0
<1>5. table' \in [Pids -> Processes \cup {NoProcess}]
  <2>1. \A r \in Pids : table'[r] \in Processes \cup {NoProcess}
    BY <1>1, <1>2, <1>3, <1>4
  <2> QED
    BY <1>0, <2>1
\* Nobody comes or goes, and others than p run as before.
<1>6. ASSUME NEW r \in Pids
      PROVE  /\ table'[r] # NoProcess <=> table[r] # NoProcess
             /\ table[r] # NoProcess =>
                   /\ table'[r].start = table[r].start /\ table'[r].uid = table[r].uid
                   /\ r # p => table'[r].exe = table[r].exe /\ table'[r].ended = table[r].ended
                   /\ table'[r].parent = IF Child(r) THEN reaper ELSE table[r].parent
  BY <1>2, <1>3, <1>4
<1> HIDE DEF Child
<1>7. Types'
  <2>1. changed' = changed \/ (ancestry # {} /\ changed' \in {"changed", "reused"})
    BY <1>0, DisturbNotes
  <2> QED
    BY <1>0, <1>1, <1>5, <2>1, TypesStay
<1>8. Family'
  <2>1. reaper # Pid1 => /\ reaper \in Pids \ {p} /\ Running(reaper)
                         /\ table[reaper].start <= table[p].start
                         /\ table[reaper].start \in Nat /\ table[p].start \in Nat
    BY <1>0, <1>1, AncestorsRun, EntryParts DEF Running
  <2>2. ASSUME NEW r \in Pids, table'[r] # NoProcess
        PROVE  /\ table'[r].start <= born'
               /\ table'[r].parent # Pid1 =>
                     \E up \in Pids : /\ up = table'[r].parent /\ Running(up)'
                                      /\ table'[up].start < table'[r].start
    <3>1. table[r] # NoProcess /\ table[r].start <= born /\ table[r].start \in Nat
      BY <1>1, <1>6, <2>2, EntryParts DEF Family
    <3>2. ASSUME NEW up, up = table'[r].parent, up # Pid1
          PROVE  up \in Pids \ {p} /\ Running(up) /\ table[up].start < table[r].start
      <4>1. CASE Child(r)
        <5>1. table[p].start < table[r].start /\ up = reaper
          BY <1>1, <1>6, <3>1, <3>2, <4>1, AgentWalkAssumption DEF Child, Family
        <5>2. up \in Pids \ {p} /\ Running(up) /\ table[up].start <= table[p].start
              /\ table[up].start \in Nat /\ table[p].start \in Nat
          BY <2>1, <3>2, <5>1
        <5> QED
          BY <3>1, <5>1, <5>2
      <4>2. CASE ~Child(r)
        <5>1. up = table[r].parent
          BY <1>6, <3>1, <3>2, <4>2
        <5>2. Running(up) /\ table[up].start < table[r].start
          BY <1>1, <3>1, <3>2, <5>1 DEF Family
        <5>3. r = p => up # p
          BY <1>1, <3>1, <5>2
        <5> QED
          BY <3>1, <4>2, <5>1, <5>2, <5>3 DEF Child, Running
      <4> QED
        BY <4>1, <4>2
    <3>3. ASSUME NEW up, up = table'[r].parent, up # Pid1
          PROVE  Running(up)' /\ table'[up].start = table[up].start
      BY <1>6, <3>2, <3>3 DEF Running
    <3>4. table'[r].start = table[r].start /\ born' = born
      BY <1>0, <1>6, <3>1
    <3>5. ASSUME table'[r].parent # Pid1
          PROVE  \E up \in Pids : /\ up = table'[r].parent /\ Running(up)'
                                  /\ table'[up].start < table'[r].start
      <4>1. PICK up : up = table'[r].parent
        OBVIOUS
      <4> QED
        BY <3>2, <3>3, <3>4, <3>5, <4>1
    <3> QED
      BY <3>1, <3>4, <3>5
  <2>3. RunAgents(table') \subseteq agents'
    <3> SUFFICES ASSUME NEW r \in Pids, table'[r] # NoProcess, table'[r].exe \in Agents
                 PROVE  table'[r].start \in agents'
      BY DEF RunAgents
    <3>1. r # p
      BY <1>2, AgentWalkAssumption
    <3> QED
      BY <1>0, <1>1, <1>6, <3>1 DEF Family, RunAgents
  <2> QED
    BY <2>2, <2>3 DEF Family, Running
<1>9. Past'
  <2>1. ASSUME NEW who \in Identities, who.start <= born, Listed(who)'
        PROVE  Listed(who)
    <3>1. who.pid \in Pids
      BY DEF Identities
    <3> QED
      BY <1>6, <2>1, <3>1 DEF Listed
  <2> QED
    BY <1>0, <1>1, <2>1, PastStays DEF IInv
<1>10. Lineage'
  <2>1. changed' # "reused" => changed # "reused"
    BY <1>0, DisturbNotes
  <2>2. ASSUME changed # "reused", p \in AncestorPids
        PROVE  reaper \in AncestorPids \cup {Pid1}
    <3>1. AncestorPids \in SUBSET Pids
      BY <1>1 DEF Types, Identities, AncestorPids
    <3>2. \A s \in AncestorPids : table[s] # NoProcess => table[s].parent \in AncestorPids \cup {Pid1}
      BY <2>2 DEF IInv, Lineage, AncestorPids
    <3>3. Ancestors(p) \subseteq AncestorPids
      BY <1>1, <2>2, <3>1, <3>2, AncestorsLeast
    <3> QED
      BY <1>0, <3>3
  <2>3. ASSUME changed' # "reused", NEW a \in ancestry, table'[a.pid] # NoProcess
        PROVE  Named(a.pid)' = a /\ table'[a.pid].parent \in AncestorPids \cup {Pid1}
    <3>1. a.pid \in Pids
      BY <1>1 DEF Types, Identities
    <3>2. table[a.pid] # NoProcess
      BY <1>6, <2>3, <3>1
    <3>3. /\ Named(a.pid) = a /\ table[a.pid].parent \in AncestorPids \cup {Pid1}
      BY <2>1, <2>3, <3>1, <3>2 DEF IInv, Lineage
    <3>4. Child(a.pid) => p \in AncestorPids
      BY <3>3, AgentWalkAssumption DEF Child
    <3>5. table'[a.pid].parent \in AncestorPids \cup {Pid1}
      BY <1>6, <2>1, <2>2, <2>3, <3>1, <3>2, <3>3, <3>4
    <3> QED
      BY <1>6, <3>1, <3>2, <3>3, <3>5 DEF Named
  <2> QED
    BY <1>0, <2>1, <2>3, LineageStays DEF IInv
<1>11. Undisturbed'
  <2>1. changed' = "no" => changed = "no" /\ Named(p) \notin ancestry
    BY <1>0, DisturbNotes
  <2>2. ASSUME changed' = "no", at # "idle", NEW r \in Pids, r = peer.pid
        PROVE  \A s \in Ancestors(r) : table'[s] = table[s]
    <3>1. \A s \in Ancestors(r) : s \in Pids /\ Named(s) \in ancestry
      BY <2>1, <2>2, PeerAncestors
    <3>2. p \notin Ancestors(r)
      BY <2>1, <2>2, <3>1
    <3>3. \A s \in Ancestors(r) : table[s].parent # p
      BY <2>1, <2>2, <3>2, PeerAncestors, AgentWalkAssumption
    <3> QED
      BY <1>4, <3>1, <3>2, <3>3 DEF Child
  <2> QED
    BY <1>0, <1>7, <2>1, <2>2, UndisturbedStays DEF Types
<1> QED
  BY <1>7, <1>8, <1>9, <1>10, <1>11 DEF IInv

-----------------------------------------------------------------------------
(* What the daemon does keeps the invariant.                               *)

\* Nobody is an ancestor of another ancestor of his.
LEMMA AncestorsAntisymmetric ==
    ASSUME TypeOK, Family, NEW p \in Pids, Running(p), NEW q \in Ancestors(p), q # p
    PROVE  p \notin Ancestors(q)
<1>1. /\ table[p].parent # Pid1
      /\ q \in Ancestors(table[p].parent) /\ p \notin Ancestors(table[p].parent)
  BY AncestorsOneUp
<1>2. table[p].parent \in Pids
  BY <1>1, EntryParts DEF Running
<1> QED
  BY <1>1, <1>2, AncestorsTransitive

\* Once the climb has come to c, an agent that is found first is c or further up.
LEMMA FirstIsUp ==
    ASSUME TypeOK, Family, NEW p \in Pids, Running(p), NEW u, NEW c \in Ancestors(p),
           \A m \in Ancestors(p) \ Ancestors(c) : ~AgentAt(m, u),
           NEW q \in FirstAgents(p, u), q # c
    PROVE  /\ ~AgentAt(c, u) /\ table[c].exe # NoFile
           /\ table[c].parent # Pid1 /\ q \in Ancestors(table[c].parent)
<1>1. /\ q \in Ancestors(p) /\ AgentAt(q, u)
      /\ \A m \in Ancestors(p) \ Ancestors(q) : ~AgentAt(m, u) /\ table[m].exe # NoFile
  BY DEF FirstAgents
<1>2. q \in Ancestors(c)
  BY <1>1
<1>3. c \in Pids /\ q \in Pids /\ Running(c)
  BY <1>1, AncestorsTransitive, AncestorsRun
<1>4. c \notin Ancestors(q)
  BY <1>2, <1>3, AncestorsAntisymmetric
<1> QED
  BY <1>1, <1>2, <1>3, <1>4, AncestorsOneUp

\* What the climb has passed when it has come to c, and what the next step adds.
LEMMA ClimbParts ==
    ASSUME IInv, changed = "no", Reading, op = "find",
           NEW p \in Pids, NEW u \in Users, peer = [pid |-> p, uid |-> u],
           NEW c \in Pids, c = pid
    PROVE  /\ UndisturbedOf(p, u) /\ ClimbedTo(c, p, u) /\ Running(p) /\ Running(c)
           /\ IsFiniteSet(seen) /\ IsFiniteSet(Ancestors(p))
           /\ Cardinality(seen) = Cardinality(Ancestors(p) \ Ancestors(c)) + 1
           /\ Cardinality(Ancestors(p) \ Ancestors(c)) \in Nat
           /\ \A m \in Ancestors(p) \ Ancestors(c) : ~AgentAt(m, u) /\ table[m].exe # NoFile
           /\ table[c].parent # Pid1 =>
                 /\ table[c].parent \in Ancestors(p) /\ table[c].parent \in Pids
                 /\ seen = Ancestors(p) \ Ancestors(table[c].parent)
                 /\ table[c].parent \notin seen
<1>1. TypeOK /\ Family /\ at # "idle"
  BY DEF IInv, Types, Reading
<1>2. UndisturbedOf(p, u)
  BY <1>1 DEF IInv, Undisturbed
<1>3. ClimbedTo(c, p, u) /\ Running(p)
  BY <1>2 DEF UndisturbedOf
<1>4. /\ c \in Ancestors(p) /\ seen = (Ancestors(p) \ Ancestors(c)) \cup {c}
      /\ \A m \in seen \ {c} : ~AgentAt(m, u) /\ table[m].exe # NoFile
  BY <1>3 DEF ClimbedTo
<1>5. c \in Ancestors(c) /\ Running(c) /\ Ancestors(p) \in SUBSET Pids
  BY <1>1, <1>3, <1>4, AncestorsLeast, AncestorsRun
<1>6. IsFiniteSet(Ancestors(p)) /\ IsFiniteSet(Ancestors(p) \ Ancestors(c))
  BY <1>5, FS_Subset, FS_Difference, AgentWalkAssumption
<1>7. /\ IsFiniteSet(seen) /\ Cardinality(seen) = Cardinality(Ancestors(p) \ Ancestors(c)) + 1
      /\ Cardinality(Ancestors(p) \ Ancestors(c)) \in Nat
  BY <1>4, <1>5, <1>6, FS_AddElement, FS_CardinalityType
<1>8. ASSUME table[c].parent # Pid1
      PROVE  /\ table[c].parent \in Ancestors(p) /\ table[c].parent \in Pids
             /\ seen = Ancestors(p) \ Ancestors(table[c].parent)
             /\ table[c].parent \notin seen
  <2>1. /\ Ancestors(c) = {c} \cup Ancestors(table[c].parent)
        /\ c \notin Ancestors(table[c].parent)
    BY <1>1, <1>5, <1>8, AncestorsOneUp
  <2>2. table[c].parent \in Pids /\ table[c].parent \in Ancestors(p)
    BY <1>1, <1>4, <1>5, <1>8, AncestorsLeast DEF Running
  <2>3. table[c].parent \in Ancestors(table[c].parent)
    BY <1>1, <2>2, AncestorsLeast
  <2> QED
    BY <1>4, <2>1, <2>2, <2>3
<1> QED
  BY <1>2, <1>3, <1>4, <1>5, <1>6, <1>7, <1>8

\* Steps of the daemon change no process.
LEMMA FamilyStays ==
    ASSUME Family, UNCHANGED <<system, agents>>
    PROVE  Family'
BY DEF Family, Running, RunAgents, system

\* The types, once somebody has connected.
LEMMA TypesAre ==
    ASSUME IInv, UNCHANGED <<system, changed, ancestry>>,
           peer' \in [pid : Pids, uid : Users], op' \in {"find", "alive"},
           at' \in {"stat", "status", "exe", "found", "refused"},
           Reading' => pid' \in Pids, seen' \subseteq Pids,
           item' = Nobody \/ item' \in Stats \/ item' \in Items,
           at' = "status" => item' \in Stats, at' = "exe" => item' \in Items,
           identity' = Nobody \/ identity' \in Identities, verdict' \in {"", "alive", "dead"},
           at' = "found" \/ op' = "alive" => identity' \in Identities,
           Reading' /\ op' = "alive" => pid' = identity'.pid,
           Reading' /\ op' = "find" => identity' = Nobody
    PROVE  Types'
<1>1. Types /\ table' \in [Pids -> Processes \cup {NoProcess}] /\ born' \in 0..MaxBorn
  BY TableParts DEF system
<1>2. changed' \in {"no", "changed", "reused"} /\ ancestry' \subseteq Identities
  BY <1>1 DEF Types
<1>3. TypeOK'
  BY <1>1 DEF TypeOK, Reading, Items
<1> QED
  BY <1>2, <1>3 DEF Types

\* What is known while /proc/pid is read.
LEMMA ReadingParts ==
    ASSUME IInv, Reading
    PROVE  /\ peer \in [pid : Pids, uid : Users] /\ op \in {"find", "alive"} /\ pid \in Pids
           /\ seen \subseteq Pids /\ verdict \in {"", "alive", "dead"}
           /\ item = Nobody \/ item \in Stats \/ item \in Items
           /\ at = "status" => item \in Stats
           /\ at = "exe" => item \in Items
           /\ at \in {"status", "exe"} => item.start \in Nat
           /\ op = "find" => identity = Nobody
           /\ op = "alive" => identity # Nobody /\ identity \in Identities /\ pid = identity.pid
           /\ TypeOK /\ at # "idle" /\ at # "found" /\ at # "refused"
<1>1. Types /\ TypeOK /\ at # "idle" /\ at # "found" /\ at # "refused"
  BY DEF IInv, Types, Reading
<1>2. /\ peer \in [pid : Pids, uid : Users] /\ op \in {"find", "alive"} /\ pid \in Pids
      /\ seen \subseteq Pids /\ verdict \in {"", "alive", "dead"}
      /\ item = Nobody \/ item \in Stats \/ item \in Items
  BY <1>1 DEF Types, TypeOK, Reading, Items
<1>3. /\ at = "status" => item \in Stats
      /\ at = "exe" => item \in Items
      /\ op = "find" => identity = Nobody
      /\ op = "alive" => identity \in Identities /\ pid = identity.pid
  BY <1>1 DEF Types
<1>4. at \in {"status", "exe"} => item.start \in Nat
  BY <1>3, AgentWalkAssumption DEF Stats, Items
<1> QED
  BY <1>1, <1>2, <1>3, <1>4, AgentWalkAssumption

\* What is said of the processes stays true while they do nothing.
LEMMA SameTable ==
    ASSUME UNCHANGED table, NEW p, NEW u
    PROVE  /\ Running(p)' = Running(p) /\ Named(p)' = Named(p) /\ AgentAt(p, u)' = AgentAt(p, u)
           /\ Ancestors(p)' = Ancestors(p) /\ NearestAgent(p, u)' = NearestAgent(p, u)
BY DEF Running, Named, AgentAt, Ancestors, NearestAgent

LEMMA UndisturbedIs ==
    ASSUME IInv, at # "idle", UNCHANGED <<system, peer, ancestry, nearest, changed>>,
           \A p \in Pids, u \in Users :
               changed = "no" /\ peer = [pid |-> p, uid |-> u] /\ UndisturbedOf(p, u) =>
                   /\ Reading' /\ op' = "find" => \A c \in Pids : c = pid' => ClimbedTo(c, p, u)'
                   /\ ~Reading' \/ op' = "alive" => identity' = NearestAgent(p, u)
    PROVE  Undisturbed'
<1> SUFFICES ASSUME changed = "no", NEW p \in Pids, NEW u \in Users,
                    peer = [pid |-> p, uid |-> u]
             PROVE  UndisturbedOf(p, u)'
  BY DEF Undisturbed
<1>1. UndisturbedOf(p, u)
  BY DEF IInv, Undisturbed
<1>2. Running(p) /\ ancestry = {Named(q) : q \in Ancestors(p)} /\ nearest = NearestAgent(p, u)
  BY <1>1 DEF UndisturbedOf
<1>3. Running(p)' /\ nearest' = NearestAgent(p, u) /\ NearestAgent(p, u)' = NearestAgent(p, u)
  BY <1>2, SameTable DEF system
<1>4. (ancestry = {Named(q) : q \in Ancestors(p)})'
  BY <1>2, SameTable DEF system
<1> QED
  BY <1>1, <1>3, <1>4 DEF UndisturbedOf

LEMMA ReadStatKeeps ==
    ASSUME IInv, ReadStat
    PROVE  IInv'
<1>0. /\ at = "stat" /\ table[pid] # NoProcess
      /\ item' = [start |-> table[pid].start, parent |-> table[pid].parent]
      /\ at' = "status"
      /\ UNCHANGED <<system, peer, op, pid, seen, answers, history>>
  BY DEF ReadStat, Readable
<1>1. Reading /\ Reading' /\ Family /\ TypeOK
  BY <1>0, TableParts DEF Reading
<1>2. PICK c \in Pids : c = pid
  BY <1>1, ReadingParts
<1>3. table[c].start <= born /\ item' \in Stats
  BY <1>0, <1>1, <1>2, EntryParts DEF Family, Stats
<1>4. Types'
  BY <1>0, <1>1, <1>2, <1>3, ReadingParts, TypesAre DEF answers, history
<1>5. Family'
  BY <1>0, <1>1, FamilyStays DEF history
<1>6. Past'
  <2>1. ASSUME op = "alive", table[c].start = identity.start
        PROVE  ~gone /\ identity.start \in agents
    BY <1>0, <1>1, <1>2, <2>1, ReadingParts DEF IInv, Past, Listed
  <2> QED
    BY <1>0, <1>2, <1>3, <2>1 DEF IInv, Past, AliveIsTheAgent, Listed, system, answers, history
<1>7. Lineage'
  <2>1. ASSUME changed # "reused", op = "find"
        PROVE  /\ c \in AncestorPids /\ table[c].parent \in AncestorPids \cup {Pid1}
               /\ \E a \in ancestry : a.pid = c /\ a.start = table[c].start
    <3>1. PICK a \in ancestry : a.pid = c
      BY <1>1, <1>2, <2>1 DEF IInv, Lineage, AncestorPids
    <3> QED
      BY <1>0, <1>2, <2>1, <3>1 DEF IInv, Lineage, AncestorPids, Named
  <2>2. AncestorPids' = AncestorPids /\ table' = table
    BY <1>0 DEF AncestorPids, history, system
  <2> QED
    BY <1>0, <1>1, <1>2, <2>1, <2>2 DEF IInv, Lineage, Named, answers, history
<1>8. Undisturbed'
  <2>1. ASSUME NEW p \in Pids, NEW u \in Users, UndisturbedOf(p, u), op = "find"
        PROVE  ClimbedTo(c, p, u)'
    <3>1. ClimbedTo(c, p, u)
      BY <1>1, <1>2, <2>1 DEF UndisturbedOf
    <3> QED
      BY <1>0, <1>2, <3>1, SameTable DEF ClimbedTo, system
  <2>2. ASSUME NEW p \in Pids, NEW u \in Users, UndisturbedOf(p, u), op = "alive"
        PROVE  identity' = NearestAgent(p, u)
    BY <1>0, <2>2 DEF UndisturbedOf, answers
  <2> QED
    BY <1>0, <1>1, <1>2, <2>1, <2>2, UndisturbedIs, ReadingParts DEF history
<1> QED
  BY <1>4, <1>5, <1>6, <1>7, <1>8 DEF IInv

LEMMA ReadStatusKeeps ==
    ASSUME IInv, ReadStatus
    PROVE  IInv'
<1>0. /\ at = "status" /\ table[pid] # NoProcess
      /\ item' = [start |-> item.start, parent |-> item.parent, uid |-> table[pid].uid]
      /\ at' = "exe"
      /\ UNCHANGED <<system, peer, op, pid, seen, answers, history>>
  BY DEF ReadStatus, Readable
<1>1. Reading /\ Reading' /\ Family /\ TypeOK
  BY <1>0, TableParts DEF Reading
<1>2. PICK c \in Pids : c = pid
  BY <1>1, ReadingParts
<1>3. item' \in Items
  BY <1>0, <1>1, <1>2, EntryParts, ReadingParts DEF Stats, Items
<1>4. Types'
  BY <1>0, <1>1, <1>2, <1>3, ReadingParts, TypesAre DEF answers, history
<1>5. Family'
  BY <1>0, <1>1, FamilyStays DEF history
<1>6. Past'
  BY <1>0 DEF IInv, Past, AliveIsTheAgent, Listed, system, answers, history
<1>7. Lineage'
  <2>1. ASSUME changed # "reused", op = "find"
        PROVE  /\ c \in AncestorPids /\ item.parent \in AncestorPids \cup {Pid1}
               /\ \E a \in ancestry : a.pid = c /\ a.start = item.start /\ a.uid = table[c].uid
    <3>1. PICK a \in ancestry : a.pid = c /\ a.start = item.start
      BY <1>0, <1>1, <1>2, <2>1 DEF IInv, Lineage
    <3>2. Named(c) = a
      BY <1>0, <1>2, <2>1, <3>1 DEF IInv, Lineage
    <3> QED
      BY <1>0, <1>1, <1>2, <2>1, <3>1, <3>2 DEF IInv, Lineage, AncestorPids, Named
  <2>2. AncestorPids' = AncestorPids /\ table' = table
    BY <1>0 DEF AncestorPids, history, system
  <2> QED
    BY <1>0, <1>1, <1>2, <2>1, <2>2 DEF IInv, Lineage, Named, answers, history
<1>8. Undisturbed'
  <2>1. ASSUME NEW p \in Pids, NEW u \in Users, UndisturbedOf(p, u), op = "find"
        PROVE  ClimbedTo(c, p, u)'
    <3>1. ClimbedTo(c, p, u)
      BY <1>1, <1>2, <2>1 DEF UndisturbedOf
    <3> QED
      BY <1>0, <1>2, <3>1, SameTable DEF ClimbedTo, system
  <2>2. ASSUME NEW p \in Pids, NEW u \in Users, UndisturbedOf(p, u), op = "alive"
        PROVE  identity' = NearestAgent(p, u)
    BY <1>0, <2>2 DEF UndisturbedOf, answers
  <2> QED
    BY <1>0, <1>1, <1>2, <2>1, <2>2, UndisturbedIs, ReadingParts DEF history
<1> QED
  BY <1>4, <1>5, <1>6, <1>7, <1>8 DEF IInv

LEMMA CallAliveKeeps ==
    ASSUME IInv, CallAlive
    PROVE  IInv'
<1>0. /\ at = "found" /\ op' = "alive" /\ at' = "stat" /\ pid' = identity.pid
      /\ gone' = ~Listed(identity)
      /\ UNCHANGED <<system, peer, seen, item, answers, ancestry, nearest, changed, agents>>
  BY DEF CallAlive
<1>1. /\ Types /\ TypeOK /\ ~Reading /\ Reading' /\ identity \in Identities
      /\ identity.pid \in Pids /\ identity # Nobody
  BY <1>0, TableParts, IdentityParts DEF Types, Reading
<1>2. /\ peer \in [pid : Pids, uid : Users] /\ seen \subseteq Pids
      /\ item = Nobody \/ item \in Stats \/ item \in Items
      /\ verdict \in {"", "alive", "dead"}
  BY <1>0, <1>1 DEF Types, TypeOK, Items
<1>4. Types'
  BY <1>0, <1>1, <1>2, TypesAre DEF answers
<1>5. Family'
  BY <1>0, FamilyStays DEF IInv
<1>6. Past'
  BY <1>0, <1>1 DEF IInv, Past, AliveIsTheAgent, Listed, system, answers
<1>7. Lineage'
  <2>1. AncestorPids' = AncestorPids /\ table' = table
    BY <1>0 DEF AncestorPids, system
  <2> QED
    BY <1>0, <2>1 DEF IInv, Lineage, Named, answers
<1>8. Undisturbed'
  <2>1. ASSUME NEW p \in Pids, NEW u \in Users, UndisturbedOf(p, u)
        PROVE  identity' = NearestAgent(p, u)
    BY <1>0, <1>1, <2>1 DEF UndisturbedOf, answers
  <2> QED
    BY <1>0, <1>1, <2>1, UndisturbedIs
<1> QED
  BY <1>4, <1>5, <1>6, <1>7, <1>8 DEF IInv

LEMMA AliveKeeps ==
    ASSUME IInv, Alive
    PROVE  IInv'
<1>0. /\ op = "alive" /\ at = "exe" /\ verdict' = IF SameIdentity THEN "alive" ELSE "dead"
      /\ at' = "found" /\ pid' = Pid1 /\ seen' = {} /\ item' = Nobody
      /\ UNCHANGED <<system, peer, op, identity, history>>
  BY DEF Alive, Returns
<1>1. Reading /\ ~Reading' /\ Family
  BY <1>0, TableParts DEF Reading
<1>4. Types'
  BY <1>0, <1>1, ReadingParts, TypesAre DEF history
<1>5. Family'
  BY <1>0, <1>1, FamilyStays DEF history
<1>6. Past'
  <2>1. SameIdentity => ~gone /\ identity.start \in agents
    BY <1>0 DEF IInv, Past, SameIdentity
  <2> QED
    BY <1>0, <2>1 DEF IInv, Past, AliveIsTheAgent, Listed, system, history
<1>7. Lineage'
  <2>1. AncestorPids' = AncestorPids /\ table' = table
    BY <1>0 DEF AncestorPids, system, history
  <2> QED
    BY <1>0, <1>1, <2>1 DEF IInv, Lineage, Named, history
<1>8. Undisturbed'
  <2>1. ASSUME NEW p \in Pids, NEW u \in Users, UndisturbedOf(p, u)
        PROVE  identity' = NearestAgent(p, u)
    BY <1>0, <1>1, <2>1 DEF UndisturbedOf
  <2> QED
    BY <1>0, <1>1, <2>1, UndisturbedIs DEF history
<1> QED
  BY <1>4, <1>5, <1>6, <1>7, <1>8 DEF IInv

\* If pid is no agent, nor readable or the last to be looked at, there is none to find.
LEMMA NoneIsFound ==
    ASSUME IInv, changed = "no", Reading, op = "find",
           NEW p \in Pids, NEW u \in Users, peer = [pid |-> p, uid |-> u],
           NEW c \in Pids, c = pid,
           \/ table[c].exe = NoFile
           \/ ~AgentAt(c, u) /\ (table[c].parent = Pid1 \/ Cardinality(seen) >= MaxDepth)
    PROVE  NearestAgent(p, u) = Nobody
<1> DEFINE up == table[c].parent
<1>1. /\ Running(p) /\ Running(c) /\ IsFiniteSet(seen) /\ IsFiniteSet(Ancestors(p))
      /\ ClimbedTo(c, p, u)
      /\ \A m \in Ancestors(p) \ Ancestors(c) : ~AgentAt(m, u) /\ table[m].exe # NoFile
      /\ up # Pid1 => up \in Pids /\ seen = Ancestors(p) \ Ancestors(up)
  BY ClimbParts
<1>2. TypeOK /\ Family /\ c \in Ancestors(p)
  BY <1>1, TableParts DEF ClimbedTo
<1>3. ASSUME NEW q \in FirstAgents(p, u)
      PROVE  FALSE
  <2>1. AgentAt(q, u) /\ Cardinality(Ancestors(p) \ Ancestors(q)) < MaxDepth
    BY DEF FirstAgents
  <2>2. q # c
    BY <2>1, AgentWalkAssumption DEF AgentAt
  <2>3. table[c].exe # NoFile /\ up # Pid1 /\ q \in Ancestors(up)
    BY <1>1, <1>2, <2>2, FirstIsUp
  <2>4. Cardinality(seen) >= MaxDepth /\ Ancestors(q) \subseteq Ancestors(up)
    BY <1>1, <1>2, <2>3, AncestorsTransitive
  <2>5. seen \subseteq Ancestors(p) \ Ancestors(q)
    BY <1>1, <2>3, <2>4
  <2>6. IsFiniteSet(Ancestors(p) \ Ancestors(q))
    BY <1>1, FS_Difference
  <2>7. /\ Cardinality(seen) <= Cardinality(Ancestors(p) \ Ancestors(q))
        /\ Cardinality(seen) \in Nat /\ Cardinality(Ancestors(p) \ Ancestors(q)) \in Nat
    BY <1>1, <2>5, <2>6, FS_Subset, FS_CardinalityType
  <2> QED
    BY <2>1, <2>4, <2>7, AgentWalkAssumption
<1> QED
  BY <1>3 DEF NearestAgent, FirstAgents

LEMMA FailsKeeps ==
    ASSUME IInv, Fails
    PROVE  IInv'
<1>0. /\ Reading /\ ~Readable
      /\ \/ op = "find" /\ at' = "refused" /\ verdict' = verdict
         \/ op = "alive" /\ at' = "found" /\ verdict' = "dead"
      /\ pid' = Pid1 /\ seen' = {} /\ item' = Nobody
      /\ UNCHANGED <<system, peer, op, identity, history>>
  BY DEF Fails, Returns, Reading
<1>1. ~Reading' /\ Family /\ op' = op /\ op \in {"find", "alive"}
  BY <1>0, TableParts DEF Reading
<1>4. Types'
  BY <1>0, <1>1, ReadingParts, TypesAre DEF history
<1>5. Family'
  BY <1>0, <1>1, FamilyStays DEF history
<1>6. Past'
  BY <1>0 DEF IInv, Past, AliveIsTheAgent, Listed, system, history
<1>7. Lineage'
  <2>1. AncestorPids' = AncestorPids /\ table' = table
    BY <1>0 DEF AncestorPids, system, history
  <2> QED
    BY <1>0, <1>1, <2>1 DEF IInv, Lineage, Named, history
<1>8. Undisturbed'
  <2>1. ASSUME NEW p \in Pids, NEW u \in Users, UndisturbedOf(p, u), changed = "no",
               peer = [pid |-> p, uid |-> u]
        PROVE  identity' = NearestAgent(p, u)
    <3>1. CASE op = "alive"
      BY <1>0, <2>1, <3>1 DEF UndisturbedOf
    <3>2. CASE op = "find"
      <4>1. PICK c \in Pids : c = pid
        BY <1>0, ReadingParts
      <4>2. Running(c)
        BY <1>0, <2>1, <3>2, <4>1, ClimbParts
      <4>3. table[c].exe = NoFile
        BY <1>0, <4>1, <4>2 DEF Readable, Running
      <4>4. NearestAgent(p, u) = Nobody
        BY <1>0, <2>1, <3>2, <4>1, <4>3, NoneIsFound
      <4> QED
        BY <1>0, <3>2, <4>4, ReadingParts
    <3> QED
      BY <1>1, <3>1, <3>2
  <2> QED
    BY <1>0, <1>1, <2>1, UndisturbedIs, ReadingParts DEF history
<1> QED
  BY <1>4, <1>5, <1>6, <1>7, <1>8 DEF IInv

\* FindAgent finds an agent.
LEMMA FindsKeeps ==
    ASSUME IInv, op = "find", at = "exe", Readable, IsAgent(table[pid].exe),
           identity' = [pid |-> pid, uid |-> item.uid, start |-> item.start],
           Returns("found"), UNCHANGED <<system, peer, op, verdict, history>>
    PROVE  IInv'
<1>0. /\ Reading /\ ~Reading' /\ Family /\ TypeOK /\ at' = "found" /\ item' = Nobody
      /\ pid' = Pid1 /\ seen' = {}
  BY TableParts DEF Returns, Reading
<1>1. PICK c \in Pids : c = pid
  BY <1>0, ReadingParts
<1>2. /\ item \in Items /\ identity' \in Identities /\ identity' # Nobody
      /\ table[c] # NoProcess /\ table[c].exe \in Agents /\ item.uid = peer.uid
  <2>1. /\ item \in Items /\ table[c] # NoProcess /\ table[c].exe \in Agents
        /\ item.uid = peer.uid
    BY <1>0, <1>1, ReadingParts DEF IsAgent, Readable
  <2>2. identity' \in Identities
    BY <1>1, <2>1 DEF Items, Identities
  <2> QED
    BY <2>1, <2>2, AgentWalkAssumption
<1>3. table[c].start \in agents
  BY <1>0, <1>2 DEF Family, RunAgents
<1>4. Types'
  BY <1>0, <1>2, ReadingParts, TypesAre DEF history
<1>5. Family'
  BY <1>0, FamilyStays DEF history
<1>6. Past'
  <2>1. identity'.start <= born /\ identity'.pid = c /\ ~gone
    BY <1>0, <1>1 DEF IInv, Past
  <2>2. table[c].start = identity'.start => identity'.start \in agents
    BY <1>3
  <2>3. table' = table /\ born' = born /\ agents' = agents /\ gone' = gone /\ op' = op
    BY DEF system, history
  <2>4. verdict' # "alive"
    BY DEF IInv, Past
  <2> QED
    BY <1>0, <2>1, <2>2, <2>3, <2>4 DEF Past, AliveIsTheAgent, Listed
<1>7. Lineage'
  <2>1. AncestorPids' = AncestorPids /\ table' = table
    BY DEF AncestorPids, system, history
  <2>2. ASSUME changed # "reused"
        PROVE  identity' \in ancestry /\ identity'.start \in agents /\ identity'.uid = peer.uid
    <3>1. PICK a \in ancestry : a.pid = c /\ a.start = item.start /\ a.uid = item.uid
      BY <1>0, <1>1, <2>2 DEF IInv, Lineage
    <3>2. a \in Identities
      BY DEF IInv, Types
    <3>3. identity' = a
      BY <1>1, <3>1, <3>2 DEF Identities
    <3>4. Named(c) = a
      BY <1>2, <2>2, <3>1 DEF IInv, Lineage
    <3> QED
      BY <1>2, <1>3, <3>1, <3>3, <3>4 DEF Named
  <2> QED
    BY <1>0, <2>1, <2>2 DEF IInv, Lineage, Named, history
<1>8. Undisturbed'
  <2>1. ASSUME NEW p \in Pids, NEW u \in Users, UndisturbedOf(p, u), changed = "no",
               peer = [pid |-> p, uid |-> u]
        PROVE  identity' = NearestAgent(p, u)
    <3>1. /\ ClimbedTo(c, p, u) /\ Running(p)
          /\ Cardinality(seen) = Cardinality(Ancestors(p) \ Ancestors(c)) + 1
          /\ Cardinality(Ancestors(p) \ Ancestors(c)) \in Nat
          /\ \A m \in Ancestors(p) \ Ancestors(c) : ~AgentAt(m, u) /\ table[m].exe # NoFile
      BY <1>0, <1>1, <2>1, ClimbParts
    <3>2. /\ c \in Ancestors(p) /\ Cardinality(seen) <= MaxDepth
          /\ item.start = table[c].start /\ item.uid = table[c].uid
      BY <3>1 DEF ClimbedTo
    <3>3. AgentAt(c, u)
      BY <1>2, <2>1, <3>2 DEF AgentAt
    <3>4. c \in FirstAgents(p, u)
      BY <3>1, <3>2, <3>3, AgentWalkAssumption DEF FirstAgents
    <3>5. \A q \in FirstAgents(p, u) : q = c
      BY <1>0, <3>1, <3>2, <3>3, FirstIsUp
    <3>6. FirstAgents(p, u) = {c}
      BY <3>4, <3>5
    <3>7. NearestAgent(p, u) = Named(CHOOSE q \in {c} : TRUE)
      BY <3>6 DEF NearestAgent, FirstAgents
    <3>8. NearestAgent(p, u) = Named(c)
      BY <3>7
    <3> QED
      BY <1>1, <3>2, <3>8 DEF Named
  <2> QED
    BY <1>0, <2>1, UndisturbedIs, ReadingParts DEF history
<1> QED
  BY <1>4, <1>5, <1>6, <1>7, <1>8 DEF IInv

\* What IsAgent says of pid is what AgentAt says.
LEMMA IsAgentHere ==
    ASSUME IInv, changed = "no", op = "find", at = "exe",
           NEW p \in Pids, NEW u \in Users, peer = [pid |-> p, uid |-> u],
           NEW c \in Pids, c = pid
    PROVE  /\ IsAgent(table[c].exe) <=> AgentAt(c, u)
           /\ item.parent = table[c].parent
<1>1. Reading
  BY DEF Reading
<1>2. ClimbedTo(c, p, u)
  BY <1>1, ClimbParts
<1> QED
  BY <1>2 DEF ClimbedTo, IsAgent, AgentAt

\* FindAgent goes on with the parent.
LEMMA ClimbKeeps ==
    ASSUME IInv, op = "find", at = "exe", Readable, ~IsAgent(table[pid].exe),
           Climbs(item.parent), pid' = item.parent, seen' = seen \cup {item.parent},
           at' = "stat", item' = Nobody, identity' = identity,
           UNCHANGED <<system, peer, op, verdict, history>>
    PROVE  IInv'
<1>0. Reading /\ Reading' /\ Family
  BY TableParts DEF Reading
<1>1. PICK c \in Pids : c = pid
  BY <1>0, ReadingParts
<1>2. PICK up \in Pids : up = item.parent
  BY <1>0, ReadingParts DEF Items, Climbs
<1>4. Types'
  BY <1>0, <1>2, ReadingParts, TypesAre DEF history
<1>5. Family'
  BY <1>0, FamilyStays DEF history
<1>6. Past'
  BY DEF IInv, Past, AliveIsTheAgent, Listed, system, history
<1>7. Lineage'
  <2>1. AncestorPids' = AncestorPids /\ table' = table
    BY DEF AncestorPids, system, history
  <2>2. changed # "reused" => up \in AncestorPids
    BY <1>0, <1>2 DEF IInv, Lineage, Climbs
  <2> QED
    BY <1>0, <1>2, <2>1, <2>2 DEF IInv, Lineage, Named, history
<1>8. Undisturbed'
  <2>1. ASSUME NEW p \in Pids, NEW u \in Users, UndisturbedOf(p, u), changed = "no",
               peer = [pid |-> p, uid |-> u]
        PROVE  ClimbedTo(up, p, u)'
    <3>1. /\ IsFiniteSet(seen) /\ ClimbedTo(c, p, u)
          /\ \A m \in Ancestors(p) \ Ancestors(c) : ~AgentAt(m, u) /\ table[m].exe # NoFile
      BY <1>0, <1>1, <2>1, ClimbParts
    <3>2. ~AgentAt(c, u) /\ table[c].parent = up /\ table[c].exe # NoFile
      BY <1>1, <1>2, <2>1, IsAgentHere DEF Readable
    <3>3. up \in Ancestors(p) /\ seen = Ancestors(p) \ Ancestors(up) /\ up \notin seen
      <4>1. table[c].parent # Pid1
        BY <1>2, <3>2, AgentWalkAssumption
      <4>2. /\ table[c].parent \in Ancestors(p)
            /\ seen = Ancestors(p) \ Ancestors(table[c].parent)
            /\ table[c].parent \notin seen
        BY <1>0, <1>1, <2>1, <4>1, ClimbParts
      <4> QED
        BY <3>2, <4>2
    <3>4. Cardinality(seen') <= MaxDepth
      <4>1. Cardinality(seen') = Cardinality(seen) + 1 /\ Cardinality(seen) \in Nat
        BY <1>2, <3>1, <3>3, FS_AddElement, FS_CardinalityType
      <4> QED
        BY <4>1, AgentWalkAssumption DEF Climbs
    <3>5. \A m \in seen : ~AgentAt(m, u) /\ table[m].exe # NoFile
      BY <3>1, <3>2 DEF ClimbedTo
    <3>6. seen' \ {up} = seen /\ seen' = (Ancestors(p) \ Ancestors(up)) \cup {up}
      BY <1>2, <3>3
    <3>7. /\ table' = table /\ Ancestors(p)' = Ancestors(p) /\ Ancestors(up)' = Ancestors(up)
          /\ \A m : AgentAt(m, u)' = AgentAt(m, u)
      BY SameTable DEF system
    <3> QED
      BY <3>3, <3>4, <3>5, <3>6, <3>7 DEF ClimbedTo
  <2> QED
    BY <1>0, <1>2, <2>1, UndisturbedIs, ReadingParts DEF history
<1> QED
  BY <1>4, <1>5, <1>6, <1>7, <1>8 DEF IInv

\* FindAgent gives up.
LEMMA RefusesKeeps ==
    ASSUME IInv, op = "find", at = "exe", Readable, ~IsAgent(table[pid].exe),
           ~Climbs(item.parent), Returns("refused"), identity' = identity,
           UNCHANGED <<system, peer, op, verdict, history>>
    PROVE  IInv'
<1>0. /\ Reading /\ ~Reading' /\ Family /\ at' = "refused" /\ item' = Nobody
      /\ pid' = Pid1 /\ seen' = {}
  BY TableParts DEF Returns, Reading
<1>1. PICK c \in Pids : c = pid
  BY <1>0, ReadingParts
<1>4. Types'
  BY <1>0, ReadingParts, TypesAre DEF history
<1>5. Family'
  BY <1>0, FamilyStays DEF history
<1>6. Past'
  BY <1>0 DEF IInv, Past, AliveIsTheAgent, Listed, system, history
<1>7. Lineage'
  <2>1. AncestorPids' = AncestorPids /\ table' = table
    BY DEF AncestorPids, system, history
  <2> QED
    BY <1>0, <2>1 DEF IInv, Lineage, Named, history
<1>8. Undisturbed'
  <2>1. ASSUME NEW p \in Pids, NEW u \in Users, UndisturbedOf(p, u), changed = "no",
               peer = [pid |-> p, uid |-> u]
        PROVE  identity' = NearestAgent(p, u)
    <3>1. ~AgentAt(c, u) /\ item.parent = table[c].parent
      BY <1>1, <2>1, IsAgentHere
    <3>2. table[c].parent # Pid1 => table[c].parent \notin seen
      BY <1>0, <1>1, <2>1, ClimbParts
    <3>3. Cardinality(seen) \in Nat
      BY <1>0, <1>1, <2>1, ClimbParts, FS_CardinalityType
    <3>4. table[c].parent = Pid1 \/ Cardinality(seen) >= MaxDepth
      BY <3>1, <3>2, <3>3, AgentWalkAssumption DEF Climbs
    <3>5. NearestAgent(p, u) = Nobody
      BY <1>0, <1>1, <2>1, <3>1, <3>4, NoneIsFound
    <3> QED
      BY <1>0, <3>5, ReadingParts
  <2> QED
    BY <1>0, <2>1, UndisturbedIs, ReadingParts DEF history
<1> QED
  BY <1>4, <1>5, <1>6, <1>7, <1>8 DEF IInv

LEMMA ConnectKeeps ==
    ASSUME IInv, NEW p \in Pids, Connect(p)
    PROVE  IInv'
<1>0. /\ at = "idle" /\ Running(p) /\ peer' = [pid |-> p, uid |-> table[p].uid]
      /\ at' = "stat" /\ pid' = p /\ seen' = {p}
      /\ ancestry' = {Named(q) : q \in Ancestors(p)}
      /\ nearest' = NearestAgent(p, table[p].uid)
      /\ UNCHANGED <<system, op, item, answers, changed, agents, gone>>
  BY DEF Connect
<1>1. /\ Types /\ TypeOK /\ Family /\ table \in [Pids -> Processes \cup {NoProcess}]
      /\ born \in 0..MaxBorn /\ table[p] # NoProcess /\ table[p].uid \in Users
      /\ op = "find" /\ identity = Nobody /\ changed = "no"
  BY <1>0, TableParts, EntryParts DEF Types, Running
<1>2. PICK u \in Users : u = table[p].uid
  BY <1>1
<1>3. /\ item = Nobody \/ item \in Stats \/ item \in Items
      /\ verdict \in {"", "alive", "dead"}
  BY <1>1 DEF TypeOK, Items
<1>4. \A q \in Ancestors(p) : q \in Pids /\ Running(q) /\ Named(q) \in Identities /\ Named(q).pid = q
  <2> TAKE q \in Ancestors(p)
  <2>1. q \in Pids /\ Running(q)
    BY <1>0, <1>1, AncestorsTransitive, AncestorsRun
  <2>2. table[q].uid \in Users /\ table[q].start \in 1..MaxBorn
    BY <1>1, <2>1, EntryParts DEF Running
  <2> QED
    BY <2>1, <2>2 DEF Named, Identities
<1>5. Types'
  <2>1. TypeOK'
    BY <1>0, <1>1, <1>3 DEF TypeOK, Items, system, answers
  <2>2. ancestry' \subseteq Identities /\ peer' \in [pid : Pids, uid : Users]
    BY <1>0, <1>1, <1>4
  <2> QED
    BY <1>0, <1>1, <2>1, <2>2 DEF Types, Reading, answers
<1>6. Family'
  BY <1>0, <1>1, FamilyStays
<1>7. Past'
  BY <1>0, <1>1 DEF IInv, Past, AliveIsTheAgent, answers
<1>8. Lineage'
  <2>1. ASSUME NEW a \in ancestry'
        PROVE  /\ Named(a.pid)' = a
               /\ table'[a.pid].parent \in AncestorPids' \cup {Pid1}
    <3>1. PICK q \in Ancestors(p) : a = Named(q)
      BY <1>0, <2>1
    <3>2. a.pid = q /\ table' = table /\ table[q] # NoProcess
      BY <1>0, <1>4, <3>1 DEF system, Running
    <3>3. table[q].parent \in Ancestors(p) \cup {Pid1}
      BY <1>1, <3>2, AncestorsLeast
    <3>4. \A r \in Ancestors(p) : r \in AncestorPids'
      BY <1>0, <1>4 DEF AncestorPids
    <3> QED
      BY <3>1, <3>2, <3>3, <3>4 DEF Named
  <2>2. p \in AncestorPids'
    BY <1>0, <1>1, <1>4, AncestorsLeast DEF AncestorPids
  <2>3. identity' = Nobody /\ at' = "stat" /\ pid' = p
    BY <1>0, <1>1 DEF answers
  <2> QED
    BY <2>1, <2>2, <2>3 DEF Lineage
<1>9. Undisturbed'
  <2> SUFFICES ASSUME NEW r \in Pids, NEW v \in Users, peer' = [pid |-> r, uid |-> v]
               PROVE  UndisturbedOf(r, v)'
    BY DEF Undisturbed
  <2>1. r = p /\ v = u /\ table' = table
    BY <1>0, <1>2 DEF system
  <2>2. Running(p)' /\ nearest' = NearestAgent(p, u) /\ NearestAgent(p, u)' = NearestAgent(p, u)
    BY <1>0, <1>2, <2>1, SameTable
  <2>3. (ancestry = {Named(q) : q \in Ancestors(p)})'
    BY <1>0, <2>1, SameTable
  <2>4. ClimbedTo(p, p, u)'
    <3>1. p \in Ancestors(p) /\ Ancestors(p)' = Ancestors(p)
      BY <1>1, <2>1, AncestorsLeast, SameTable
    <3>2. Cardinality({p}) = 1
      BY FS_Singleton
    <3> QED
      BY <1>0, <3>1, <3>2, AgentWalkAssumption DEF ClimbedTo
  <2>5. at' = "stat" /\ pid' = p /\ op' = "find"
    BY <1>0, <1>1
  <2> QED
    BY <2>1, <2>2, <2>3, <2>4, <2>5 DEF UndisturbedOf, Reading
<1> QED
  BY <1>5, <1>6, <1>7, <1>8, <1>9 DEF IInv

-----------------------------------------------------------------------------
(* Theorems.                                                               *)

LEMMA InitInv == Init => IInv
<1> SUFFICES ASSUME Init PROVE IInv
  OBVIOUS
<1>1. TypeOK
  <2>1. table \in [Pids -> Processes \cup {NoProcess}]
    BY DEF Init
  <2>2. born = 0 /\ MaxBorn \in Nat
    BY AgentWalkAssumption DEF Init
  <2>3. born \in 0..MaxBorn
    BY <2>2
  <2> QED
    BY <2>1, <2>3 DEF Init, TypeOK
<1>2. Types
  BY <1>1 DEF Init, Types, Reading
<1>3. Family
  BY DEF Init, Family, RunAgents
<1>4. Past /\ Lineage /\ Undisturbed
  BY DEF Init, Past, AliveIsTheAgent, Lineage, Undisturbed, Reading
<1> QED
  BY <1>2, <1>3, <1>4 DEF IInv

LEMMA NextInv == IInv /\ [Next]_vars => IInv'
<1> SUFFICES ASSUME IInv, [Next]_vars PROVE IInv'
  OBVIOUS
<1>1. ASSUME NEW p \in Pids \cup {Pid1}, NEW q \in Pids, NEW u \in Users,
             NEW x \in Executables \cup {NoFile}, Fork(p, q, u, x)
      PROVE  IInv'
  BY <1>1, ForkKeeps
<1>2. ASSUME NEW p \in Pids, Reap(p)
      PROVE  IInv'
  BY <1>2, ReapKeeps
<1>3. ASSUME NEW p \in Pids, NEW x \in Executables, Exec(p, x)
      PROVE  IInv'
  BY <1>3, ExecKeeps
<1>4. ASSUME NEW p \in Pids, NEW reaper \in Pids \cup {Pid1}, Exit(p, reaper)
      PROVE  IInv'
  BY <1>4, ExitKeeps
<1>5. ASSUME NEW x \in Executables, Replace(x)
      PROVE  IInv'
  BY <1>5, ReplaceKeeps
<1>6. ASSUME NEW p \in Pids, Connect(p)
      PROVE  IInv'
  BY <1>6, ConnectKeeps
<1>7. CASE Fails
  BY <1>7, FailsKeeps
<1>8. CASE ReadStat
  BY <1>8, ReadStatKeeps
<1>9. CASE ReadStatus
  BY <1>9, ReadStatusKeeps
<1>10. CASE FindAgent
  BY <1>10, FindsKeeps, ClimbKeeps, RefusesKeeps DEF FindAgent
<1>11. CASE CallAlive
  BY <1>11, CallAliveKeeps
<1>12. CASE Alive
  BY <1>12, AliveKeeps
<1>13. CASE UNCHANGED vars
  <2>1. UNCHANGED <<table, born, peer, op, at, pid, seen, item, identity, verdict,
                    ancestry, nearest, changed, agents, gone>>
    BY <1>13 DEF vars, system, reading, answers, history
  <2>2. Types'
    <3>1. table' \in [Pids -> Processes \cup {NoProcess}] /\ born' \in 0..MaxBorn
      BY <2>1 DEF IInv, Types, TypeOK
    <3>2. Types /\ UNCHANGED <<peer, reading, answers, ancestry>>
      BY <2>1 DEF IInv, reading, answers
    <3> QED
      BY <2>1, <3>1, <3>2, TypesStay
  <2>3. Family' /\ Past' /\ Lineage'
    BY <2>1 DEF IInv, Family, Running, RunAgents, Past, Listed, AliveIsTheAgent, Lineage,
                AncestorPids, Named, Reading
  <2>4. Undisturbed'
    BY <2>1, <2>2, UndisturbedStays DEF Types, reading, answers
  <2> QED
    BY <2>2, <2>3, <2>4 DEF IInv
<1> QED
  BY <1>1, <1>2, <1>3, <1>4, <1>5, <1>6, <1>7, <1>8, <1>9, <1>10, <1>11, <1>12, <1>13
     DEF Next, Others, Daemon

\* IInv always holds: children are younger than their parents, a start time is given once,
\* and what read has in hand comes from the peer's ancestry unless a PID of it was given away.
THEOREM Invariant == Spec => []IInv
BY InitInv, NextInv, PTL DEF Spec

\* Whatever the processes do meanwhile, FindAgent and Alive read files of processes, and
\* FindAgent never holds init or nobody for an agent.
THEOREM TypeCorrect == Spec => []TypeOK
<1>1. IInv => TypeOK
  BY DEF IInv, Types
<1> QED
  BY <1>1, Invariant, PTL

\* What FindAgent returned was the peer or an ancestor of it and has run an agent as the
\* peer's user, however deep it looks; unless a PID of theirs was given away meanwhile.
THEOREM FoundAlwaysAncestor == Spec => []FoundIsAncestor
<1>1. IInv => FoundIsAncestor
  BY DEF IInv, Lineage, FoundIsAncestor
<1> QED
  BY <1>1, Invariant, PTL

\* As long as nothing happens to the peer's ancestors, FindAgent returns the nearest agent
\* among those it may look at, and refuses the request only if there is none.
THEOREM NearestAlwaysFound == Spec => []NearestIsFound
<1>1. IInv => NearestIsFound
  <2> SUFFICES ASSUME IInv, at \in {"refused", "found"}, changed = "no"
               PROVE  identity = nearest
    BY DEF NearestIsFound
  <2>1. PICK p \in Pids, u \in Users : peer = [pid |-> p, uid |-> u]
    BY DEF IInv, Types
  <2>2. UndisturbedOf(p, u) /\ ~Reading
    BY <2>1 DEF IInv, Undisturbed, Reading
  <2> QED
    BY <2>2 DEF UndisturbedOf
<1> QED
  BY <1>1, Invariant, PTL

\* Alive is true of what has run an agent only, and of nobody who had ended and had been
\* waited for when it was called.
THEOREM AliveAlwaysTheAgent == Spec => []AliveIsTheAgent
<1>1. IInv => AliveIsTheAgent
  BY DEF IInv, Past
<1> QED
  BY <1>1, Invariant, PTL
=============================================================================
