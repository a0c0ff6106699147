------------------------------ MODULE HomeAccess ------------------------------
(***************************************************************************)
(* homeaccess.Manager and its walk over the approver's home directory      *)
(* (internal/homeaccess/homeaccess.go, platform_linux.go).                 *)
(*                                                                         *)
(* grant and revoke visit every directory and file and change two things   *)
(* of each, one system call at a time: the access ACL, and of directories  *)
(* the default ACL, which the kernel hands to whatever is created in them. *)
(* Meanwhile the approver goes on working: files are created, moved and    *)
(* have their mode changed.  Any system call may fail and the process may  *)
(* be killed.  One process walks at a time, as m.mu ensures in the daemon. *)
(* Links, special files and other file systems are skipped by the walk and *)
(* are no nodes here.                                                      *)
(***************************************************************************)
EXTENDS PosixAcl, Naturals, Sequences

CONSTANTS
    Agent,         \* the principal that is granted access
    Home,          \* the directory the walk starts from
    Dirs, Files,   \* what may exist below and including Home
    InitialAcls,   \* access ACLs before the broker came
    InitialDefaults, \* default ACLs before the broker came, or NoEntry
    Modes,         \* permissions of the group that a creation or chmod asks for
    MaxChanges     \* how many changes the approver makes (bound)

ASSUME HomeAssumption ==
    /\ Agent \in Principals
    /\ Home \in Dirs /\ Dirs \cap Files = {}
    /\ \A a \in InitialAcls \cup (InitialDefaults \ {NoEntry}) :
          a \in Acls /\ a.named[Agent] = NoEntry
    /\ Modes \subseteq SUBSET Perms
    /\ MaxChanges \in Nat

Nodes == Dirs \cup Files
Others == Principals \ {Agent}

VARIABLES
    exists, parent,     \* the tree
    access, default,    \* its ACLs; NoEntry: no default ACL
    created,            \* directories with the default-created marker
    complete,           \* Home has the home-access-complete marker
    action,             \* what Manage is doing
    node, step,         \* the node it is at, what is left to do there
    saw,                \* the access ACL it has read there
    frames,             \* the directories it is in, with the names left in each
    result              \* what Manage returned last

\* History.  access0, default0: the ACLs as they would be had there been no
\* broker.  moved: which files were moved during the last grant and the last
\* revoke.  changed: nodes created or changed since the last grant began.
\* restricted: nodes whose mode the approver has set
\* while their ACL was not as it would be, or that were created with the agent's
\* entry.
VARIABLES access0, default0, moved, changed, restricted, changes

tree == <<exists, parent>>
walk == <<action, node, step, saw, frames>>
history == <<access0, default0, moved, changed, restricted, changes>>
vars == <<tree, access, default, created, complete, walk, result, history>>

Frames == [dir : Dirs, names : SUBSET Nodes]

-------------------------------------------------------------------------------
\* aclStatus, which looks at Home only.
AclStatus ==
    LET accessEnabled  == UserHas(access[Home], Agent, Perms)
        defaultEnabled == default[Home] # NoEntry /\ UserHas(default[Home], Agent, Perms)
    IN  IF accessEnabled /\ defaultEnabled /\ complete THEN "enabled"
        ELSE IF accessEnabled \/ defaultEnabled THEN "partial" ELSE "disabled"

\* The permission granted on a node whose ACL is a: its mode has an execute bit.
Permission(n, a) ==
    LET groupBits == IF a.mask = NoEntry THEN a.group ELSE a.mask
    IN  IF n \in Dirs \/ "x" \in a.owner \cup groupBits \cup a.other
        THEN Perms ELSE {"r", "w"}

\* Fault: a directory is listed before what is created in it stops inheriting.
OrderListingFirst(a, n) ==
    IF n \in Files THEN
        [open |-> "readAccess", readAccess |-> "writeAccess", writeAccess |-> "next"]
    ELSE IF a = "grant" THEN
        [open |-> "readAccess", readAccess |-> "writeAccess", writeAccess |-> "grantDefault",
         grantDefault |-> "list", list |-> "next"]
    ELSE
        [open |-> "list", list |-> "revokeDefault", revokeDefault |-> "readAccess",
         readAccess |-> "writeAccess", writeAccess |-> "next"]

\* walkFD and changeACLs: what is done at a node, and what follows upon it.
Order(a, n) ==
    IF n \in Files THEN
        [open |-> "readAccess", readAccess |-> "writeAccess", writeAccess |-> "next"]
    ELSE IF a = "grant" THEN
        [open |-> "readAccess", readAccess |-> "writeAccess", writeAccess |-> "grantDefault",
         grantDefault |-> "list", list |-> "next"]
    ELSE
        [open |-> "revokeDefault", revokeDefault |-> "readAccess",
         readAccess |-> "writeAccess", writeAccess |-> "list", list |-> "next"]

Then(op) == step' = Order(action, node)[op]

Visit(a, n) == node' = n /\ step' = Order(a, n).open /\ saw' = access[n]

\* Fault: a walk that fails leaves its directories open.
LeaveOpen == action' = "none" /\ node' = Home /\ step' = "next" /\ saw' = NoEntry /\ UNCHANGED frames

\* The walk is over; its descriptors are closed.
Leave == action' = "none" /\ node' = Home /\ step' = "next" /\ saw' = NoEntry /\ frames' = <<>>

Init ==
    /\ exists \in {E \in SUBSET Nodes : Home \in E}
    /\ parent = [n \in Nodes |-> Home]
    /\ \E a \in [exists -> InitialAcls], d \in [exists \cap Dirs -> InitialDefaults] :
          /\ access = [n \in Nodes |-> IF n \in exists THEN a[n] ELSE BaseAcl({}, {}, {})]
          /\ default = [n \in Dirs |-> IF n \in exists THEN d[n] ELSE NoEntry]
    /\ access0 = access /\ default0 = default
    /\ created = {} /\ complete = FALSE
    /\ action = "none" /\ node = Home /\ step = "next" /\ saw = NoEntry /\ frames = <<>>
    /\ result = "none"
    /\ moved = {} /\ changed = {} /\ restricted = {} /\ changes = 0

-------------------------------------------------------------------------------
Forget(a) ==
    /\ moved' = {m \in moved : m.during # a}
    /\ changed' = IF a = "grant" THEN {} ELSE changed

\* Fault: the marker of an earlier grant stays while a new one runs.
StartMarked(a) ==
    /\ action = "none"
    /\ action' = a /\ Visit(a, Home) /\ frames' = <<>>
    /\ result' = "none" /\ Forget(a)
    /\ UNCHANGED <<tree, access, default, created, complete, access0, default0, restricted, changes>>

\* Manage, platformManage: up to the walk.  An error of removing the marker is
\* ignored there, and taken not to occur here.
Start(a) ==
    /\ action = "none"
    /\ action' = a /\ Visit(a, Home) /\ frames' = <<>>
    /\ complete' = (complete /\ a # "grant")
    /\ result' = "none" /\ Forget(a)
    /\ UNCHANGED <<tree, access, default, created, access0, default0, restricted, changes>>

\* revokeDefault.  The default ACL goes if the broker made it and it names nobody
\* else.  Only the walk changes default ACLs, so reading and writing are one step.
RevokeDefault ==
    /\ step = "revokeDefault"
    /\ LET d == default[node]
           left == IF d = NoEntry THEN NoEntry ELSE RevokeUser(d, Agent)
       IN  IF d = NoEntry \/ (node \in created /\ ~HasNamedEntries(left))
           THEN default' = [default EXCEPT ![node] = NoEntry] /\ step' = "unmark"
           ELSE default' = [default EXCEPT ![node] = left] /\ Then("revokeDefault")
    /\ UNCHANGED <<tree, access, created, complete, action, node, saw, frames, result, history>>

\* An error is ignored.
Unmark ==
    /\ step = "unmark"
    /\ created' \in {created, created \ {node}} /\ Then("revokeDefault")
    /\ UNCHANGED <<tree, access, default, complete, action, node, saw, frames, result, history>>

\* changeACLs: the access ACL is read,
ReadAccess ==
    /\ step = "readAccess"
    /\ saw' = access[node] /\ Then("readAccess")
    /\ UNCHANGED <<tree, access, default, created, complete, action, node, frames, result, history>>

\* and written, over whatever is there by then.
WriteAccess ==
    /\ step = "writeAccess"
    /\ saw' = IF action = "grant" THEN GrantUser(saw, Agent, Permission(node, saw))
              ELSE RevokeUser(saw, Agent)
    /\ access' = IF saw' = saw /\ action = "revoke" THEN access
                 ELSE [access EXCEPT ![node] = saw']
    /\ Then("writeAccess")
    /\ UNCHANGED <<tree, default, created, complete, action, node, frames, result, history>>

\* grantDefault: a directory without default ACL is marked first.
GrantDefault ==
    /\ step = "grantDefault"
    /\ IF default[node] = NoEntry
       THEN created' = created \cup {node} /\ step' = "writeDefault" /\ UNCHANGED default
       ELSE /\ default' = [default EXCEPT ![node] = GrantUser(@, Agent, Perms)]
            /\ Then("grantDefault") /\ UNCHANGED created
    /\ UNCHANGED <<tree, access, complete, action, node, saw, frames, result, history>>

WriteDefault ==
    /\ step = "writeDefault"
    /\ default' = [default EXCEPT ![node] = GrantUser(Base(saw), Agent, Perms)]
    /\ Then("grantDefault")
    /\ UNCHANGED <<tree, access, created, complete, action, node, saw, frames, result, history>>

\* walkFD: Readdirnames.
List ==
    /\ step = "list"
    /\ LET names == {n \in exists \ {Home} : parent[n] = node}
       IN  frames' = Append(frames, [dir |-> node, names |-> names])
    /\ Then("list")
    /\ UNCHANGED <<tree, access, default, created, complete, action, node, saw, result, history>>

Innermost == frames[Len(frames)]

\* walkFD: the next name of the innermost directory is opened; one that is no
\* longer there is passed over.
NextName(n) ==
    /\ action # "none" /\ step = "next" /\ frames # <<>> /\ n \in Innermost.names
    /\ frames' = [frames EXCEPT ![Len(frames)].names = @ \ {n}]
    /\ IF parent[n] = Innermost.dir THEN Visit(action, n) ELSE UNCHANGED <<node, step, saw>>
    /\ UNCHANGED <<tree, access, default, created, complete, action, result, history>>

\* walkFD returns to its caller.
LastName ==
    /\ action # "none" /\ step = "next" /\ frames # <<>> /\ Innermost.names = {}
    /\ frames' = SubSeq(frames, 1, Len(frames) - 1)
    /\ UNCHANGED <<tree, access, default, created, complete, action, node, step, saw, result, history>>

\* platformManage: after the walk.
Finish ==
    /\ action # "none" /\ step = "next" /\ frames = <<>>
    /\ complete' = (action = "grant")
    /\ result' = IF action = "grant" THEN "enabled" ELSE "disabled"
    /\ Leave
    /\ UNCHANGED <<tree, access, default, created, history>>

\* Fault: the marker is taken back whatever has failed.
FailTakingMarker ==
    /\ action # "none"
    /\ created' = created \ {node}
    /\ result' = "failed"
    /\ Leave
    /\ UNCHANGED <<tree, access, default, complete, history>>

\* A system call fails, or the process is killed.  When the default ACL could not
\* be written, grantDefault takes its marker back.
Fail ==
    /\ action # "none"
    /\ \/ UNCHANGED created
       \/ step = "writeDefault" /\ created' = created \ {node}
    /\ result' = "failed"
    /\ Leave
    /\ UNCHANGED <<tree, access, default, complete, history>>

-------------------------------------------------------------------------------
(* The approver at work. *)

\* What chmod does to an ACL: the bits of the group are those of the mask.
ModeSet(a, mode) == IF a.mask = NoEntry THEN [a EXCEPT !.group = mode]
                    ELSE [a EXCEPT !.mask = mode]

\* What the kernel gives a new file in a directory with a default ACL.
Inherited(d, mode) == ModeSet(d, mode \cap IF d.mask = NoEntry THEN d.group ELSE d.mask)

Changes == changes < MaxChanges /\ changes' = changes + 1

\* A file, or with its default ACL a directory, appears.
Create(n, dir, mode) ==
    /\ Changes /\ n \notin exists /\ dir \in exists
    /\ exists' = exists \cup {n}
    /\ parent' = [parent EXCEPT ![n] = dir]
    /\ LET inherits == default[dir] # NoEntry
           new == IF inherits THEN Inherited(default[dir], mode) ELSE BaseAcl(Perms, mode, {})
       IN  /\ access' = [access EXCEPT ![n] = new]
           /\ access0' = [access0 EXCEPT ![n] = new]
           /\ restricted' = IF new.named[Agent] # NoEntry THEN restricted \cup {n} ELSE restricted
    /\ default' = IF n \in Dirs THEN [default EXCEPT ![n] = default[dir]] ELSE default
    /\ default0' = IF n \in Dirs THEN [default0 EXCEPT ![n] = default[dir]] ELSE default0
    /\ changed' = changed \cup {n}
    /\ UNCHANGED <<created, complete, walk, result, moved>>

Chmod(n, mode) ==
    /\ Changes /\ n \in exists
    /\ access' = [access EXCEPT ![n] = ModeSet(@, mode)]
    /\ access0' = [access0 EXCEPT ![n] = ModeSet(@, mode)]
    /\ changed' = changed \cup {n}
    /\ restricted' = IF access[n] # access0[n] \/ (n = node /\ step = "writeAccess")
                     THEN restricted \cup {n} ELSE restricted
    /\ UNCHANGED <<tree, default, created, complete, walk, result, default0, moved>>

\* A file is moved to another directory and keeps its ACL.
Move(n, dir) ==
    /\ Changes /\ n \in exists \cap Files /\ dir \in exists \ {parent[n]}
    /\ parent' = [parent EXCEPT ![n] = dir]
    /\ moved' = IF action = "none" THEN moved ELSE moved \cup {[file |-> n, during |-> action]}
    /\ UNCHANGED <<exists, access, default, created, complete, walk, result,
                   access0, default0, changed, restricted>>

Next ==
    \/ \E a \in {"grant", "revoke"} : Start(a)
    \/ RevokeDefault
    \/ Unmark
    \/ ReadAccess
    \/ WriteAccess
    \/ GrantDefault
    \/ WriteDefault
    \/ List
    \/ \E n \in Nodes : NextName(n)
    \/ LastName
    \/ Finish
    \/ Fail
    \/ \E n \in Nodes, dir \in Dirs, mode \in Modes : Create(n, dir, mode)
    \/ \E n \in Nodes, mode \in Modes : Chmod(n, mode)
    \/ \E n \in Files, dir \in Dirs : Move(n, dir)

Spec == Init /\ [][Next]_vars

-------------------------------------------------------------------------------
\* Types; nothing is left of a walk that is over, and the directories the walk is
\* in lie below one another.
TypeOK ==
    /\ exists \in SUBSET Nodes /\ parent \in [Nodes -> Dirs]
    /\ access \in [Nodes -> Acls] /\ access0 \in [Nodes -> Acls]
    /\ default \in [Dirs -> {NoEntry} \cup Acls] /\ default0 \in [Dirs -> {NoEntry} \cup Acls]
    /\ created \in SUBSET Dirs /\ complete \in BOOLEAN
    /\ action \in {"none", "grant", "revoke"} /\ result \in {"none", "enabled", "disabled", "failed"}
    /\ step \in {"revokeDefault", "unmark", "readAccess", "writeAccess", "grantDefault",
                "writeDefault", "list", "next"}
    /\ node \in exists /\ saw \in {NoEntry} \cup Acls
    /\ frames \in Seq(Frames)
    /\ (action = "none") = (saw = NoEntry)
    /\ action = "none" => step = "next" /\ frames = <<>>
    /\ \A i \in DOMAIN frames : frames[i].dir = Home <=> i = 1
    /\ moved \in SUBSET [file : Files, during : {"grant", "revoke"}]
    /\ changed \in SUBSET Nodes /\ restricted \in SUBSET Nodes
    /\ changes \in 0..MaxChanges

MovedDuring(a) == {m.file : m \in {mm \in moved : mm.during = a}}

HasAgentEntry(n) ==
    \/ access[n].named[Agent] # NoEntry
    \/ n \in Dirs /\ default[n] # NoEntry /\ default[n].named[Agent] # NoEntry

\* "status reports enabled only after a complete successful grant": when it does,
\* also after walks that failed, every node has the entry (those created during
\* the walk by inheritance) unless it was moved under the walk, and the agent has
\* the permission unless the approver has changed the mode since.
EnabledIsComplete ==
    action = "none" /\ AclStatus = "enabled" =>
        \A n \in exists \ MovedDuring("grant") :
            /\ access[n].named[Agent] # NoEntry
            /\ n \in Dirs => UserHas(default[n], Agent, Perms)
            /\ n \notin changed => UserHas(access[n], Agent, {"r", "w"})

\* "Revocation removes the named access/default ACL entries throughout the home":
\* once revoke has returned "disabled" no entry is left or comes back, whatever
\* was created meanwhile and whatever failed before.
RevokeIsComplete ==
    result = "disabled" => \A n \in exists \ MovedDuring("revoke") : ~HasAgentEntry(n)

SameForOthers(a, b) ==
    /\ \A p \in Others : Effective(a, p) = Effective(b, p)
    /\ GroupEffective(a) = GroupEffective(b)

\* Grants and revokes, complete or not, repeated or not, change nothing for
\* anybody but the agent, except at nodes the approver has created or changed the
\* mode of while their ACL was not the approver's own.
OthersUnaffected ==
    /\ \A n \in exists \ restricted : SameForOthers(access[n], access0[n])
    /\ \A d \in Dirs : default0[d] # NoEntry =>
          default[d] # NoEntry /\ SameForOthers(default[d], default0[d])

\* "rootbroker-created default ACL remains" is what a test reports otherwise: a
\* complete revoke, after whatever failed before, leaves no default ACL where
\* there was none.
DefaultsRestored ==
    result = "disabled" => \A d \in exists \cap Dirs : default0[d] = NoEntry => default[d] = NoEntry

\* "revoke did not preserve the existing user's effective permissions" is what a
\* test reports otherwise: violated at a node whose mask the approver has set.
RevokePreservesOthers ==
    [][ RevokeDefault \/ (WriteAccess /\ action = "revoke" /\ saw = access[node])
          => SameForOthers(access'[node], access[node]) ]_vars
===============================================================================
