------------------------------- MODULE PosixAcl -------------------------------
(***************************************************************************)
(* homeaccess.aclValue (internal/homeaccess/acl.go): a POSIX ACL and the   *)
(* two changes the broker makes to one, granting a user and taking that    *)
(* user out again.                                                         *)
(*                                                                         *)
(* The owning group and all named entries share one mask; what any of them *)
(* may do is its entry cut down to the mask.  An ACL without a mask is the *)
(* mode of the file and nothing else.  Permission bits are sets of letters *)
(* and the list of entries is a record: the kernel accepts one entry per   *)
(* tag and id, and encode sorts them.                                      *)
(***************************************************************************)
CONSTANTS
    Principals,   \* the users and groups that may have a named entry
    NoEntry       \* no such entry, no mask, no ACL

Perms == {"r", "w", "x"}

Acls == [owner : SUBSET Perms, group : SUBSET Perms, other : SUBSET Perms,
         named : [Principals -> {NoEntry} \cup SUBSET Perms],
         mask : {NoEntry} \cup SUBSET Perms]

ASSUME NoEntryAssumption ==
    /\ \A bits \in SUBSET Perms : bits # NoEntry
    /\ NoEntry \notin Acls

NobodyNamed == [p \in Principals |-> NoEntry]

\* baseACL: the ACL of a mode.
BaseAcl(owner, group, other) ==
    [owner |-> owner, group |-> group, other |-> other,
     named |-> NobodyNamed, mask |-> NoEntry]

\* base: what is left of an ACL without its named entries and its mask.
Base(a) == BaseAcl(a.owner, a.group, a.other)

HasNamedEntries(a) == a.named # NobodyNamed

EffectiveMask(a) == IF a.mask = NoEntry THEN Perms ELSE a.mask

\* What a named principal and the owning group may really do.
Effective(a, p) == IF a.named[p] = NoEntry THEN {} ELSE a.named[p] \cap EffectiveMask(a)
GroupEffective(a) == a.group \cap EffectiveMask(a)

\* userHas.
UserHas(a, u, wanted) == a.named[u] # NoEntry /\ wanted \subseteq Effective(a, u)

\* recalculateMask: the union of the entries it is to cover.
MaskOver(group, named) ==
    group \cup UNION {named[p] : p \in {q \in Principals : named[q] # NoEntry}}

\* Fault: the mask is widened under the entries it restricted.
GrantUserUnmasking(a, u, perm) ==
    LET named == [a.named EXCEPT ![u] = perm]
    IN  [a EXCEPT !.named = named, !.mask = MaskOver(a.group, named)]

\* grantUser: every entry is cut down to what the old mask left of it, so that
\* the new mask gives it nothing more.
GrantUser(a, u, perm) ==
    LET group == GroupEffective(a)
        named == [p \in Principals |->
                    IF p = u THEN perm
                    ELSE IF a.named[p] = NoEntry THEN NoEntry ELSE Effective(a, p)]
    IN  [a EXCEPT !.group = group, !.named = named, !.mask = MaskOver(group, named)]

\* revokeUser: it cuts nothing down.  The mask goes with the last named entry.
RevokeUser(a, u) ==
    LET named == [a.named EXCEPT ![u] = NoEntry]
    IN  IF a.named[u] = NoEntry THEN a
        ELSE [a EXCEPT !.named = named,
                       !.mask = IF named = NobodyNamed THEN NoEntry
                                ELSE MaskOver(a.group, named)]
===============================================================================
