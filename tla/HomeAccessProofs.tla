--------------------------- MODULE HomeAccessProofs ---------------------------
(***************************************************************************)
(* Grants and revokes change nothing for anybody but the agent, and are    *)
(* complete when they say so: for any tree, any ACLs, any number of        *)
(* principals, walks, failures and changes by the approver.                *)
(*                                                                         *)
(* First what grantUser and revokeUser do to one ACL, then the invariant   *)
(* about what others may do (IInv), then the invariant about how far a     *)
(* walk has come (Walk).                                                   *)
(***************************************************************************)
EXTENDS HomeAccess, SequenceTheorems, TLAPS

(***************************************************************************)
(* One ACL, whatever its mask.                                             *)
(***************************************************************************)
Entries == [Principals -> {NoEntry} \cup SUBSET Perms]

\* A mask computed by recalculateMask is a mask, and covers the group and every
\* named entry.
LEMMA MaskOverCovers ==
    \A group \in SUBSET Perms, named \in Entries :
        /\ MaskOver(group, named) \in SUBSET Perms
        /\ group \subseteq MaskOver(group, named)
        /\ \A p \in Principals : named[p] # NoEntry => named[p] \subseteq MaskOver(group, named)
<1> TAKE group \in SUBSET Perms, named \in Entries
<1>1. ASSUME NEW p \in Principals, named[p] # NoEntry
      PROVE  named[p] \in SUBSET Perms /\ named[p] \subseteq MaskOver(group, named)
  BY <1>1 DEF MaskOver, Entries
<1>2. ASSUME NEW x \in MaskOver(group, named)
      PROVE  x \in Perms
  <2>1. CASE x \in group
    BY <2>1
  <2>2. CASE x \notin group
    <3>1. PICK p \in Principals : named[p] # NoEntry /\ x \in named[p]
      BY <1>2, <2>2 DEF MaskOver
    <3> QED
      BY <1>1, <3>1
  <2> QED
    BY <2>1, <2>2
<1> QED
  BY <1>1, <1>2 DEF MaskOver

\* The parts of an ACL.
LEMMA AclParts ==
    ASSUME NEW a \in Acls
    PROVE  /\ a.group \in SUBSET Perms /\ a.named \in Entries
           /\ EffectiveMask(a) \in SUBSET Perms
           /\ GroupEffective(a) \in SUBSET Perms
           /\ \A p \in Principals : Effective(a, p) \in SUBSET Perms
<1>1. a.group \in SUBSET Perms /\ a.named \in Entries /\ EffectiveMask(a) \in SUBSET Perms
  BY DEF Acls, Entries, EffectiveMask
<1>2. ASSUME NEW p \in Principals
      PROVE  Effective(a, p) \in SUBSET Perms
  BY <1>1 DEF Effective
<1> QED
  BY <1>1, <1>2 DEF GroupEffective

\* The mask restricts nobody.
Covers(a) ==
    /\ a.group \subseteq EffectiveMask(a)
    /\ \A p \in Principals : a.named[p] # NoEntry => a.named[p] \subseteq EffectiveMask(a)

\* A mask computed from the entries it stands over restricts none of them.
LEMMA OwnMaskCovers ==
    ASSUME NEW a \in Acls, EffectiveMask(a) = MaskOver(a.group, a.named)
    PROVE  Covers(a)
<1>1. a.group \in SUBSET Perms /\ a.named \in Entries
  BY AclParts
<1>2. /\ a.group \subseteq MaskOver(a.group, a.named)
      /\ \A p \in Principals :
            a.named[p] # NoEntry => a.named[p] \subseteq MaskOver(a.group, a.named)
  BY <1>1, MaskOverCovers, Zenon
<1> QED
  BY <1>2, Zenon DEF Covers

\* The entries that a grant leaves, and the mask over them.
LEMMA GrantParts ==
    ASSUME NEW a \in Acls, NEW u \in Principals, NEW perm \in SUBSET Perms
    PROVE  LET b == GrantUser(a, u, perm)
           IN  /\ b \in Acls
               /\ b.group = GroupEffective(a)
               /\ b.named[u] = perm
               /\ \A p \in Principals \ {u} :
                    b.named[p] = IF a.named[p] = NoEntry THEN NoEntry ELSE Effective(a, p)
               /\ EffectiveMask(b) = MaskOver(b.group, b.named)
<1> DEFINE group == GroupEffective(a)
           named == [p \in Principals |->
                       IF p = u THEN perm
                       ELSE IF a.named[p] = NoEntry THEN NoEntry ELSE Effective(a, p)]
           b == [a EXCEPT !.group = group, !.named = named, !.mask = MaskOver(group, named)]
<1>1. group \in SUBSET Perms /\ named \in Entries
  BY AclParts DEF Entries
<1>2. MaskOver(group, named) \in SUBSET Perms
  <2> HIDE DEF group, named
  <2> QED
    BY <1>1, MaskOverCovers
<1>3. GrantUser(a, u, perm) = b
  BY DEF GrantUser
<1>4. /\ named[u] = perm
      /\ \A p \in Principals \ {u} :
            named[p] = IF a.named[p] = NoEntry THEN NoEntry ELSE Effective(a, p)
  OBVIOUS
<1> HIDE DEF named
<1>5. b.group = group /\ b.named = named /\ b.mask = MaskOver(group, named)
  BY DEF Acls
<1>6. b \in Acls
  BY <1>1, <1>2 DEF Acls, Entries
<1>7. EffectiveMask(b) = MaskOver(group, named)
  BY <1>2, <1>5, NoEntryAssumption DEF EffectiveMask
<1> QED
  BY <1>3, <1>4, <1>5, <1>6, <1>7

\* After a grant the mask restricts nobody.
LEMMA GrantCovers ==
    ASSUME NEW a \in Acls, NEW u \in Principals, NEW perm \in SUBSET Perms
    PROVE  Covers(GrantUser(a, u, perm))
<1> DEFINE b == GrantUser(a, u, perm)
<1>1. b \in Acls /\ EffectiveMask(b) = MaskOver(b.group, b.named)
  BY GrantParts
<1> HIDE DEF b
<1>2. Covers(b)
  BY <1>1, OwnMaskCovers
<1> QED
  BY <1>2 DEF b

\* The user that is granted can do what was granted, whatever the mask was.
THEOREM GrantGives ==
    ASSUME NEW a \in Acls, NEW u \in Principals, NEW perm \in SUBSET Perms
    PROVE  UserHas(GrantUser(a, u, perm), u, perm)
<1> DEFINE b == GrantUser(a, u, perm)
<1>1. b.named[u] = perm /\ Covers(b)
  BY GrantParts, GrantCovers
<1> HIDE DEF b
<1>2. perm # NoEntry
  BY NoEntryAssumption
<1>3. perm \subseteq EffectiveMask(b)
  BY <1>1, <1>2 DEF Covers
<1> QED
  BY <1>1, <1>2, <1>3 DEF UserHas, Effective, b

\* "This grant cannot accidentally unmask access for an unrelated existing ACL
\* principal": whatever the ACL, every other principal and the owning group can
\* do after a grant exactly what they could do before.
THEOREM GrantUnmasksNobody ==
    ASSUME NEW a \in Acls, NEW u \in Principals, NEW perm \in SUBSET Perms
    PROVE  /\ \A p \in Principals \ {u} : Effective(GrantUser(a, u, perm), p) = Effective(a, p)
           /\ GroupEffective(GrantUser(a, u, perm)) = GroupEffective(a)
<1> DEFINE b == GrantUser(a, u, perm)
<1>1. /\ b.group = GroupEffective(a)
      /\ \A p \in Principals \ {u} :
            b.named[p] = IF a.named[p] = NoEntry THEN NoEntry ELSE Effective(a, p)
  BY GrantParts
<1>2. Covers(b)
  BY GrantCovers
<1> HIDE DEF b
<1>3. /\ b.group \subseteq EffectiveMask(b)
      /\ \A p \in Principals : b.named[p] # NoEntry => b.named[p] \subseteq EffectiveMask(b)
  BY <1>2 DEF Covers
<1>4. GroupEffective(b) = GroupEffective(a)
  <2>1. GroupEffective(b) = b.group
    BY <1>3 DEF GroupEffective
  <2> QED
    BY <1>1, <2>1
<1>5. ASSUME NEW p \in Principals \ {u}
      PROVE  Effective(b, p) = Effective(a, p)
  <2>1. CASE a.named[p] = NoEntry
    BY <1>1, <2>1 DEF Effective
  <2>2. CASE a.named[p] # NoEntry
    <3>1. b.named[p] = Effective(a, p)
      BY <1>1, <2>2
    <3>2. b.named[p] # NoEntry
      BY <3>1, AclParts, NoEntryAssumption
    <3>3. Effective(b, p) = b.named[p]
      BY <1>3, <3>2 DEF Effective
    <3> QED
      BY <3>1, <3>3
  <2> QED
    BY <2>1, <2>2
<1> QED
  BY <1>4, <1>5 DEF b

\* A revoked user has no entry and so no access of its own.
THEOREM RevokeRemoves ==
    ASSUME NEW a \in Acls, NEW u \in Principals
    PROVE  /\ RevokeUser(a, u).named[u] = NoEntry
           /\ Effective(RevokeUser(a, u), u) = {}
<1>1. RevokeUser(a, u).named[u] = NoEntry
  BY DEF RevokeUser, Acls
<1> QED
  BY <1>1 DEF Effective

\* What a revoke leaves.
LEMMA RevokeParts ==
    ASSUME NEW a \in Acls, NEW u \in Principals
    PROVE  LET b == RevokeUser(a, u)
           IN  /\ b \in Acls
               /\ b.group = a.group
               /\ b.named = [a.named EXCEPT ![u] = NoEntry]
               /\ a.named[u] = NoEntry => b = a
               /\ a.named[u] # NoEntry =>
                    \/ b.named = NobodyNamed /\ EffectiveMask(b) = Perms
                    \/ EffectiveMask(b) = MaskOver(b.group, b.named)
<1> DEFINE b == RevokeUser(a, u)
           named == [a.named EXCEPT ![u] = NoEntry]
<1>1. CASE a.named[u] = NoEntry
  <2>1. b = a
    BY <1>1 DEF RevokeUser
  <2>2. a.named = named
    BY <1>1 DEF Acls
  <2> QED
    BY <1>1, <2>1, <2>2
<1>2. CASE a.named[u] # NoEntry
  <2>1. named \in Entries
    BY AclParts DEF Entries
  <2>2. a.group \in SUBSET Perms
    BY AclParts
  <2> HIDE DEF named
  <2>3. MaskOver(a.group, named) \in SUBSET Perms
    BY <2>1, <2>2, MaskOverCovers, Zenon
  <2>4. b = [a EXCEPT !.named = named,
                      !.mask = IF named = NobodyNamed THEN NoEntry ELSE MaskOver(a.group, named)]
    BY <1>2 DEF RevokeUser, named
  <2> HIDE DEF b
  <2>5. /\ b.group = a.group /\ b.named = named
        /\ b.mask = IF named = NobodyNamed THEN NoEntry ELSE MaskOver(a.group, named)
    BY <2>4 DEF Acls
  <2>6. b \in Acls
    BY <2>1, <2>3, <2>4 DEF Acls, Entries
  <2>7. \/ b.named = NobodyNamed /\ EffectiveMask(b) = Perms
        \/ EffectiveMask(b) = MaskOver(b.group, b.named)
    <3>1. CASE named = NobodyNamed
      BY <2>5, <3>1 DEF EffectiveMask
    <3>2. CASE named # NobodyNamed
      <4>1. b.mask = MaskOver(b.group, b.named)
        BY <2>5, <3>2
      <4>2. b.mask # NoEntry
        BY <2>3, <2>5, <3>2, NoEntryAssumption
      <4> QED
        BY <4>1, <4>2 DEF EffectiveMask
    <3> QED
      BY <3>1, <3>2
  <2> QED
    BY <1>2, <2>5, <2>6, <2>7 DEF b, named
<1> QED
  BY <1>1, <1>2

\* A revoke from an ACL whose mask restricts nobody leaves such an ACL.
LEMMA RevokeCovers ==
    ASSUME NEW a \in Acls, NEW u \in Principals, Covers(a)
    PROVE  Covers(RevokeUser(a, u))
<1> DEFINE b == RevokeUser(a, u)
<1>1. /\ b \in Acls
      /\ a.named[u] = NoEntry => b = a
      /\ a.named[u] # NoEntry =>
            \/ b.named = NobodyNamed /\ EffectiveMask(b) = Perms
            \/ EffectiveMask(b) = MaskOver(b.group, b.named)
  BY RevokeParts
<1> SUFFICES Covers(b)
  OBVIOUS
<1> HIDE DEF b
<1>2. CASE b = a
  BY <1>2
<1>3. CASE b.named = NobodyNamed /\ EffectiveMask(b) = Perms
  BY <1>1, <1>3, AclParts DEF Covers, NobodyNamed
<1>4. CASE EffectiveMask(b) = MaskOver(b.group, b.named)
  BY <1>1, <1>4, OwnMaskCovers
<1> QED
  BY <1>1, <1>2, <1>3, <1>4

\* "Revoke did not preserve the existing user's effective permissions" is what a
\* test of the code reports otherwise.  A revoke changes nothing for anybody else
\* if the mask restricts nobody, as after every grant; a mode set in between
\* breaks the premise.
THEOREM RevokeUnmasksNobody ==
    ASSUME NEW a \in Acls, NEW u \in Principals, Covers(a)
    PROVE  /\ \A p \in Principals \ {u} : Effective(RevokeUser(a, u), p) = Effective(a, p)
           /\ GroupEffective(RevokeUser(a, u)) = GroupEffective(a)
<1> DEFINE b == RevokeUser(a, u)
<1>1. b.group = a.group /\ b.named = [a.named EXCEPT ![u] = NoEntry]
  BY RevokeParts
<1>2. Covers(b)
  BY RevokeCovers
<1> HIDE DEF b
<1>3. \A p \in Principals \ {u} : b.named[p] = a.named[p]
  BY <1>1, AclParts DEF Entries
<1>4. GroupEffective(b) = GroupEffective(a)
  BY <1>1, <1>2 DEF GroupEffective, Covers
<1>5. ASSUME NEW p \in Principals \ {u}
      PROVE  Effective(b, p) = Effective(a, p)
  BY <1>2, <1>3 DEF Effective, Covers
<1> QED
  BY <1>4, <1>5 DEF b

\* A grant that is revoked leaves everybody else where they were.
THEOREM RevokeUndoesGrant ==
    ASSUME NEW a \in Acls, NEW u \in Principals, NEW perm \in SUBSET Perms
    PROVE  LET c == RevokeUser(GrantUser(a, u, perm), u)
           IN  /\ c.named[u] = NoEntry
               /\ \A p \in Principals \ {u} : Effective(c, p) = Effective(a, p)
               /\ GroupEffective(c) = GroupEffective(a)
<1> DEFINE b == GrantUser(a, u, perm)
<1>1. b \in Acls
  BY GrantParts
<1>2. Covers(b)
  BY GrantCovers
<1>3. /\ \A p \in Principals \ {u} : Effective(b, p) = Effective(a, p)
      /\ GroupEffective(b) = GroupEffective(a)
  BY GrantUnmasksNobody
<1> HIDE DEF b
<1>4. /\ \A p \in Principals \ {u} : Effective(RevokeUser(b, u), p) = Effective(b, p)
      /\ GroupEffective(RevokeUser(b, u)) = GroupEffective(b)
  BY <1>1, <1>2, RevokeUnmasksNobody
<1>5. RevokeUser(b, u).named[u] = NoEntry
  BY <1>1, RevokeRemoves
<1> QED
  BY <1>3, <1>4, <1>5 DEF b

-------------------------------------------------------------------------------
(***************************************************************************)
(* What others may do.                                                     *)
(***************************************************************************)
Types ==
    /\ exists \in SUBSET Nodes /\ Home \in exists
    /\ access \in [Nodes -> Acls] /\ access0 \in [Nodes -> Acls]
    /\ default \in [Dirs -> {NoEntry} \cup Acls] /\ default0 \in [Dirs -> {NoEntry} \cup Acls]
    /\ created \in SUBSET (exists \cap Dirs)
    /\ node \in exists /\ action \in {"none", "grant", "revoke"}
    /\ frames \in Seq([dir : Dirs, names : SUBSET exists])

\* What the walk has read is what is there, unless the approver has intervened.
Plan ==
    /\ \/ step = "next"
       \/ step \in {"readAccess", "writeAccess"} /\ action \in {"grant", "revoke"}
       \/ node \in Dirs /\ action \in {"grant", "revoke"} /\ step = "list"
       \/ node \in Dirs /\ action = "grant" /\ step \in {"grantDefault", "writeDefault"}
       \/ node \in Dirs /\ action = "revoke" /\ step \in {"revokeDefault", "unmark"}
    /\ step # "next" => saw \in Acls
    /\ step = "writeAccess" /\ node \notin restricted => saw = access[node]
    /\ step = "writeDefault" => default[node] = NoEntry

\* An agent's entry never comes with a mask that restricts somebody else.
SafeAcl(a) == a.named[Agent] = NoEntry \/ Covers(a)

AccessSafe ==
    \A n \in Nodes \ restricted :
        /\ access0[n].named[Agent] = NoEntry
        /\ SameForOthers(access[n], access0[n])
        /\ SafeAcl(access[n])

DefaultSafe ==
    \A d \in Dirs :
        /\ default0[d] # NoEntry => default[d] # NoEntry /\ SameForOthers(default[d], default0[d])
        /\ default[d] # NoEntry => SafeAcl(default[d])
        /\ d \in created => default0[d] = NoEntry

IInv == Types /\ Plan /\ AccessSafe /\ DefaultSafe

-------------------------------------------------------------------------------
\* No ACL is NoEntry, so a directory's default ACL is one or there is none.
LEMMA GrantSafe ==
    ASSUME NEW a \in Acls, NEW perm \in SUBSET Perms
    PROVE  /\ GrantUser(a, Agent, perm) \in Acls
           /\ SafeAcl(GrantUser(a, Agent, perm))
           /\ \A b : SameForOthers(a, b) => SameForOthers(GrantUser(a, Agent, perm), b)
<1> DEFINE g == GrantUser(a, Agent, perm)
<1>1. g \in Acls /\ Covers(g)
  BY HomeAssumption, GrantParts, GrantCovers
<1>2. /\ \A p \in Others : Effective(g, p) = Effective(a, p)
      /\ GroupEffective(g) = GroupEffective(a)
  BY HomeAssumption, GrantUnmasksNobody DEF Others
<1> HIDE DEF g
<1>3. SafeAcl(g)
  BY <1>1 DEF SafeAcl
<1>4. \A b : SameForOthers(a, b) => SameForOthers(g, b)
  BY <1>2 DEF SameForOthers
<1> QED
  BY <1>1, <1>3, <1>4 DEF g

LEMMA RevokeSafe ==
    ASSUME NEW a \in Acls, SafeAcl(a)
    PROVE  /\ RevokeUser(a, Agent) \in Acls
           /\ SafeAcl(RevokeUser(a, Agent))
           /\ \A b : SameForOthers(a, b) => SameForOthers(RevokeUser(a, Agent), b)
<1> DEFINE r == RevokeUser(a, Agent)
<1>1. r \in Acls /\ (a.named[Agent] = NoEntry => r = a)
  BY HomeAssumption, RevokeParts
<1>2. SafeAcl(r)
  BY HomeAssumption, RevokeRemoves DEF SafeAcl
<1>3. CASE a.named[Agent] = NoEntry
  BY <1>1, <1>2, <1>3
<1>4. CASE Covers(a)
  <2>1. /\ \A p \in Others : Effective(r, p) = Effective(a, p)
        /\ GroupEffective(r) = GroupEffective(a)
    BY <1>4, HomeAssumption, RevokeUnmasksNobody DEF Others
  <2> HIDE DEF r
  <2>2. \A b : SameForOthers(a, b) => SameForOthers(r, b)
    BY <2>1 DEF SameForOthers
  <2> QED
    BY <1>1, <1>2, <2>2 DEF r
<1> QED
  BY <1>3, <1>4 DEF SafeAcl

\* chmod and inheritance keep to ACLs and name nobody new.
LEMMA ModeSetParts ==
    ASSUME NEW a \in Acls, NEW mode \in SUBSET Perms
    PROVE  ModeSet(a, mode) \in Acls /\ ModeSet(a, mode).named = a.named
BY DEF ModeSet, Acls

LEMMA InheritedParts ==
    ASSUME NEW d \in Acls, NEW mode \in SUBSET Perms
    PROVE  Inherited(d, mode) \in Acls
<1>1. (mode \cap IF d.mask = NoEntry THEN d.group ELSE d.mask) \in SUBSET Perms
  OBVIOUS
<1> QED
  BY <1>1, ModeSetParts DEF Inherited

LEMMA BaseParts ==
    /\ \A a \in Acls : Base(a) \in Acls
    /\ \A mode \in SUBSET Perms : BaseAcl(Perms, mode, {}) \in Acls
                                  /\ BaseAcl(Perms, mode, {}).named = NobodyNamed
    /\ BaseAcl({}, {}, {}) \in Acls /\ BaseAcl({}, {}, {}).named = NobodyNamed
BY DEF Base, BaseAcl, Acls, NobodyNamed

LEMMA SameAsItself == \A a : SameForOthers(a, a)
BY DEF SameForOthers

LEMMA PermissionBits == \A n, a : Permission(n, a) \in SUBSET Perms
BY DEF Permission, Perms

-------------------------------------------------------------------------------
LEMMA InitInv == Init => IInv
<1> SUFFICES ASSUME Init PROVE IInv
  OBVIOUS
<1> USE HomeAssumption
<1>1. PICK a \in [exists -> InitialAcls], d \in [exists \cap Dirs -> InitialDefaults] :
          /\ access = [n \in Nodes |-> IF n \in exists THEN a[n] ELSE BaseAcl({}, {}, {})]
          /\ default = [n \in Dirs |-> IF n \in exists THEN d[n] ELSE NoEntry]
  BY DEF Init
<1>2. exists \in SUBSET Nodes /\ Home \in exists
  BY DEF Init
<1>3. \A n \in Nodes : access[n] \in Acls /\ access[n].named[Agent] = NoEntry
  BY <1>1, <1>2, BaseParts DEF NobodyNamed
<1>4. \A n \in Dirs : default[n] # NoEntry =>
          default[n] \in Acls /\ default[n].named[Agent] = NoEntry
  BY <1>1
<1>5. Types
  BY <1>1, <1>2, <1>3, <1>4 DEF Init, Types
<1>6. Plan
  BY DEF Init, Plan
<1>7. AccessSafe
  BY <1>3, SameAsItself DEF Init, AccessSafe, SafeAcl
<1>8. DefaultSafe
  BY <1>4, SameAsItself DEF Init, DefaultSafe, SafeAcl
<1> QED
  BY <1>5, <1>6, <1>7, <1>8 DEF IInv

\* A node is opened.
LEMMA VisitPlan ==
    ASSUME Types, NEW a \in {"grant", "revoke"}, NEW n \in exists,
           action' = a, Visit(a, n), UNCHANGED <<exists, access, default, restricted>>
    PROVE  Plan' /\ node' \in exists'
<1> USE HomeAssumption
<1>1. n \in Dirs \/ n \in Files
  BY DEF Types, Nodes
<1>2. node' = n /\ saw' = access[n] /\ saw' \in Acls
  BY DEF Visit, Types, Nodes
<1>3. \/ step' = "readAccess"
      \/ step' = "revokeDefault" /\ a = "revoke" /\ n \in Dirs
  BY <1>1 DEF Visit, Order
<1> QED
  BY <1>2, <1>3 DEF Plan

\* What a step leaves alone keeps its part of the invariant.
LEMMA AccessKept ==
    ASSUME AccessSafe, UNCHANGED <<access, access0, restricted>>
    PROVE  AccessSafe'
BY DEF AccessSafe, SafeAcl, SameForOthers

LEMMA DefaultKept ==
    ASSUME DefaultSafe, UNCHANGED <<default, default0>>, created' \subseteq created
    PROVE  DefaultSafe'
BY DEF DefaultSafe, SafeAcl, SameForOthers

LEMMA StartInv ==
    ASSUME IInv, NEW a \in {"grant", "revoke"}, Start(a)
    PROVE  IInv'
<1> USE HomeAssumption DEF IInv
<1>1. Plan' /\ node' \in exists'
  BY VisitPlan DEF Start, Types, tree
<1>2. Types'
  BY <1>1, EmptySeq DEF Start, Types, tree
<1>3. AccessSafe' /\ DefaultSafe'
  BY AccessKept, DefaultKept DEF Start
<1> QED
  BY <1>1, <1>2, <1>3

LEMMA RevokeDefaultInv ==
    ASSUME IInv, RevokeDefault
    PROVE  IInv'
<1> USE HomeAssumption DEF IInv
<1>1. node \in Dirs /\ action = "revoke" /\ saw \in Acls /\ node \notin Files
  BY DEF RevokeDefault, Plan
<1>2. PICK new \in {NoEntry} \cup Acls :
          /\ default' = [default EXCEPT ![node] = new]
          /\ new # NoEntry => SafeAcl(new)
          /\ default0[node] # NoEntry =>
                new # NoEntry /\ SameForOthers(new, default0[node])
  <2>1. CASE default[node] = NoEntry
    <3>1. default0[node] = NoEntry
      BY <1>1, <2>1 DEF DefaultSafe
    <3> QED
      BY <2>1, <3>1 DEF RevokeDefault
  <2>2. CASE default[node] # NoEntry
    <3> DEFINE left == RevokeUser(default[node], Agent)
    <3>1. default[node] \in Acls /\ SafeAcl(default[node])
      BY <1>1, <2>2 DEF Types, DefaultSafe
    <3>2. /\ left \in Acls /\ SafeAcl(left)
          /\ default0[node] # NoEntry => SameForOthers(left, default0[node])
      BY <1>1, <3>1, RevokeSafe DEF DefaultSafe
    <3>3. left # NoEntry
      BY <3>2, NoEntryAssumption
    <3>4. \/ default' = [default EXCEPT ![node] = NoEntry] /\ node \in created
          \/ default' = [default EXCEPT ![node] = left]
      BY <2>2 DEF RevokeDefault
    <3> HIDE DEF left
    <3>5. node \in created => default0[node] = NoEntry
      BY <1>1 DEF DefaultSafe
    <3> QED
      BY <3>2, <3>3, <3>4, <3>5
  <2> QED
    BY <2>1, <2>2
<1>3. Types'
  BY <1>2 DEF RevokeDefault, Types, tree, history
<1>4. step' \in {"unmark", "readAccess"}
  BY <1>1 DEF RevokeDefault, Then, Order
<1>5. Plan'
  BY <1>1, <1>4 DEF RevokeDefault, Plan, history
<1>6. DefaultSafe'
  BY <1>1, <1>2 DEF RevokeDefault, DefaultSafe, SafeAcl, SameForOthers, history, Types
<1>7. AccessSafe'
  BY AccessKept DEF RevokeDefault, history
<1> QED
  BY <1>3, <1>5, <1>6, <1>7

LEMMA UnmarkInv ==
    ASSUME IInv, Unmark
    PROVE  IInv'
<1> USE HomeAssumption DEF IInv
<1>1. node \in Dirs /\ node \notin Files /\ action = "revoke" /\ saw \in Acls
  BY DEF Unmark, Plan
<1>2. Types'
  BY DEF Unmark, Types, tree, history
<1>3. Plan'
  BY <1>1 DEF Unmark, Plan, Then, Order, history
<1>4. AccessSafe' /\ DefaultSafe'
  BY AccessKept, DefaultKept DEF Unmark, history
<1> QED
  BY <1>2, <1>3, <1>4

LEMMA ReadAccessInv ==
    ASSUME IInv, ReadAccess
    PROVE  IInv'
<1> USE HomeAssumption DEF IInv
<1>1. node \in Nodes /\ action \in {"grant", "revoke"} /\ (node \in Dirs \/ node \in Files)
  BY DEF ReadAccess, Plan, Types, Nodes
<1>2. Types'
  BY DEF ReadAccess, Types, tree, history
<1>3. step' = "writeAccess"
  BY DEF ReadAccess, Then, Order
<1>4. access[node] \in Acls
  BY <1>1 DEF Types
<1>5. Plan'
  BY <1>1, <1>3, <1>4 DEF ReadAccess, Plan, history
<1>6. AccessSafe' /\ DefaultSafe'
  BY AccessKept, DefaultKept DEF ReadAccess, history
<1> QED
  BY <1>2, <1>5, <1>6

LEMMA WriteAccessInv ==
    ASSUME IInv, WriteAccess
    PROVE  IInv'
<1> USE HomeAssumption DEF IInv
<1>1. /\ node \in Nodes /\ action \in {"grant", "revoke"}
      /\ node \in Dirs \/ node \in Files
      /\ saw \in Acls
      /\ node \notin restricted => saw = access[node]
  BY DEF WriteAccess, Plan, Types, Nodes
<1>2. PICK new \in Acls :
          /\ saw' = new
          /\ access' = [access EXCEPT ![node] = new] \/ access' = access
          /\ node \notin restricted =>
                SafeAcl(new) /\ SameForOthers(new, access0[node])
  <2>1. CASE action = "grant"
    <3>1. saw' = GrantUser(saw, Agent, Permission(node, saw))
          /\ access' = [access EXCEPT ![node] = saw']
      BY <2>1 DEF WriteAccess
    <3>2. /\ saw' \in Acls /\ SafeAcl(saw')
          /\ \A b : SameForOthers(saw, b) => SameForOthers(saw', b)
      BY <1>1, <3>1, GrantSafe, PermissionBits
    <3> QED
      BY <1>1, <3>1, <3>2 DEF AccessSafe
  <2>2. CASE action = "revoke"
    <3>1. /\ saw' = RevokeUser(saw, Agent)
          /\ access' = [access EXCEPT ![node] = saw'] \/ access' = access
      BY <2>2 DEF WriteAccess
    <3>2. saw' \in Acls
      BY <1>1, <3>1, RevokeParts
    <3>3. ASSUME node \notin restricted
          PROVE  SafeAcl(saw') /\ SameForOthers(saw', access0[node])
      BY <1>1, <3>1, <3>3, RevokeSafe DEF AccessSafe
    <3> QED
      BY <3>1, <3>2, <3>3
  <2> QED
    BY <1>1, <2>1, <2>2
<1>3. Types'
  BY <1>2 DEF WriteAccess, Types, tree, history
<1>4. step' = IF node \in Files THEN "next" ELSE IF action = "grant" THEN "grantDefault" ELSE "list"
  BY <1>1 DEF WriteAccess, Then, Order
<1>5. Plan'
  BY <1>1, <1>2, <1>4 DEF WriteAccess, Plan, history
<1>6. AccessSafe'
  BY <1>1, <1>2 DEF WriteAccess, AccessSafe, SafeAcl, SameForOthers, history, Types
<1>7. DefaultSafe'
  BY DefaultKept DEF WriteAccess, history
<1> QED
  BY <1>3, <1>5, <1>6, <1>7

\* A default ACL that is written keeps the invariant if it is safe and does to
\* others what the one before it did.
LEMMA DefaultWritten ==
    ASSUME DefaultSafe, Types, node \in Dirs, NEW new \in Acls, SafeAcl(new),
           default' = [default EXCEPT ![node] = new], default0' = default0,
           default0[node] # NoEntry => SameForOthers(new, default0[node]),
           \A d \in Dirs : d \in created' => default0[d] = NoEntry
    PROVE  DefaultSafe'
<1>1. new # NoEntry
  BY NoEntryAssumption
<1> QED
  BY <1>1 DEF DefaultSafe, SafeAcl, SameForOthers, Types

LEMMA GrantDefaultInv ==
    ASSUME IInv, GrantDefault
    PROVE  IInv'
<1> USE HomeAssumption DEF IInv
<1>1. node \in Dirs /\ node \notin Files /\ action = "grant" /\ saw \in Acls
  BY DEF GrantDefault, Plan
<1>2. CASE default[node] = NoEntry
  <2>1. created' = created \cup {node} /\ step' = "writeDefault" /\ default' = default
    BY <1>2 DEF GrantDefault
  <2>2. Types'
    BY <1>1, <2>1 DEF GrantDefault, Types, tree, history
  <2>3. Plan'
    BY <1>1, <1>2, <2>1 DEF GrantDefault, Plan, history
  <2>4. DefaultSafe'
    BY <1>1, <1>2, <2>1 DEF GrantDefault, DefaultSafe, SafeAcl, SameForOthers, history
  <2>5. AccessSafe'
    BY AccessKept DEF GrantDefault, history
  <2> QED
    BY <2>2, <2>3, <2>4, <2>5
<1>3. CASE default[node] # NoEntry
  <2> DEFINE new == GrantUser(default[node], Agent, Perms)
  <2>1. /\ created' = created /\ step' = "list"
        /\ default' = [default EXCEPT ![node] = new]
    BY <1>1, <1>3 DEF GrantDefault, Then, Order
  <2>2. default[node] \in Acls
    BY <1>1, <1>3 DEF Types
  <2>3. /\ new \in Acls /\ SafeAcl(new)
        /\ default0[node] # NoEntry => SameForOthers(new, default0[node])
    BY <1>1, <2>2, GrantSafe DEF DefaultSafe
  <2> HIDE DEF new
  <2>4. Types'
    BY <2>1, <2>3 DEF GrantDefault, Types, tree, history
  <2>5. Plan'
    BY <1>1, <2>1 DEF GrantDefault, Plan, history
  <2>6. \A d \in Dirs : d \in created' => default0[d] = NoEntry
    BY <2>1 DEF DefaultSafe
  <2>7. DefaultSafe'
    BY <1>1, <2>1, <2>3, <2>6, DefaultWritten DEF GrantDefault, history
  <2>8. AccessSafe'
    BY AccessKept DEF GrantDefault, history
  <2> QED
    BY <2>4, <2>5, <2>7, <2>8
<1> QED
  BY <1>2, <1>3

LEMMA WriteDefaultInv ==
    ASSUME IInv, WriteDefault
    PROVE  IInv'
<1> USE HomeAssumption DEF IInv
<1> DEFINE new == GrantUser(Base(saw), Agent, Perms)
<1>1. /\ node \in Dirs /\ node \notin Files /\ action = "grant" /\ saw \in Acls
      /\ default[node] = NoEntry
  BY DEF WriteDefault, Plan
<1>2. default0[node] = NoEntry
  BY <1>1 DEF DefaultSafe
<1>3. new \in Acls /\ SafeAcl(new)
  BY <1>1, BaseParts, GrantSafe
<1>4. default' = [default EXCEPT ![node] = new] /\ step' = "list"
  BY <1>1 DEF WriteDefault, Then, Order
<1> HIDE DEF new
<1>5. Types'
  BY <1>3, <1>4 DEF WriteDefault, Types, tree, history
<1>6. Plan'
  BY <1>1, <1>4 DEF WriteDefault, Plan, history
<1>7. \A d \in Dirs : d \in created' => default0[d] = NoEntry
  BY DEF WriteDefault, DefaultSafe
<1>8. DefaultSafe'
  BY <1>1, <1>2, <1>3, <1>4, <1>7, DefaultWritten DEF WriteDefault, history
<1>9. AccessSafe'
  BY AccessKept DEF WriteDefault, history
<1> QED
  BY <1>5, <1>6, <1>8, <1>9

LEMMA ListInv ==
    ASSUME IInv, List
    PROVE  IInv'
<1> USE HomeAssumption DEF IInv
<1> DEFINE F == [dir : Dirs, names : SUBSET exists]
           new == [dir |-> node, names |-> {n \in exists \ {Home} : parent[n] = node}]
<1>1. node \in Dirs /\ node \notin Files /\ action \in {"grant", "revoke"} /\ saw \in Acls
  BY DEF List, Plan
<1>2. frames' = Append(frames, new) /\ step' = "next"
  BY <1>1 DEF List, Then, Order
<1>3. frames \in Seq(F) /\ new \in F
  BY <1>1 DEF Types
<1>4. frames' \in Seq(F)
  <2> HIDE DEF F, new
  <2> QED
    BY <1>2, <1>3
<1>5. Types'
  BY <1>4 DEF List, Types, tree, history
<1>6. Plan'
  BY <1>2 DEF List, Plan
<1>7. AccessSafe' /\ DefaultSafe'
  BY AccessKept, DefaultKept DEF List, history
<1> QED
  BY <1>5, <1>6, <1>7

LEMMA NextNameInv ==
    ASSUME IInv, NEW n \in Nodes, NextName(n)
    PROVE  IInv'
<1> USE HomeAssumption DEF IInv
<1> DEFINE F == [dir : Dirs, names : SUBSET exists]
           i == Len(frames)
           new == [frames[i] EXCEPT !.names = @ \ {n}]
<1>1. frames \in Seq(F) /\ frames # <<>>
  BY DEF Types, NextName
<1>2. i \in 1..Len(frames)
  <2> HIDE DEF F
  <2> QED
    BY <1>1, EmptySeq
<1>3. frames[i] \in F
  <2> HIDE DEF F
  <2> QED
    BY <1>1, <1>2, ElementOfSeq
<1>4. new \in F /\ n \in exists
  BY <1>3 DEF NextName, Innermost
<1>5. frames' = [frames EXCEPT ![i] = new]
  BY DEF NextName
<1>6. frames' \in Seq(F)
  <2> HIDE DEF F, new, i
  <2> QED
    BY <1>1, <1>2, <1>4, <1>5, ExceptSeq DEF i
<1>7. Plan' /\ node' \in exists'
  <2>1. CASE parent[n] = Innermost.dir
    <3>1. Visit(action, n)
      BY <2>1 DEF NextName
    <3>2. action \in {"grant", "revoke"}
      BY DEF NextName, Types
    <3> QED
      BY <1>4, <3>1, <3>2, VisitPlan DEF NextName, tree, history
  <2>2. CASE parent[n] # Innermost.dir
    BY <2>2 DEF NextName, Plan, Types, tree, history
  <2> QED
    BY <2>1, <2>2
<1>8. Types'
  BY <1>6, <1>7 DEF NextName, Types, tree, history
<1>9. AccessSafe' /\ DefaultSafe'
  BY AccessKept, DefaultKept DEF NextName, history
<1> QED
  BY <1>7, <1>8, <1>9

LEMMA LastNameInv ==
    ASSUME IInv, LastName
    PROVE  IInv'
<1> USE HomeAssumption DEF IInv
<1> DEFINE F == [dir : Dirs, names : SUBSET exists]
<1>1. frames \in Seq(F) /\ frames' = SubSeq(frames, 1, Len(frames) - 1)
  BY DEF Types, LastName
<1>2. frames' \in Seq(F)
  <2> HIDE DEF F
  <2>1. Len(frames) \in Nat /\ \A j \in 1..Len(frames) - 1 : frames[j] \in F
    BY <1>1, ElementOfSeq, LenProperties
  <2> QED
    BY <1>1, <2>1, SubSeqProperties
<1>3. Types'
  BY <1>2 DEF LastName, Types, tree, history
<1>4. Plan'
  BY DEF LastName, Plan, history
<1>5. AccessSafe' /\ DefaultSafe'
  BY AccessKept, DefaultKept DEF LastName, history
<1> QED
  BY <1>3, <1>4, <1>5

\* The walk ends, well or not.
LEMMA LeaveInv ==
    ASSUME IInv, Finish \/ Fail
    PROVE  IInv'
<1> USE HomeAssumption DEF IInv
<1>1. /\ Leave /\ created' \subseteq created
      /\ UNCHANGED <<exists, access, default, access0, default0, restricted>>
  BY DEF Finish, Fail, tree, history
<1>2. Types'
  BY <1>1, EmptySeq DEF Types, Leave
<1>3. Plan'
  BY <1>1 DEF Plan, Leave
<1>4. AccessSafe' /\ DefaultSafe'
  BY <1>1, AccessKept, DefaultKept
<1> QED
  BY <1>2, <1>3, <1>4

LEMMA CreateInv ==
    ASSUME IInv, NEW n \in Nodes, NEW dir \in Dirs, NEW mode \in Modes, Create(n, dir, mode)
    PROVE  IInv'
<1> USE HomeAssumption DEF IInv
<1>1. mode \in SUBSET Perms /\ n \notin exists /\ n # node /\ n \notin created
      /\ exists' = exists \cup {n}
  BY DEF Create, Types
<1>2. PICK new \in Acls :
          /\ access' = [access EXCEPT ![n] = new] /\ access0' = [access0 EXCEPT ![n] = new]
          /\ restricted' = IF new.named[Agent] # NoEntry THEN restricted \cup {n} ELSE restricted
  <2>1. CASE default[dir] # NoEntry
    <3>1. default[dir] \in Acls
      BY <2>1 DEF Types
    <3>2. Inherited(default[dir], mode) \in Acls
      BY <1>1, <3>1, InheritedParts
    <3> QED
      BY <2>1, <3>2 DEF Create
  <2>2. CASE default[dir] = NoEntry
    <3>1. BaseAcl(Perms, mode, {}) \in Acls
      BY <1>1, BaseParts
    <3> QED
      BY <2>2, <3>1 DEF Create
  <2> QED
    BY <2>1, <2>2
<1>3. \/ n \in Dirs /\ default' = [default EXCEPT ![n] = default[dir]]
                   /\ default0' = [default0 EXCEPT ![n] = default[dir]]
      \/ default' = default /\ default0' = default0
  BY DEF Create
<1>4. frames' \in Seq([dir : Dirs, names : SUBSET (exists')])
  <2> DEFINE F == [dir : Dirs, names : SUBSET exists]
             G == [dir : Dirs, names : SUBSET (exists')]
  <2>1. F \subseteq G /\ frames \in Seq(F) /\ frames' = frames
    BY <1>1 DEF Types, Create, walk
  <2> HIDE DEF F, G
  <2>2. frames' \in Seq(G)
    BY <2>1, SeqMonotonic
  <2> QED
    BY <2>2 DEF G
<1>5. Types'
  BY <1>1, <1>2, <1>3, <1>4 DEF Create, Types, walk
<1>6. Plan'
  BY <1>1, <1>2, <1>3 DEF Create, Plan, walk, Types
<1>7. AccessSafe'
  BY <1>2, SameAsItself DEF AccessSafe, SafeAcl, SameForOthers, Types
<1>8. DefaultSafe'
  <2>1. created' = created
    BY DEF Create
  <2>2. CASE default' = default /\ default0' = default0
    BY <2>1, <2>2, DefaultKept
  <2>3. CASE n \in Dirs /\ default' = [default EXCEPT ![n] = default[dir]]
                       /\ default0' = [default0 EXCEPT ![n] = default[dir]]
    BY <1>1, <2>1, <2>3, SameAsItself DEF DefaultSafe, SafeAcl, SameForOthers, Types
  <2> QED
    BY <1>3, <2>2, <2>3
<1> QED
  BY <1>5, <1>6, <1>7, <1>8

LEMMA ChmodInv ==
    ASSUME IInv, NEW n \in Nodes, NEW mode \in Modes, Chmod(n, mode)
    PROVE  IInv'
<1> USE HomeAssumption DEF IInv
<1> DEFINE new == ModeSet(access[n], mode)
           new0 == ModeSet(access0[n], mode)
<1>1. /\ new \in Acls /\ new.named = access[n].named
      /\ new0 \in Acls /\ new0.named = access0[n].named
  BY ModeSetParts DEF Types
<1>2. /\ access' = [access EXCEPT ![n] = new] /\ access0' = [access0 EXCEPT ![n] = new0]
      /\ restricted' \in {restricted, restricted \cup {n}}
      /\ n \notin restricted' => access[n] = access0[n] /\ ~(n = node /\ step = "writeAccess")
  BY DEF Chmod
<1>3. access[n] = access0[n] => new = new0
  OBVIOUS
<1> HIDE DEF new, new0
<1>4. Types'
  BY <1>1, <1>2 DEF Chmod, Types, tree, walk
<1>5. Plan'
  BY <1>2 DEF Chmod, Plan, walk, Types
<1>6. AccessSafe'
  <2> SUFFICES ASSUME NEW m \in Nodes \ restricted'
               PROVE  /\ access0'[m].named[Agent] = NoEntry
                      /\ SameForOthers(access'[m], access0'[m])
                      /\ SafeAcl(access'[m])
    BY DEF AccessSafe, SafeAcl, SameForOthers
  <2>1. m \notin restricted
    BY <1>2
  <2>2. CASE m = n
    BY <1>1, <1>2, <1>3, <2>1, <2>2, SameAsItself DEF AccessSafe, SafeAcl, Types
  <2>3. CASE m # n
    BY <1>2, <2>1, <2>3 DEF AccessSafe, Types
  <2> QED
    BY <2>2, <2>3
<1>7. DefaultSafe'
  BY DefaultKept DEF Chmod
<1> QED
  BY <1>4, <1>5, <1>6, <1>7

LEMMA MoveInv ==
    ASSUME IInv, NEW n \in Files, NEW dir \in Dirs, Move(n, dir)
    PROVE  IInv'
<1> USE DEF IInv
<1>1. Types' /\ Plan'
  BY DEF Move, Types, Plan, walk
<1>2. AccessSafe' /\ DefaultSafe'
  BY AccessKept, DefaultKept DEF Move
<1> QED
  BY <1>1, <1>2

LEMMA NextInv ==
    ASSUME IInv, [Next]_vars
    PROVE  IInv'
<1>1. CASE Next
  BY <1>1, StartInv, RevokeDefaultInv, UnmarkInv, ReadAccessInv, WriteAccessInv,
     GrantDefaultInv, WriteDefaultInv, ListInv, NextNameInv, LastNameInv, LeaveInv,
     CreateInv, ChmodInv, MoveInv DEF Next
<1>2. CASE UNCHANGED vars
  <2>1. Types' /\ Plan'
    BY <1>2 DEF IInv, Types, Plan, vars, tree, walk, history
  <2>2. AccessSafe' /\ DefaultSafe'
    BY <1>2, AccessKept, DefaultKept DEF IInv, vars, history
  <2> QED
    BY <2>1, <2>2 DEF IInv
<1> QED
  BY <1>1, <1>2

\* For any tree, any ACLs and any number of walks, complete or not: every user
\* and group but the agent can do what it could have done without the broker,
\* at every node whose mode the approver has left alone while the agent's entry
\* was there.
THEOREM OthersAlwaysUnaffected == Spec => []OthersUnaffected
<1>1. IInv => OthersUnaffected
  BY DEF IInv, Types, AccessSafe, DefaultSafe, OthersUnaffected
<1> QED
  BY <1>1, InitInv, NextInv, PTL DEF Spec

-------------------------------------------------------------------------------
(***************************************************************************)
(* Complete walks.                                                         *)
(***************************************************************************)
\* What is not said of the state above.
Shape ==
    /\ parent \in [Nodes -> Dirs] /\ parent[Home] = Home /\ complete \in BOOLEAN
    /\ result \in {"none", "enabled", "disabled", "failed"}
    /\ saw \in {NoEntry} \cup Acls
    /\ moved \in SUBSET [file : Files, during : {"grant", "revoke"}]
    /\ changed \in SUBSET Nodes /\ restricted \in SUBSET Nodes
    /\ changes \in 0..MaxChanges
    /\ action = "none" <=> saw = NoEntry
    /\ action = "none" => step = "next" /\ frames = <<>>
    /\ action # "none" => result = "none"
    /\ step # "next" => (node = Home <=> frames = <<>>)
    /\ \A i \in DOMAIN frames : (frames[i].dir = Home <=> i = 1) /\ Home \notin frames[i].names

\* Everything that exists is reached from Home.
Connected ==
    \A S \in SUBSET Nodes :
        Home \in S /\ (\A n \in exists : parent[n] \in S => n \in S) => exists \subseteq S

\* The nodes that the walk has yet to open and knows by name, and the one it is at.
Due == {n \in exists : \E i \in DOMAIN frames : n \in frames[i].names /\ parent[n] = frames[i].dir}
         \cup (IF step # "next" THEN {node} ELSE {})

\* All it has yet to visit: those and what is below them.
Ahead ==
    {n \in Nodes : \A S \in SUBSET Nodes :
        Due \subseteq S /\ (\A m \in exists : parent[m] \in S => m \in S) => n \in S}

\* What a grant and a revoke leave at a node they have been to.
AccessGranted(n) ==
    /\ access[n].named[Agent] # NoEntry
    /\ n \notin changed => UserHas(access[n], Agent, {"r", "w"})
DefaultGranted(n) == default[n] # NoEntry /\ UserHas(default[n], Agent, Perms)
Granted(n) == AccessGranted(n) /\ (n \in Dirs => DefaultGranted(n))

AccessRevoked(n) == access[n].named[Agent] = NoEntry
DefaultRevoked(n) ==
    /\ default[n] # NoEntry => default[n].named[Agent] = NoEntry
    /\ default0[n] = NoEntry => default[n] = NoEntry
Revoked(n) == AccessRevoked(n) /\ (n \in Dirs => DefaultRevoked(n))

HomeNamed == default[Home] # NoEntry /\ default[Home].named[Agent] # NoEntry

\* A grant has been everywhere but ahead; what is created behind it inherits.
Granting ==
    action = "grant" =>
        /\ ~complete
        /\ \A n \in exists \ MovedDuring("grant") : n \in Ahead \/ Granted(n)
        /\ step \in {"grantDefault", "writeDefault", "list"} => AccessGranted(node)
        /\ step = "list" => DefaultGranted(node)

\* The marker stays with the first revoke until that is over, but Home is changed first.
Completed ==
    complete /\ action # "grant" /\ HomeNamed =>
        \A n \in exists \ MovedDuring("grant") : Granted(n)

\* A revoke has been everywhere but ahead, and nothing it has left behind hands on the entry.
Revoking ==
    action = "revoke" =>
        /\ \A n \in exists \ MovedDuring("revoke") : n \in Ahead \/ Revoked(n)
        /\ node \in Dirs /\ step \in {"unmark", "readAccess", "writeAccess", "list"} => DefaultRevoked(node)
        /\ step = "list" => AccessRevoked(node)
        /\ HomeNamed => node = Home /\ step = "revokeDefault"
        /\ step = "writeAccess" => saw.named = access[node].named

\* Nothing is left, or comes back, after a complete revoke.
Cleared == result = "disabled" => \A n \in exists \ MovedDuring("revoke") : Revoked(n)

\* A default ACL where there was none is the broker's, and marked.
Made ==
    /\ \A d \in Dirs : default0[d] = NoEntry /\ default[d] # NoEntry =>
          d \in created /\ \A p \in Others : default[d].named[p] = NoEntry
    /\ step = "writeDefault" => node \in created
    /\ step = "unmark" => default[node] = NoEntry

Walk == IInv /\ Shape /\ Connected /\ Granting /\ Completed /\ Revoking /\ Cleared /\ Made

-------------------------------------------------------------------------------
(* What the walk has yet to visit.                                         *)

LEMMA DueParts == Types => Due \in SUBSET exists /\ exists \in SUBSET Nodes
BY DEF Types, Due

LEMMA AheadLeast ==
    ASSUME Types
    PROVE  /\ Due \subseteq Ahead /\ Ahead \in SUBSET Nodes
           /\ \A m \in exists : parent[m] \in Ahead => m \in Ahead
           /\ \A S \in SUBSET Nodes :
                 Due \subseteq S /\ (\A m \in exists : parent[m] \in S => m \in S)
                    => Ahead \subseteq S
<1>1. Due \in SUBSET Nodes /\ exists \in SUBSET Nodes
  BY DueParts
<1> QED
  BY <1>1 DEF Ahead

\* Nothing is left out but X: what was to be visited still is, and the children of those
\* in X are due.
LEMMA AheadKept ==
    ASSUME Types, Types', NEW X \in SUBSET Nodes, Due \subseteq Due' \cup X,
           \A m \in exists \ X : m \in exists' /\ parent'[m] = parent[m],
           \A m \in exists \ X : parent[m] \in X => m \in Due'
    PROVE  \A n \in Ahead : n \in Ahead' \/ n \in X
<1> DEFINE B == Ahead'
<1>1. Due' \in SUBSET Nodes
  BY DEF Types, Due
<1>2. /\ Due' \subseteq B /\ B \in SUBSET Nodes
      /\ \A m \in exists' : m \in Nodes /\ (parent'[m] \in B => m \in B)
  BY <1>1 DEF Ahead, Types
<1> HIDE DEF B
<1>3. B \cup X \in SUBSET Nodes /\ Due \subseteq B \cup X
  BY <1>2
<1>4. \A m \in exists : parent[m] \in B \cup X => m \in B \cup X
  BY <1>2
<1>5. Ahead \subseteq B \cup X
  BY <1>3, <1>4, AheadLeast
<1> QED
  BY <1>5 DEF B

LEMMA AheadSame ==
    ASSUME Due' = Due, UNCHANGED tree
    PROVE  Ahead' = Ahead
BY DEF Ahead, tree

\* The nodes and what was said of their ACLs stay as they are.
LEMMA AclsSame ==
    ASSUME UNCHANGED <<access, default, default0, changed>>
    PROVE  /\ \A n : /\ AccessGranted(n)' = AccessGranted(n) /\ Granted(n)' = Granted(n)
                     /\ DefaultGranted(n)' = DefaultGranted(n)
                     /\ AccessRevoked(n)' = AccessRevoked(n) /\ Revoked(n)' = Revoked(n)
                     /\ DefaultRevoked(n)' = DefaultRevoked(n)
           /\ HomeNamed' = HomeNamed
BY DEF AccessGranted, DefaultGranted, Granted, AccessRevoked, DefaultRevoked, Revoked, HomeNamed,
       UserHas, Effective, EffectiveMask

LEMMA MovedSame ==
    ASSUME UNCHANGED moved, NEW a
    PROVE  MovedDuring(a)' = MovedDuring(a)
BY DEF MovedDuring

\* Directories are not moved.
LEMMA DirsStay == \A a : Shape => \A d \in Dirs : d \notin MovedDuring(a)
BY HomeAssumption DEF Shape, MovedDuring

\* A step at a node; whether the walk is complete is not asked meanwhile.
LEMMA StepInWalk ==
    ASSUME Walk, step # "next", UNCHANGED <<tree, complete, action, node, frames, result, history>>,
           saw' \in Acls, action = "revoke" => ~HomeNamed'
    PROVE  /\ Shape' /\ Connected' /\ Completed' /\ Cleared'
           /\ \A a : MovedDuring(a)' = MovedDuring(a)
           /\ step' # "next" => Ahead' = Ahead
<1>1. action # "none" /\ Shape /\ Connected /\ result = "none"
  BY DEF Walk, Shape
<1>2. Shape'
  BY <1>1, NoEntryAssumption DEF Shape, tree, history
<1>3. Connected'
  BY <1>1 DEF Connected, tree
<1>4. Completed' /\ Cleared'
  BY <1>1 DEF Completed, Cleared, Walk, IInv, Types
<1>5. \A a : MovedDuring(a)' = MovedDuring(a)
  BY MovedSame DEF history
<1>6. step' # "next" => Due' = Due
  BY DEF Due, tree
<1> QED
  BY <1>2, <1>3, <1>4, <1>5, <1>6, AheadSame

LEMMA NodeParts ==
    ASSUME Walk, step # "next"
    PROVE  /\ action \in {"grant", "revoke"} /\ saw \in Acls
           /\ node \in Nodes /\ node \in exists /\ (node \in Dirs <=> node \notin Files)
           /\ access[node] \in Acls
           /\ step \notin {"readAccess", "writeAccess"} => node \in Dirs
           /\ step \in {"revokeDefault", "unmark"} => action = "revoke"
           /\ step \in {"grantDefault", "writeDefault"} => action = "grant"
           /\ node \in Dirs /\ default[node] # NoEntry => default[node] \in Acls
<1>1. Types /\ Plan
  BY DEF Walk, IInv
<1>2. /\ node \in exists /\ exists \in SUBSET Nodes /\ access \in [Nodes -> Acls]
      /\ default \in [Dirs -> {NoEntry} \cup Acls]
  BY <1>1 DEF Types
<1>3. /\ action \in {"grant", "revoke"} /\ saw \in Acls
      /\ step \notin {"readAccess", "writeAccess"} => node \in Dirs
      /\ step \in {"revokeDefault", "unmark"} => action = "revoke"
      /\ step \in {"grantDefault", "writeDefault"} => action = "grant"
  BY <1>1 DEF Plan
<1> QED
  BY <1>2, <1>3, HomeAssumption DEF Nodes

LEMMA ReadAccessWalk ==
    ASSUME Walk, ReadAccess
    PROVE  Walk'
<1>0. /\ step = "readAccess" /\ saw' = access[node] /\ step' = "writeAccess"
      /\ UNCHANGED <<tree, access, default, created, complete, action, node, frames, result, history>>
  <2>1. step' = "writeAccess"
    BY NodeParts DEF ReadAccess, Then, Order
  <2> QED
    BY <2>1 DEF ReadAccess
<1>1. IInv'
  BY ReadAccessInv DEF Walk
<1>2. /\ node \in Nodes /\ saw' \in Acls /\ Granting /\ Revoking /\ Made
  BY <1>0, NodeParts DEF Walk
<1>3. /\ AccessGranted(node)' = AccessGranted(node) /\ DefaultGranted(node)' = DefaultGranted(node)
      /\ AccessRevoked(node)' = AccessRevoked(node) /\ DefaultRevoked(node)' = DefaultRevoked(node)
      /\ \A n : Granted(n)' = Granted(n) /\ Revoked(n)' = Revoked(n)
      /\ HomeNamed' = HomeNamed
  BY <1>0, AclsSame DEF history
<1>4. action = "revoke" => ~HomeNamed
  BY <1>0, <1>2 DEF Revoking
<1>5. /\ Shape' /\ Connected' /\ Completed' /\ Cleared' /\ Ahead' = Ahead
      /\ \A b : MovedDuring(b)' = MovedDuring(b)
  BY <1>0, <1>2, <1>3, <1>4, StepInWalk
<1>6. Granting'
  BY <1>0, <1>2, <1>3, <1>5 DEF Granting, tree
<1>7. Revoking'
  BY <1>0, <1>2, <1>3, <1>4, <1>5 DEF Revoking, tree
<1>8. Made'
  BY <1>0, <1>2 DEF Made, history
<1> QED
  BY <1>1, <1>5, <1>6, <1>7, <1>8 DEF Walk

LEMMA UnmarkWalk ==
    ASSUME Walk, Unmark
    PROVE  Walk'
<1>0. /\ step = "unmark" /\ step' = "readAccess" /\ action = "revoke" /\ node \in Dirs
      /\ created' \in {created, created \ {node}}
      /\ UNCHANGED <<tree, access, default, complete, action, node, saw, frames, result, history>>
  <2>1. step = "unmark" /\ action = "revoke" /\ node \in Dirs /\ node \notin Files
    BY NodeParts DEF Unmark
  <2> QED
    BY <2>1 DEF Unmark, Then, Order
<1>1. IInv'
  BY UnmarkInv DEF Walk
<1>2. saw' \in Acls /\ Revoking /\ Made
  BY <1>0, NodeParts DEF Walk
<1>3. /\ DefaultRevoked(node)' = DefaultRevoked(node)
      /\ \A n : Revoked(n)' = Revoked(n)
      /\ HomeNamed' = HomeNamed
  BY <1>0, AclsSame DEF history
<1>4. ~HomeNamed
  BY <1>0, <1>2 DEF Revoking
<1>5. /\ Shape' /\ Connected' /\ Completed' /\ Cleared' /\ Ahead' = Ahead
      /\ \A b : MovedDuring(b)' = MovedDuring(b)
  BY <1>0, <1>2, <1>3, <1>4, StepInWalk
<1>6. Granting'
  BY <1>0 DEF Granting
<1>7. Revoking'
  BY <1>0, <1>2, <1>3, <1>4, <1>5 DEF Revoking, tree
<1>8. Made'
  BY <1>0, <1>2 DEF Made, history
<1> QED
  BY <1>1, <1>5, <1>6, <1>7, <1>8 DEF Walk

LEMMA RevokeDefaultWalk ==
    ASSUME Walk, RevokeDefault
    PROVE  Walk'
<1> DEFINE d == default[node]
           left == RevokeUser(d, Agent)
<1>0. /\ step = "revokeDefault" /\ action = "revoke" /\ node \in Dirs /\ node \notin Files
      /\ UNCHANGED <<tree, access, created, complete, action, node, saw, frames, result, history>>
      /\ d # NoEntry => d \in Acls
  BY NodeParts DEF RevokeDefault
<1>1. IInv'
  BY RevokeDefaultInv DEF Walk
<1>2. saw' \in Acls /\ Revoking /\ Made /\ default \in [Dirs -> {NoEntry} \cup Acls]
  BY <1>0, NodeParts DEF Walk, IInv, Types
<1>3. PICK new \in {NoEntry} \cup Acls :
          /\ default' = [default EXCEPT ![node] = new]
          /\ step' \in {"unmark", "readAccess"} /\ (step' = "unmark" => new = NoEntry)
          /\ new # NoEntry => new.named[Agent] = NoEntry /\ default0[node] # NoEntry
  <2>1. CASE d = NoEntry \/ (node \in created /\ ~HasNamedEntries(left))
    <3>1. default' = [default EXCEPT ![node] = NoEntry] /\ step' = "unmark"
      BY <2>1 DEF RevokeDefault
    <3> QED
      BY <3>1
  <2>2. CASE d # NoEntry /\ ~(node \in created /\ ~HasNamedEntries(left))
    <3>1. default' = [default EXCEPT ![node] = left] /\ step' = "readAccess"
      BY <1>0, <2>2 DEF RevokeDefault, Then, Order
    <3>2. left \in Acls /\ left.named = [d.named EXCEPT ![Agent] = NoEntry]
      BY <1>0, <2>2, RevokeParts, HomeAssumption
    <3>3. d.named \in [Principals -> {NoEntry} \cup SUBSET Perms]
      BY <1>0, <2>2 DEF Acls
    <3>4. left.named[Agent] = NoEntry
      BY <3>2, <3>3, HomeAssumption
    <3>5. ASSUME default0[node] = NoEntry
          PROVE  FALSE
      <4>1. node \in created /\ \A p \in Others : d.named[p] = NoEntry
        BY <1>0, <1>2, <2>2, <3>5 DEF Made
      <4>3. left.named \in [Principals -> {NoEntry} \cup SUBSET Perms]
        BY <3>2 DEF Acls
      <4> HIDE DEF d, left
      <4>2. ASSUME NEW p \in Principals
            PROVE  left.named[p] = NoEntry
        <5>1. p # Agent => left.named[p] = d.named[p] /\ p \in Others
          BY <3>2, <3>3 DEF Others
        <5> QED
          BY <3>4, <4>1, <5>1
      <4>4. left.named = NobodyNamed
        BY <4>2, <4>3 DEF NobodyNamed
      <4>5. ~HasNamedEntries(left)
        BY <4>4 DEF HasNamedEntries
      <4> QED
        BY <2>2, <4>1, <4>5
    <3> QED
      BY <3>1, <3>2, <3>4, <3>5
  <2> QED
    BY <2>1, <2>2
<1> HIDE DEF d, left
<1>4. /\ default'[node] = new /\ \A e \in Dirs \ {node} : default'[e] = default[e]
      /\ default0' = default0 /\ access' = access
  BY <1>0, <1>2, <1>3 DEF history
<1>5. DefaultRevoked(node)'
  BY <1>0, <1>3, <1>4 DEF DefaultRevoked
<1>6. \A n \in Nodes : Revoked(n) => Revoked(n)'
  <2> TAKE n \in Nodes
  <2>1. n # node /\ n \in Dirs => DefaultRevoked(n)' = DefaultRevoked(n)
    BY <1>4 DEF DefaultRevoked
  <2>2. AccessRevoked(n)' = AccessRevoked(n)
    BY <1>4 DEF AccessRevoked
  <2>3. (node \in Dirs => DefaultRevoked(node)')
    BY <1>5
  <2>4. n = node => (Revoked(n)' <=> AccessRevoked(n)' /\ (node \in Dirs => DefaultRevoked(node)'))
    BY <1>0 DEF Revoked
  <2> QED
    BY <2>1, <2>2, <2>3, <2>4 DEF Revoked
<1>7. ~HomeNamed'
  <2>1. CASE node = Home
    BY <1>3, <1>4, <2>1 DEF HomeNamed
  <2>2. CASE node # Home
    <3>1. ~HomeNamed
      BY <1>0, <1>2, <2>2 DEF Revoking
    <3> QED
      BY <1>4, <2>2, <3>1, HomeAssumption DEF HomeNamed
  <2> QED
    BY <2>1, <2>2
<1>8. /\ Shape' /\ Connected' /\ Completed' /\ Cleared' /\ Ahead' = Ahead
      /\ \A b : MovedDuring(b)' = MovedDuring(b)
  BY <1>0, <1>2, <1>3, <1>7, StepInWalk
<1>9. Granting'
  BY <1>0 DEF Granting
<1>10. Revoking'
  <2>1. /\ \A n \in exists \ MovedDuring("revoke") : n \in Ahead \/ Revoked(n)
        /\ exists \in SUBSET Nodes /\ exists' = exists
    BY <1>0, <1>2, DueParts DEF Revoking, Walk, IInv, tree
  <2>2. \A n \in exists' \ MovedDuring("revoke")' : n \in Ahead' \/ Revoked(n)'
    BY <1>6, <1>8, <2>1
  <2> QED
    BY <1>0, <1>3, <1>5, <1>7, <2>2 DEF Revoking
<1>11. Made'
  <2>1. ASSUME NEW e \in Dirs, default0'[e] = NoEntry, default'[e] # NoEntry
        PROVE  e \in created' /\ \A p \in Others : default'[e].named[p] = NoEntry
    <3>1. e # node
      BY <1>3, <1>4, <2>1
    <3> QED
      BY <1>0, <1>2, <1>4, <2>1, <3>1 DEF Made
  <2> QED
    BY <1>0, <1>3, <1>4, <2>1 DEF Made
<1> QED
  BY <1>1, <1>8, <1>9, <1>10, <1>11 DEF Walk

\* Who has r, w and x has r and w.
LEMMA PermissionGives ==
    ASSUME NEW a \in Acls, NEW n, NEW b, b = GrantUser(a, Agent, Permission(n, a))
    PROVE  /\ b.named[Agent] # NoEntry /\ UserHas(b, Agent, {"r", "w"})
<1>1. UserHas(b, Agent, Permission(n, a))
  BY GrantGives, PermissionBits, HomeAssumption
<1>2. {"r", "w"} \subseteq Permission(n, a)
  BY DEF Permission, Perms
<1> QED
  BY <1>1, <1>2 DEF UserHas

\* The access ACL of a node is written.
LEMMA WriteAccessWalk ==
    ASSUME Walk, WriteAccess
    PROVE  Walk'
<1>0. /\ step = "writeAccess" /\ action \in {"grant", "revoke"}
      /\ step' = IF node \in Files THEN "next" ELSE IF action = "grant" THEN "grantDefault" ELSE "list"
      /\ saw' = IF action = "grant" THEN GrantUser(saw, Agent, Permission(node, saw))
                ELSE RevokeUser(saw, Agent)
      /\ access' = IF saw' = saw /\ action = "revoke" THEN access
                   ELSE [access EXCEPT ![node] = saw']
      /\ UNCHANGED <<tree, default, created, complete, action, node, frames, result, history>>
      /\ node \in Nodes /\ node \in exists /\ (node \in Dirs <=> node \notin Files)
      /\ saw \in Acls
  <2>1. step = "writeAccess" /\ action \in {"grant", "revoke"}
        /\ node \in Nodes /\ node \in exists /\ (node \in Dirs <=> node \notin Files)
        /\ saw \in Acls
    BY NodeParts DEF WriteAccess
  <2>2. step' = IF node \in Files THEN "next" ELSE IF action = "grant" THEN "grantDefault" ELSE "list"
    BY <2>1 DEF WriteAccess, Then, Order
  <2> QED
    BY <2>1, <2>2 DEF WriteAccess
<1>1. IInv'
  BY WriteAccessInv DEF Walk
<1>2. /\ Granting /\ Revoking /\ Made /\ Types /\ Types' /\ Shape
      /\ access \in [Nodes -> Acls] /\ saw' \in Acls
  <2>1. Granting /\ Revoking /\ Made /\ Types /\ Types' /\ Shape
    BY <1>1 DEF Walk, IInv
  <2>2. access \in [Nodes -> Acls]
    BY <2>1 DEF Types
  <2>3. saw' \in Acls
    BY <1>0, GrantSafe, RevokeParts, PermissionBits, HomeAssumption
  <2> QED
    BY <2>1, <2>2, <2>3
<1>3. \A n \in Nodes \ {node} : access'[n] = access[n]
  BY <1>0, <1>2
<1>4. /\ action = "grant" => AccessGranted(node)'
      /\ action = "revoke" => AccessRevoked(node)'
  <2>1. ASSUME action = "grant"
        PROVE  AccessGranted(node)'
    <3>1. access'[node] = saw' /\ saw' = GrantUser(saw, Agent, Permission(node, saw))
      BY <1>0, <1>2, <2>1
    <3>2. access'[node].named[Agent] # NoEntry /\ UserHas(access'[node], Agent, {"r", "w"})
      BY <1>0, <3>1, PermissionGives
    <3> QED
      BY <1>0, <3>2 DEF AccessGranted, UserHas, Effective, EffectiveMask
  <2>2. ASSUME action = "revoke"
        PROVE  AccessRevoked(node)'
    <3>1. saw' = RevokeUser(saw, Agent) /\ saw'.named[Agent] = NoEntry
      BY <1>0, <2>2, RevokeRemoves, HomeAssumption
    <3>2. saw.named = access[node].named
      BY <1>0, <1>2, <2>2 DEF Revoking
    <3>3. access'[node].named[Agent] = NoEntry
      BY <1>0, <1>2, <3>1, <3>2
    <3> QED
      BY <1>0, <3>3 DEF AccessRevoked
  <2> QED
    BY <2>1, <2>2
<1>5. /\ \A n \in Nodes \ {node} : Granted(n)' = Granted(n) /\ Revoked(n)' = Revoked(n)
      /\ \A n : DefaultGranted(n)' = DefaultGranted(n) /\ DefaultRevoked(n)' = DefaultRevoked(n)
      /\ HomeNamed' = HomeNamed
  BY <1>0, <1>3 DEF Granted, Revoked, AccessGranted, DefaultGranted, AccessRevoked, DefaultRevoked,
     HomeNamed, UserHas, Effective, EffectiveMask, history
<1>6. action = "revoke" => ~HomeNamed'
  BY <1>0, <1>2, <1>5 DEF Revoking
<1>7. /\ Shape' /\ Connected' /\ Completed' /\ Cleared'
      /\ \A b : MovedDuring(b)' = MovedDuring(b)
      /\ node \in Dirs => Ahead' = Ahead
  BY <1>0, <1>2, <1>6, StepInWalk
<1>8. \A n \in Ahead : n \in Ahead' \/ (n = node /\ node \in Files)
  <2>1. CASE node \in Dirs
    BY <1>7, <2>1
  <2>2. CASE node \in Files
    <3>1. Due \subseteq Due' \cup {node}
      BY <1>0 DEF Due, tree
    <3>2. \A m \in exists : m \in exists' /\ parent'[m] = parent[m] /\ parent[m] # node
      BY <1>0, <1>2, <2>2, HomeAssumption DEF tree, Shape, Types
    <3>3. \A n \in Ahead : n \in Ahead' \/ n \in {node}
      BY <1>0, <1>2, <3>1, <3>2, AheadKept
    <3> QED
      BY <2>2, <3>3
  <2> QED
    BY <1>0, <2>1, <2>2
<1>9. exists' = exists /\ exists \in SUBSET Nodes
  BY <1>0, <1>2, DueParts DEF tree
<1>10. Granting'
  <2> SUFFICES ASSUME action = "grant"
               PROVE  Granting'
    BY <1>0 DEF Granting
  <2>1. /\ AccessGranted(node)'
        /\ \A n : n = node /\ node \in Files => Granted(n)'
    BY <1>0, <1>4 DEF Granted, AccessGranted, UserHas, Effective, EffectiveMask
  <2>2. \A n \in exists \ MovedDuring("grant") : n \in Ahead \/ Granted(n)
    BY <1>2 DEF Granting
  <2>3. \A n \in exists' \ MovedDuring("grant")' : n \in Ahead' \/ Granted(n)'
    <3> TAKE n \in exists' \ MovedDuring("grant")'
    <3>1. n \in Nodes /\ (n \in Ahead \/ Granted(n))
      BY <1>7, <1>9, <2>2
    <3>2. n # node => Granted(n)' = Granted(n)
      BY <1>5, <3>1
    <3>3. n = node => n \in Due \/ node \in Files
      BY <1>0 DEF Due
    <3>4. n = node => n \in Ahead'  \/ node \in Files
      BY <1>2, <1>8, <3>3, AheadLeast
    <3> QED
      BY <1>8, <2>1, <3>1, <3>2, <3>4
  <2> QED
    BY <1>0, <1>2, <2>1, <2>3 DEF Granting
<1>11. Revoking'
  <2> SUFFICES ASSUME action = "revoke"
               PROVE  Revoking'
    BY <1>0 DEF Revoking
  <2>1. /\ AccessRevoked(node)'
        /\ \A n : n = node /\ node \in Files => Revoked(n)'
    BY <1>0, <1>4 DEF Revoked, AccessRevoked
  <2>2. /\ \A n \in exists \ MovedDuring("revoke") : n \in Ahead \/ Revoked(n)
        /\ node \in Dirs => DefaultRevoked(node)
    BY <1>0, <1>2 DEF Revoking
  <2>3. \A n \in exists' \ MovedDuring("revoke")' : n \in Ahead' \/ Revoked(n)'
    <3> TAKE n \in exists' \ MovedDuring("revoke")'
    <3>1. n \in Nodes /\ (n \in Ahead \/ Revoked(n))
      BY <1>7, <1>9, <2>2
    <3>2. n # node => Revoked(n)' = Revoked(n)
      BY <1>5, <3>1
    <3>3. n = node => n \in Due \/ node \in Files
      BY <1>0 DEF Due
    <3>4. n = node => n \in Ahead'  \/ node \in Files
      BY <1>2, <1>8, <3>3, AheadLeast
    <3> QED
      BY <1>8, <2>1, <3>1, <3>2, <3>4
  <2>4. node \in Dirs => DefaultRevoked(node)'
    BY <1>0, <2>2 DEF DefaultRevoked, history
  <2>5. /\ step' # "writeAccess" /\ node' = node /\ ~HomeNamed'
        /\ action' = action
    BY <1>0, <1>6
  <2> QED
    BY <2>1, <2>3, <2>4, <2>5 DEF Revoking
<1>12. Made'
  BY <1>0, <1>2 DEF Made, history
<1> QED
  BY <1>1, <1>7, <1>10, <1>11, <1>12 DEF Walk

\* The default ACL of a directory is written for the agent.
LEMMA DefaultWrittenWalk ==
    ASSUME Walk, action = "grant", step \in {"grantDefault", "writeDefault"}, NEW new \in Acls,
           default' = [default EXCEPT ![node] = new], UserHas(new, Agent, Perms),
           step' = "list",
           UNCHANGED <<tree, access, complete, action, node, saw, frames, result, history>>
    PROVE  /\ Shape' /\ Connected' /\ Granting' /\ Completed' /\ Revoking' /\ Cleared'
<1>0. /\ node \in Nodes /\ node \in exists /\ node \in Dirs /\ saw' \in Acls /\ Granting
      /\ Types /\ default \in [Dirs -> {NoEntry} \cup Acls]
  BY NodeParts DEF Walk, IInv, Types
<1>1. /\ default'[node] = new /\ \A d \in Dirs \ {node} : default'[d] = default[d]
      /\ new # NoEntry
  BY <1>0, NoEntryAssumption
<1>2. /\ Shape' /\ Connected' /\ Completed' /\ Cleared' /\ Ahead' = Ahead
      /\ \A b : MovedDuring(b)' = MovedDuring(b)
  BY <1>0, StepInWalk
<1>3. /\ \A n \in Nodes : Granted(n) => Granted(n)'
      /\ DefaultGranted(node)'
  BY <1>0, <1>1 DEF Granted, AccessGranted, DefaultGranted, UserHas, Effective, EffectiveMask, history
<1>4. AccessGranted(node)'
  BY <1>0 DEF Granting, AccessGranted, UserHas, Effective, EffectiveMask, history
<1>5. exists \in SUBSET Nodes /\ exists' = exists
  BY <1>0, DueParts DEF tree
<1>6. Granting'
  <2>1. \A n \in exists' \ MovedDuring("grant")' : n \in Ahead' \/ Granted(n)'
    BY <1>0, <1>2, <1>3, <1>5 DEF Granting
  <2> QED
    BY <1>0, <1>3, <1>4, <2>1 DEF Granting
<1> QED
  BY <1>2, <1>6 DEF Revoking

LEMMA GrantDefaultWalk ==
    ASSUME Walk, GrantDefault
    PROVE  Walk'
<1>0. /\ step = "grantDefault" /\ action = "grant" /\ node \in Dirs /\ node \notin Files
      /\ node \in Nodes /\ node \in exists /\ saw \in Acls
      /\ UNCHANGED <<tree, access, complete, action, node, saw, frames, result, history>>
      /\ default[node] # NoEntry => default[node] \in Acls
  BY NodeParts DEF GrantDefault
<1>1. IInv' /\ Granting /\ Made
  BY GrantDefaultInv DEF Walk
<1>2. CASE default[node] = NoEntry
  <2>1. created' = created \cup {node} /\ step' = "writeDefault" /\ default' = default
    BY <1>2 DEF GrantDefault
  <2>2. /\ Shape' /\ Connected' /\ Completed' /\ Cleared' /\ Ahead' = Ahead
        /\ \A b : MovedDuring(b)' = MovedDuring(b)
    BY <1>0, <2>1, StepInWalk
  <2>3. /\ AccessGranted(node)' = AccessGranted(node)
        /\ \A n : Granted(n)' = Granted(n)
    BY <1>0, <2>1, AclsSame DEF history
  <2>4. Granting' /\ Revoking'
    BY <1>0, <1>1, <2>1, <2>2, <2>3 DEF Granting, Revoking, tree
  <2>5. Made'
    BY <1>0, <1>1, <2>1 DEF Made, history
  <2> QED
    BY <1>1, <2>2, <2>4, <2>5 DEF Walk
<1>3. CASE default[node] # NoEntry
  <2> DEFINE new == GrantUser(default[node], Agent, Perms)
  <2>1. created' = created /\ step' = "list" /\ default' = [default EXCEPT ![node] = new]
    BY <1>0, <1>3 DEF GrantDefault, Then, Order
  <2>2. /\ new \in Acls /\ UserHas(new, Agent, Perms)
        /\ \A p \in Others : default[node].named[p] = NoEntry => new.named[p] = NoEntry
    <3>1. Perms \in SUBSET Perms /\ default[node] \in Acls
      BY <1>0, <1>3
    <3>2. new \in Acls /\ UserHas(new, Agent, Perms)
      BY <3>1, GrantSafe, GrantGives, HomeAssumption
    <3>3. new.named = [p \in Principals |-> IF p = Agent THEN Perms
                         ELSE IF default[node].named[p] = NoEntry THEN NoEntry
                              ELSE Effective(default[node], p)]
      BY <3>1 DEF GrantUser, Acls
    <3> HIDE DEF new
    <3> QED
      BY <3>2, <3>3 DEF Others
  <2> HIDE DEF new
  <2>3. Shape' /\ Connected' /\ Granting' /\ Completed' /\ Revoking' /\ Cleared'
    BY <1>0, <2>1, <2>2, DefaultWrittenWalk
  <2>4. Made'
    <3>1. default \in [Dirs -> {NoEntry} \cup Acls] /\ default0' = default0
      BY <1>0 DEF Walk, IInv, Types, history
    <3> QED
      BY <1>0, <1>1, <1>3, <2>1, <2>2, <3>1 DEF Made
  <2> QED
    BY <1>1, <2>3, <2>4 DEF Walk
<1> QED
  BY <1>2, <1>3

LEMMA WriteDefaultWalk ==
    ASSUME Walk, WriteDefault
    PROVE  Walk'
<1> DEFINE new == GrantUser(Base(saw), Agent, Perms)
<1>0. /\ step = "writeDefault" /\ action = "grant" /\ node \in Dirs /\ node \notin Files
      /\ node \in Nodes /\ node \in exists /\ saw \in Acls /\ step' = "list"
      /\ default' = [default EXCEPT ![node] = new]
      /\ UNCHANGED <<tree, access, created, complete, action, node, saw, frames, result, history>>
  <2>1. /\ step = "writeDefault" /\ action = "grant" /\ node \in Dirs /\ node \notin Files
        /\ node \in Nodes /\ node \in exists /\ saw \in Acls
    BY NodeParts DEF WriteDefault
  <2> QED
    BY <2>1 DEF WriteDefault, Then, Order
<1>1. IInv' /\ Made
  BY WriteDefaultInv DEF Walk
<1>2. /\ new \in Acls /\ UserHas(new, Agent, Perms)
      /\ \A p \in Others : new.named[p] = NoEntry
  <2>1. Perms \in SUBSET Perms /\ Base(saw) \in Acls
    BY <1>0, BaseParts
  <2>2. new \in Acls /\ UserHas(new, Agent, Perms)
    BY <2>1, GrantSafe, GrantGives, HomeAssumption
  <2>3. new.named = [p \in Principals |-> IF p = Agent THEN Perms
                       ELSE IF Base(saw).named[p] = NoEntry THEN NoEntry
                            ELSE Effective(Base(saw), p)]
    BY <2>1 DEF GrantUser, Acls
  <2>4. \A p \in Principals : Base(saw).named[p] = NoEntry
    BY DEF Base, BaseAcl, NobodyNamed
  <2> HIDE DEF new
  <2> QED
    BY <2>2, <2>3, <2>4 DEF Others
<1> HIDE DEF new
<1>3. Shape' /\ Connected' /\ Granting' /\ Completed' /\ Revoking' /\ Cleared'
  BY <1>0, <1>2, DefaultWrittenWalk
<1>4. Made'
  <2>1. default \in [Dirs -> {NoEntry} \cup Acls] /\ default0' = default0
    BY <1>0 DEF Walk, IInv, Types, history
  <2> QED
    BY <1>0, <1>1, <1>2, <2>1 DEF Made
<1> QED
  BY <1>1, <1>3, <1>4 DEF Walk

-------------------------------------------------------------------------------
(* From node to node.                                                      *)

\* The walk goes on, done with the nodes in X, whose children are due next.
LEMMA WalkGoesOn ==
    ASSUME Walk, IInv', action # "none",
           UNCHANGED <<tree, access, default, created, complete, action, result, history>>,
           action = "revoke" => step # "revokeDefault",
           saw' \in Acls, step' \in {"next", "readAccess", "revokeDefault"},
           step' = "readAccess" /\ action = "revoke" => node' \notin Dirs,
           step' # "next" => (node' = Home <=> frames' = <<>>),
           \A i \in DOMAIN frames' :
               (frames'[i].dir = Home <=> i = 1) /\ Home \notin frames'[i].names,
           NEW X \in SUBSET Nodes, Due \subseteq Due' \cup X,
           \A m \in exists \ X : parent[m] \in X => m \in Due',
           action = "grant" => \A n \in X : Granted(n),
           action = "revoke" => \A n \in X : Revoked(n)
    PROVE  Walk'
<1>1. /\ Shape /\ Connected /\ Granting /\ Revoking /\ Made /\ Types /\ Types'
      /\ result = "none" /\ action \in {"grant", "revoke"}
  BY DEF Walk, IInv, Types, Shape
<1>2. Shape'
  BY <1>1, NoEntryAssumption DEF Shape, tree, history
<1>3. Connected'
  BY <1>1 DEF Connected, tree
<1>4. /\ \A n : Granted(n)' = Granted(n) /\ Revoked(n)' = Revoked(n)
      /\ HomeNamed' = HomeNamed
      /\ \A b : MovedDuring(b)' = MovedDuring(b)
  BY AclsSame, MovedSame DEF history
<1>5. action = "revoke" => ~HomeNamed
  BY <1>1 DEF Revoking
<1>6. Completed' /\ Cleared'
  BY <1>1, <1>4, <1>5 DEF Completed, Cleared
<1>7. \A n \in Ahead : n \in Ahead' \/ n \in X
  BY <1>1, AheadKept DEF tree
<1>8. Granting'
  BY <1>1, <1>4, <1>7 DEF Granting, tree
<1>9. Revoking'
  BY <1>1, <1>4, <1>5, <1>7 DEF Revoking, tree
<1>10. Made'
  BY <1>1 DEF Made, history
<1> QED
  BY <1>2, <1>3, <1>6, <1>8, <1>9, <1>10 DEF Walk

LEMMA ListWalk ==
    ASSUME Walk, List
    PROVE  Walk'
<1> DEFINE names == {n \in exists \ {Home} : parent[n] = node}
           new == [dir |-> node, names |-> names]
<1>0. /\ step = "list" /\ step' = "next" /\ frames' = Append(frames, new)
      /\ node \in Dirs /\ node \in Nodes /\ node \in exists /\ saw \in Acls /\ saw' = saw
      /\ action \in {"grant", "revoke"}
      /\ UNCHANGED <<tree, access, default, created, complete, action, node, result, history>>
  <2>1. /\ step = "list" /\ node \in Dirs /\ node \in Nodes /\ node \in exists /\ node \notin Files
        /\ saw \in Acls /\ action \in {"grant", "revoke"}
    BY NodeParts DEF List
  <2> QED
    BY <2>1 DEF List, Then, Order
<1>1. IInv' /\ Shape /\ Granting /\ Revoking /\ Types
  BY ListInv DEF Walk, IInv
<1>2. /\ Len(frames) \in Nat /\ DOMAIN frames = 1..Len(frames)
      /\ DOMAIN frames' = 1..Len(frames) + 1
      /\ \A i \in DOMAIN frames : frames'[i] = frames[i]
      /\ frames'[Len(frames) + 1] = new
      /\ Len(frames) = 0 <=> frames = <<>>
  <2> DEFINE F == [dir : Dirs, names : SUBSET exists]
  <2>1. frames \in Seq(F) /\ new \in F
    BY <1>0, <1>1 DEF Types
  <2> HIDE DEF F, new
  <2> QED
    BY <1>0, <2>1, AppendProperties, LenProperties, EmptySeq
<1>3. node = Home <=> Len(frames) = 0
  BY <1>0, <1>1, <1>2 DEF Shape
<1>4. ASSUME NEW i \in DOMAIN frames'
      PROVE  (frames'[i].dir = Home <=> i = 1) /\ Home \notin frames'[i].names
  <2>1. CASE i \in DOMAIN frames
    BY <1>1, <1>2, <2>1 DEF Shape
  <2>2. CASE i = Len(frames) + 1
    BY <1>2, <1>3, <2>2
  <2> QED
    BY <1>2, <2>1, <2>2
<1>5. names \subseteq Due'
  <2>1. Len(frames) + 1 \in DOMAIN frames' /\ frames'[Len(frames) + 1].names = names
        /\ frames'[Len(frames) + 1].dir = node
    BY <1>2
  <2> QED
    BY <1>0, <2>1 DEF Due, tree
<1>6. Due \subseteq Due' \cup {node}
  BY <1>0, <1>2 DEF Due, tree
<1>7. \A m \in exists \ {node} : parent[m] \in {node} => m \in Due'
  BY <1>1, <1>5 DEF Shape
<1>8. /\ action = "grant" => \A n \in {node} : Granted(n)
      /\ action = "revoke" => \A n \in {node} : Revoked(n)
  BY <1>0, <1>1 DEF Granting, Revoking, Granted, Revoked
<1>9. \A i \in DOMAIN frames' :
          (frames'[i].dir = Home <=> i = 1) /\ Home \notin frames'[i].names
  BY <1>4
<1> HIDE DEF names, new
<1>10. {node} \in SUBSET Nodes
  BY <1>1 DEF Types
<1>11. /\ saw' \in Acls /\ step' = "next"
       /\ action # "none" /\ (action = "revoke" => step # "revokeDefault")
       /\ UNCHANGED <<tree, access, default, created, complete, action, result, history>>
  BY <1>0, <1>1 DEF Types
<1> QED
  BY <1>1, <1>6, <1>7, <1>8, <1>9, <1>10, <1>11, WalkGoesOn

LEMMA NextNameWalk ==
    ASSUME Walk, NEW n \in Nodes, NextName(n)
    PROVE  Walk'
<1> DEFINE i == Len(frames)
           new == [frames[i] EXCEPT !.names = @ \ {n}]
           F == [dir : Dirs, names : SUBSET exists]
<1>0. /\ action # "none" /\ step = "next" /\ frames # <<>> /\ n \in frames[i].names
      /\ frames' = [frames EXCEPT ![i] = new]
      /\ IF parent[n] = frames[i].dir THEN Visit(action, n) ELSE UNCHANGED <<node, step, saw>>
      /\ UNCHANGED <<tree, access, default, created, complete, action, result, history>>
  BY DEF NextName, Innermost
<1>1. /\ IInv' /\ Shape /\ Types /\ frames \in Seq(F) /\ action \in {"grant", "revoke"}
      /\ access \in [Nodes -> Acls]
  BY <1>0, NextNameInv DEF Walk, IInv, Types
<1>2. /\ i \in DOMAIN frames /\ DOMAIN frames' = DOMAIN frames
      /\ \A j \in DOMAIN frames \ {i} : frames'[j] = frames[j]
      /\ frames'[i] = new /\ frames[i] \in F /\ frames' # <<>>
  <2>1. i \in 1..Len(frames) /\ DOMAIN frames = 1..Len(frames)
    <3> HIDE DEF F
    <3> QED
      BY <1>0, <1>1, EmptySeq, LenProperties
  <2>2. frames[i] \in F
    <3> HIDE DEF F
    <3> QED
      BY <1>1, <2>1, ElementOfSeq
  <2>3. DOMAIN frames' = DOMAIN frames /\ frames'[i] = new
        /\ \A j \in DOMAIN frames \ {i} : frames'[j] = frames[j]
    <3> HIDE DEF new
    <3> QED
      BY <1>0, <2>1
  <2>4. frames' # <<>>
    <3> HIDE DEF new, i
    <3> QED
      BY <2>1, <2>3
  <2> QED
    BY <2>1, <2>2, <2>3, <2>4
<1>3. new.dir = frames[i].dir /\ new.names = frames[i].names \ {n} /\ n \in exists
  <2> HIDE DEF new, i
  <2>1. frames[i] \in [dir : Dirs, names : SUBSET exists]
    BY <1>2
  <2> QED
    BY <1>0, <2>1 DEF new
<1> HIDE DEF new, i, F
<1>4. \A j \in DOMAIN frames : (frames[j].dir = Home <=> j = 1) /\ Home \notin frames[j].names
  BY <1>1 DEF Shape
<1>5. n # Home
  BY <1>0, <1>2, <1>4
<1>6. \A j \in DOMAIN frames' :
          (frames'[j].dir = Home <=> j = 1) /\ Home \notin frames'[j].names
  <2> TAKE j \in DOMAIN frames'
  <2>1. j \in DOMAIN frames /\ frames'[j].dir = frames[j].dir /\ frames'[j].names \subseteq frames[j].names
    <3>1. CASE j = i
      <4>1. frames'[j] = new
        BY <1>2, <3>1
      <4> QED
        BY <1>2, <1>3, <3>1, <4>1
    <3>2. CASE j # i
      BY <1>2, <3>2
    <3> QED
      BY <3>1, <3>2
  <2> QED
    BY <1>4, <2>1
<1>7. \A m \in exists : (\E j \in DOMAIN frames : m \in frames[j].names /\ parent[m] = frames[j].dir)
          => \/ m = n /\ parent[n] = frames[i].dir
             \/ \E j \in DOMAIN frames' : m \in frames'[j].names /\ parent'[m] = frames'[j].dir
  <2> SUFFICES ASSUME NEW m \in exists, NEW j \in DOMAIN frames,
                      m \in frames[j].names, parent[m] = frames[j].dir
               PROVE  \/ m = n /\ parent[n] = frames[i].dir
                      \/ \E k \in DOMAIN frames' : m \in frames'[k].names /\ parent'[m] = frames'[k].dir
    OBVIOUS
  <2>1. parent' = parent /\ j \in DOMAIN frames'
    BY <1>0, <1>2 DEF tree
  <2>2. CASE j # i
    BY <1>2, <2>1, <2>2
  <2>3. CASE j = i /\ m # n
    <3>1. frames'[j] = new
      BY <1>2, <2>3
    <3>2. frames'[j].dir = frames[j].dir /\ m \in frames'[j].names
      BY <1>3, <2>3, <3>1
    <3> QED
      BY <2>1, <3>2
  <2>4. CASE j = i /\ m = n
    BY <2>4
  <2> QED
    BY <2>2, <2>3, <2>4
<1>8. /\ {} \in SUBSET Nodes /\ (\A m \in exists \ {} : parent[m] \in {} => m \in Due')
      /\ action = "grant" => \A m \in {} : Granted(m)
      /\ action = "revoke" => \A m \in {} : Revoked(m)
  OBVIOUS
<1>9. CASE parent[n] = frames[i].dir
  <2>1. /\ node' = n /\ saw' = access[n]
        /\ step' = IF n \in Files \/ action = "grant" THEN "readAccess" ELSE "revokeDefault"
    BY <1>0, <1>1, <1>9 DEF Visit, Order
  <2>2. /\ saw' \in Acls /\ step' \in {"next", "readAccess", "revokeDefault"} /\ step' # "next"
        /\ step' = "readAccess" /\ action = "revoke" => node' \notin Dirs
        /\ step' # "next" => (node' = Home <=> frames' = <<>>)
        /\ action = "revoke" => step # "revokeDefault"
    BY <1>0, <1>1, <1>2, <1>5, <2>1, HomeAssumption
  <2>3. n \in Due'
    BY <2>1, <2>2 DEF Due
  <2>4. Due \subseteq Due' \cup {}
    BY <1>0, <1>7, <2>3 DEF Due, tree
  <2> QED
    BY <1>0, <1>1, <1>6, <1>8, <2>2, <2>4, WalkGoesOn
<1>10. CASE parent[n] # frames[i].dir
  <2>1. step' = "next" /\ saw' = saw /\ saw \in Acls
    BY <1>0, <1>1, <1>10 DEF Shape
  <2>2. Due \subseteq Due' \cup {}
    BY <1>0, <1>7, <1>10, <2>1 DEF Due, tree
  <2>3. step' # "next" => (node' = Home <=> frames' = <<>>)
    BY <2>1
  <2>4. /\ saw' \in Acls /\ step' \in {"next", "readAccess", "revokeDefault"}
        /\ step' = "readAccess" /\ action = "revoke" => node' \notin Dirs
        /\ action = "revoke" => step # "revokeDefault"
    BY <1>0, <2>1
  <2> QED
    BY <1>0, <1>1, <1>6, <1>8, <2>2, <2>3, <2>4, WalkGoesOn
<1> QED
  BY <1>9, <1>10

LEMMA LastNameWalk ==
    ASSUME Walk, LastName
    PROVE  Walk'
<1> DEFINE i == Len(frames)
           F == [dir : Dirs, names : SUBSET exists]
<1>0. /\ action # "none" /\ step = "next" /\ frames # <<>> /\ frames[i].names = {}
      /\ frames' = SubSeq(frames, 1, i - 1)
      /\ UNCHANGED <<tree, access, default, created, complete, action, node, step, saw, result, history>>
  BY DEF LastName, Innermost
<1>1. IInv' /\ Shape /\ Types /\ frames \in Seq(F)
  BY LastNameInv DEF Walk, IInv, Types
<1>2. /\ i \in Nat \ {0} /\ DOMAIN frames = 1..i /\ DOMAIN frames' = 1..(i - 1)
      /\ \A j \in 1..(i - 1) : frames'[j] = frames[j]
  <2> HIDE DEF F
  <2>1. i \in Nat \ {0} /\ DOMAIN frames = 1..i
    BY <1>0, <1>1, EmptySeq, LenProperties
  <2>2. \A j \in 1..(i - 1) : frames[j] \in F
    BY <1>1, <2>1, ElementOfSeq
  <2> HIDE DEF i
  <2> QED
    BY <1>0, <2>1, <2>2, SubSeqProperties
<1> HIDE DEF i, F
<1>3. \A j \in DOMAIN frames : (frames[j].dir = Home <=> j = 1) /\ Home \notin frames[j].names
  BY <1>1 DEF Shape
<1>4. \A j \in DOMAIN frames' :
          (frames'[j].dir = Home <=> j = 1) /\ Home \notin frames'[j].names
  BY <1>2, <1>3
<1>5. Due \subseteq Due' \cup {}
  <2> SUFFICES ASSUME NEW m \in exists, NEW j \in DOMAIN frames,
                      m \in frames[j].names, parent[m] = frames[j].dir
               PROVE  m \in Due'
    BY <1>0 DEF Due
  <2>1. j # i /\ j \in DOMAIN frames' /\ frames'[j] = frames[j]
    BY <1>0, <1>2
  <2> QED
    BY <1>0, <2>1 DEF Due, tree
<1>6. /\ {} \in SUBSET Nodes /\ (\A m \in exists \ {} : parent[m] \in {} => m \in Due')
      /\ action = "grant" => \A m \in {} : Granted(m)
      /\ action = "revoke" => \A m \in {} : Revoked(m)
  OBVIOUS
<1>7. /\ saw' \in Acls /\ step' \in {"next", "readAccess", "revokeDefault"}
      /\ step' = "readAccess" /\ action = "revoke" => node' \notin Dirs
      /\ action = "revoke" => step # "revokeDefault"
      /\ step' # "next" => (node' = Home <=> frames' = <<>>)
  BY <1>0, <1>1 DEF Shape
<1> QED
  BY <1>0, <1>1, <1>4, <1>5, <1>6, <1>7, WalkGoesOn

LEMMA StartWalk ==
    ASSUME Walk, NEW a \in {"grant", "revoke"}, Start(a)
    PROVE  Walk'
<1>0. /\ action = "none" /\ action' = a /\ Visit(a, Home) /\ frames' = <<>>
      /\ complete' = (complete /\ a # "grant") /\ result' = "none" /\ Forget(a)
      /\ UNCHANGED <<tree, access, default, created, access0, default0, restricted, changes>>
  BY DEF Start
<1>1. IInv' /\ Shape /\ Connected /\ Completed /\ Made /\ Types /\ Types'
  BY StartInv DEF Walk, IInv
<1>2. /\ node' = Home /\ saw' = access[Home] /\ saw' \in Acls /\ Home \in exists
      /\ step' = IF a = "grant" THEN "readAccess" ELSE "revokeDefault"
  <2>1. Home \in exists /\ access[Home] \in Acls /\ Home \notin Files
    BY <1>1, HomeAssumption DEF Types, Nodes
  <2> QED
    BY <1>0, <2>1 DEF Visit, Order
<1>3. Shape'
  <2>1. moved' \subseteq moved /\ changed' \in SUBSET Nodes
    BY <1>0, <1>1 DEF Forget, Shape
  <2>2. DOMAIN frames' = {}
    BY <1>0
  <2> QED
    BY <1>0, <1>1, <1>2, <2>1, <2>2, NoEntryAssumption DEF Shape, tree
<1>4. Connected'
  BY <1>0, <1>1 DEF Connected, tree
<1>5. exists' \subseteq Ahead'
  <2>1. Home \in Due' /\ Due' \in SUBSET Nodes
    BY <1>1, <1>2 DEF Due, Types
  <2>2. /\ Home \in Ahead' /\ Ahead' \in SUBSET Nodes
        /\ \A m \in exists' : m \in Nodes /\ (parent'[m] \in Ahead' => m \in Ahead')
    BY <1>1, <2>1 DEF Ahead, Types
  <2>3. \A B \in SUBSET Nodes : Home \in B /\ (\A m \in exists' : parent'[m] \in B => m \in B)
           => exists' \subseteq B
    BY <1>4 DEF Connected
  <2> QED
    BY <2>2, <2>3
<1>6. Granting'
  BY <1>0, <1>2, <1>5 DEF Granting
<1>7. Completed'
  <2> SUFFICES ASSUME complete, a = "revoke", HomeNamed'
               PROVE  \A n \in exists' \ MovedDuring("grant")' : Granted(n)'
    BY <1>0 DEF Completed
  <2>1. changed' = changed /\ MovedDuring("grant")' = MovedDuring("grant")
    BY <1>0 DEF Forget, MovedDuring
  <2>2. HomeNamed' = HomeNamed /\ \A n : Granted(n)' = Granted(n)
    BY <1>0, <2>1, AclsSame
  <2> QED
    BY <1>0, <1>1, <2>1, <2>2 DEF Completed, tree
<1>8. Revoking'
  BY <1>0, <1>2, <1>5 DEF Revoking
<1>9. Cleared'
  BY <1>0 DEF Cleared
<1>10. Made'
  BY <1>0, <1>1, <1>2 DEF Made
<1> QED
  BY <1>1, <1>3, <1>4, <1>6, <1>7, <1>8, <1>9, <1>10 DEF Walk

\* A walk that has come to its end has nothing ahead of it.
LEMMA NothingAhead ==
    ASSUME Types, step = "next", frames = <<>>
    PROVE  Ahead = {}
<1>1. Due = {}
  BY DEF Due
<1>2. {} \in SUBSET Nodes /\ Due \subseteq {} /\ \A m \in exists : parent[m] \in {} => m \in {}
  BY <1>1
<1> QED
  BY <1>2, AheadLeast

LEMMA FinishWalk ==
    ASSUME Walk, Finish
    PROVE  Walk'
<1>0. /\ action # "none" /\ step = "next" /\ frames = <<>>
      /\ complete' = (action = "grant")
      /\ result' = IF action = "grant" THEN "enabled" ELSE "disabled"
      /\ action' = "none" /\ node' = Home /\ step' = "next" /\ saw' = NoEntry /\ frames' = <<>>
      /\ UNCHANGED <<tree, access, default, created, history>>
  BY DEF Finish, Leave
<1>1. IInv' /\ Shape /\ Connected /\ Granting /\ Revoking /\ Made /\ Types
  BY LeaveInv DEF Walk, IInv
<1>2. Ahead = {}
  BY <1>0, <1>1, NothingAhead
<1>3. Shape'
  <2>1. DOMAIN frames' = {}
    BY <1>0
  <2> QED
    BY <1>0, <1>1, <2>1 DEF Shape, tree, history
<1>4. Connected'
  BY <1>0, <1>1 DEF Connected, tree
<1>5. /\ \A n : Granted(n)' = Granted(n) /\ Revoked(n)' = Revoked(n)
      /\ \A b : MovedDuring(b)' = MovedDuring(b)
  BY <1>0, AclsSame, MovedSame DEF history
<1>6. Completed'
  BY <1>0, <1>1, <1>2, <1>5 DEF Completed, Granting, tree
<1>7. Cleared'
  <2>1. result' = "disabled" => action = "revoke"
    BY <1>0, <1>1 DEF Types
  <2> QED
    BY <1>0, <1>1, <1>2, <1>5, <2>1 DEF Cleared, Revoking, tree
<1>8. Granting' /\ Revoking'
  BY <1>0 DEF Granting, Revoking
<1>9. Made'
  BY <1>0, <1>1 DEF Made, history
<1> QED
  BY <1>1, <1>3, <1>4, <1>6, <1>7, <1>8, <1>9 DEF Walk

LEMMA FailWalk ==
    ASSUME Walk, Fail
    PROVE  Walk'
<1>0. /\ action # "none" /\ result' = "failed"
      /\ created' = created \/ (step = "writeDefault" /\ created' = created \ {node})
      /\ action' = "none" /\ node' = Home /\ step' = "next" /\ saw' = NoEntry /\ frames' = <<>>
      /\ UNCHANGED <<tree, access, default, complete, history>>
  BY DEF Fail, Leave
<1>1. IInv' /\ Shape /\ Connected /\ Granting /\ Completed /\ Made /\ Plan
  BY LeaveInv DEF Walk, IInv
<1>2. Shape'
  <2>1. DOMAIN frames' = {}
    BY <1>0
  <2> QED
    BY <1>0, <1>1, <2>1 DEF Shape, tree, history
<1>3. Connected'
  BY <1>0, <1>1 DEF Connected, tree
<1>4. /\ \A n : Granted(n)' = Granted(n)
      /\ HomeNamed' = HomeNamed
      /\ \A b : MovedDuring(b)' = MovedDuring(b)
  BY <1>0, AclsSame, MovedSame DEF history
<1>5. Completed'
  BY <1>0, <1>1, <1>4 DEF Completed, Granting, tree
<1>6. Granting' /\ Revoking' /\ Cleared'
  BY <1>0 DEF Granting, Revoking, Cleared
<1>7. Made'
  <2>1. step = "writeDefault" => default[node] = NoEntry
    BY <1>1 DEF Plan
  <2> QED
    BY <1>0, <1>1, <2>1 DEF Made, history
<1> QED
  BY <1>1, <1>2, <1>3, <1>5, <1>6, <1>7 DEF Walk

-------------------------------------------------------------------------------
(* The approver's changes.                                                 *)

\* A change in which every node takes after one that was there, and what lies ahead of
\* the walk stays ahead of it.
LEMMA ApproverWalk ==
    ASSUME Walk, IInv', Shape', Connected', Made',
           UNCHANGED <<complete, action, node, step, saw, frames, result>>,
           \A a : \A k \in exists' \ MovedDuring(a)' : \E m \in exists \ MovedDuring(a) :
               /\ a = action /\ m \in Ahead => k \in Ahead'
               /\ Granted(m) => Granted(k)'
               /\ Revoked(m) => Revoked(k)',
           AccessGranted(node) => AccessGranted(node)',
           node \in Dirs /\ DefaultGranted(node) => DefaultGranted(node)',
           AccessRevoked(node) => AccessRevoked(node)',
           node \in Dirs /\ DefaultRevoked(node) => DefaultRevoked(node)',
           HomeNamed' = HomeNamed,
           access'[node].named = access[node].named
    PROVE  Walk'
<1>1. Granting /\ Completed /\ Revoking /\ Cleared
  BY DEF Walk
<1>2. Granting'
  <2>1. action = "grant" => \A k \in exists' \ MovedDuring("grant")' : k \in Ahead' \/ Granted(k)'
    BY <1>1 DEF Granting
  <2>2. step = "list" => node \in Dirs
    BY NodeParts
  <2> QED
    BY <1>1, <2>1, <2>2 DEF Granting
<1>3. Completed'
  BY <1>1 DEF Completed
<1>4. Revoking'
  <2>1. action = "revoke" => \A k \in exists' \ MovedDuring("revoke")' : k \in Ahead' \/ Revoked(k)'
    BY <1>1 DEF Revoking
  <2> QED
    BY <1>1, <2>1 DEF Revoking
<1>5. Cleared'
  BY <1>1 DEF Cleared
<1> QED
  BY <1>2, <1>3, <1>4, <1>5 DEF Walk

LEMMA ChmodWalk ==
    ASSUME Walk, NEW n \in Nodes, NEW mode \in Modes, Chmod(n, mode)
    PROVE  Walk'
<1> DEFINE new == ModeSet(access[n], mode)
<1>0. /\ changes < MaxChanges /\ changes' = changes + 1 /\ n \in exists
      /\ access' = [access EXCEPT ![n] = new]
      /\ changed' = changed \cup {n} /\ restricted' \subseteq restricted \cup {n}
      /\ UNCHANGED <<tree, default, created, complete, walk, result, default0, moved>>
  BY DEF Chmod, Changes
<1>1. IInv' /\ Shape /\ Connected /\ Made /\ access \in [Nodes -> Acls] /\ exists \in SUBSET Nodes
      /\ node \in Nodes
  BY ChmodInv DEF Walk, IInv, Types
<1>2. new.named = access[n].named
  BY <1>1, ModeSetParts, HomeAssumption
<1> HIDE DEF new
<1>3. /\ access'[n] = new /\ \A k \in Nodes \ {n} : access'[k] = access[k]
      /\ \A k \in Nodes : access'[k].named = access[k].named
  BY <1>0, <1>1, <1>2
<1>4. Shape'
  BY <1>0, <1>1, HomeAssumption DEF Shape, tree, walk
<1>5. Connected' /\ Made'
  BY <1>0, <1>1 DEF Connected, Made, tree, walk
<1>6. Due' = Due
  BY <1>0 DEF Due, tree, walk
<1>7. Ahead' = Ahead
  BY <1>0, <1>6, AheadSame
<1>8. \A k \in Nodes : /\ AccessGranted(k) => AccessGranted(k)'
                       /\ AccessRevoked(k) => AccessRevoked(k)'
  <2> TAKE k \in Nodes
  <2>1. CASE k = n
    BY <1>0, <1>3, <2>1 DEF AccessGranted, AccessRevoked
  <2>2. CASE k # n
    BY <1>0, <1>3, <2>2 DEF AccessGranted, AccessRevoked, UserHas, Effective, EffectiveMask
  <2> QED
    BY <2>1, <2>2
<1>9. /\ \A k : /\ DefaultGranted(k)' = DefaultGranted(k)
                /\ DefaultRevoked(k)' = DefaultRevoked(k)
      /\ HomeNamed' = HomeNamed
  BY <1>0 DEF DefaultGranted, DefaultRevoked, HomeNamed, UserHas, Effective, EffectiveMask
<1>10. \A k \in Nodes : (Granted(k) => Granted(k)') /\ (Revoked(k) => Revoked(k)')
  <2> TAKE k \in Nodes
  <2>1. /\ AccessGranted(k) => AccessGranted(k)'
        /\ AccessRevoked(k) => AccessRevoked(k)'
    BY <1>8
  <2>2. /\ DefaultGranted(k) => DefaultGranted(k)'
        /\ DefaultRevoked(k) => DefaultRevoked(k)'
    BY <1>9
  <2> QED
    BY <2>1, <2>2 DEF Granted, Revoked
<1>11. \A a : MovedDuring(a)' = MovedDuring(a)
  BY <1>0, MovedSame
<1>12. /\ AccessGranted(node) => AccessGranted(node)'
       /\ DefaultGranted(node) => DefaultGranted(node)'
       /\ AccessRevoked(node) => AccessRevoked(node)'
       /\ DefaultRevoked(node) => DefaultRevoked(node)'
       /\ access'[node].named = access[node].named
  <2>1. PICK c \in Nodes : c = node
    BY <1>1
  <2>2. node' = c
    BY <1>0, <2>1 DEF walk
  <2>3. AccessGranted(node) => AccessGranted(node)'
    <3>1. AccessGranted(c) => AccessGranted(c)'
      BY <1>8
    <3> QED
      BY <2>1, <2>2, <3>1 DEF AccessGranted
  <2>4. AccessRevoked(node) => AccessRevoked(node)'
    BY <1>3, <2>1, <2>2 DEF AccessRevoked
  <2>5. /\ DefaultGranted(node) => DefaultGranted(node)'
        /\ DefaultRevoked(node) => DefaultRevoked(node)'
    BY <1>0, <2>1, <2>2 DEF DefaultGranted, DefaultRevoked, UserHas, Effective, EffectiveMask
  <2> QED
    BY <1>3, <2>1, <2>3, <2>4, <2>5
<1>13. \A a : \A k \in exists' \ MovedDuring(a)' : \E m \in exists \ MovedDuring(a) :
               /\ a = action /\ m \in Ahead => k \in Ahead'
               /\ Granted(m) => Granted(k)'
               /\ Revoked(m) => Revoked(k)'
  BY <1>0, <1>1, <1>7, <1>10, <1>11 DEF tree
<1> QED
  BY <1>0, <1>1, <1>4, <1>5, <1>9, <1>12, <1>13, ApproverWalk DEF walk

LEMMA MoveWalk ==
    ASSUME Walk, NEW n \in Files, NEW dir \in Dirs, Move(n, dir)
    PROVE  Walk'
<1>0. /\ changes < MaxChanges /\ changes' = changes + 1
      /\ n \in exists /\ dir \in exists /\ parent' = [parent EXCEPT ![n] = dir]
      /\ moved' = IF action = "none" THEN moved ELSE moved \cup {[file |-> n, during |-> action]}
      /\ UNCHANGED <<exists, access, default, created, complete, action, node, step, saw,
                     frames, result, access0, default0, changed, restricted>>
  BY DEF Move, Changes, walk
<1>1. IInv' /\ Shape /\ Connected /\ Made /\ Types /\ Types' /\ exists \in SUBSET Nodes
      /\ parent \in [Nodes -> Dirs] /\ n \in Nodes /\ n \notin Dirs /\ n # Home
      /\ action \in {"none", "grant", "revoke"}
  BY MoveInv, HomeAssumption DEF Walk, IInv, Types, Shape, Nodes
<1>2. parent'[n] = dir /\ \A k \in Nodes \ {n} : parent'[k] = parent[k]
  BY <1>0, <1>1
<1>3. Shape'
  <2>1. moved' \in SUBSET [file : Files, during : {"grant", "revoke"}]
    BY <1>0, <1>1 DEF Shape
  <2>2. parent' \in [Nodes -> Dirs] /\ parent'[Home] = Home
    BY <1>0, <1>1, <1>2, HomeAssumption DEF Shape, Nodes
  <2>3. changes' \in 0..MaxChanges
    BY <1>0, <1>1, HomeAssumption DEF Shape
  <2> QED
    BY <1>0, <1>1, <2>1, <2>2, <2>3 DEF Shape
<1>4. Connected'
  <2> SUFFICES ASSUME NEW S \in SUBSET Nodes, Home \in S,
                      \A m \in exists' : parent'[m] \in S => m \in S
               PROVE  exists' \subseteq S
    BY DEF Connected
  <2>1. \A m \in exists : parent[m] \in S \cup {n} => m \in S \cup {n}
    BY <1>0, <1>1, <1>2
  <2>2. exists \subseteq S \cup {n}
    <3>1. S \cup {n} \in SUBSET Nodes /\ Home \in S \cup {n}
      BY <1>1
    <3> QED
      BY <1>1, <2>1, <3>1 DEF Connected
  <2>3. dir \in S
    BY <1>0, <1>1, <2>2
  <2>4. n \in exists' /\ parent'[n] \in S
    BY <1>0, <1>2, <2>3
  <2>5. n \in S
    BY <2>4
  <2> QED
    BY <1>0, <2>2, <2>5
<1>5. Made'
  BY <1>0, <1>1 DEF Made
<1>6. \A k \in Ahead : k \in Ahead' \/ k = n
  <2>1. Due \subseteq Due' \cup {n}
    BY <1>0, <1>1, <1>2 DEF Due
  <2>2. \A m \in exists \ {n} : m \in exists' /\ parent'[m] = parent[m]
    BY <1>0, <1>1, <1>2
  <2>3. \A m \in exists \ {n} : parent[m] \in {n} => m \in Due'
    BY <1>1
  <2>4. {n} \in SUBSET Nodes
    BY <1>1
  <2>5. \A k \in Ahead : k \in Ahead' \/ k \in {n}
    BY <1>1, <2>1, <2>2, <2>3, <2>4, AheadKept
  <2> QED
    BY <2>5
<1>7. /\ \A k : /\ AccessGranted(k)' = AccessGranted(k) /\ Granted(k)' = Granted(k)
                /\ DefaultGranted(k)' = DefaultGranted(k)
                /\ AccessRevoked(k)' = AccessRevoked(k) /\ Revoked(k)' = Revoked(k)
                /\ DefaultRevoked(k)' = DefaultRevoked(k)
      /\ HomeNamed' = HomeNamed
  BY <1>0, AclsSame
<1>8. /\ AccessGranted(node)' = AccessGranted(node)
      /\ DefaultGranted(node)' = DefaultGranted(node)
      /\ AccessRevoked(node)' = AccessRevoked(node)
      /\ DefaultRevoked(node)' = DefaultRevoked(node)
  BY <1>0 DEF AccessGranted, DefaultGranted, AccessRevoked, DefaultRevoked,
              UserHas, Effective, EffectiveMask
<1>9. \A a : MovedDuring(a) \subseteq MovedDuring(a)'
  BY <1>0 DEF MovedDuring
<1>10. action # "none" => n \in MovedDuring(action)'
  <2> SUFFICES ASSUME action # "none" PROVE n \in MovedDuring(action)'
    OBVIOUS
  <2> DEFINE e == [file |-> n, during |-> action]
  <2>1. e \in moved' /\ e.file = n /\ e.during = action' /\ action' = action
    BY <1>0
  <2> HIDE DEF e
  <2>2. e \in {m \in moved' : m.during = action'}
    BY <2>1
  <2> QED
    BY <2>1, <2>2 DEF MovedDuring
<1>11. \A a : \A k \in exists' \ MovedDuring(a)' : \E m \in exists \ MovedDuring(a) :
               /\ a = action /\ m \in Ahead => k \in Ahead'
               /\ Granted(m) => Granted(k)'
               /\ Revoked(m) => Revoked(k)'
  <2> SUFFICES ASSUME NEW a, NEW k \in exists' \ MovedDuring(a)'
               PROVE  a = action /\ k \in Ahead => k \in Ahead'
    BY <1>0, <1>7, <1>9
  <2>1. action = "none" => Ahead = {}
    BY <1>1, NothingAhead DEF Shape
  <2> QED
    BY <1>0, <1>6, <1>10, <2>1
<1> QED
  BY <1>0, <1>1, <1>3, <1>4, <1>5, <1>7, <1>8, <1>11, ApproverWalk

\* A node takes after the directory it is created in.
LEMMA CreateWalk ==
    ASSUME Walk, NEW n \in Nodes, NEW dir \in Dirs, NEW mode \in Modes, Create(n, dir, mode)
    PROVE  Walk'
<1> DEFINE new == IF default[dir] # NoEntry THEN Inherited(default[dir], mode)
                  ELSE BaseAcl(Perms, mode, {})
<1>0. /\ changes < MaxChanges /\ changes' = changes + 1
      /\ n \notin exists /\ dir \in exists
      /\ exists' = exists \cup {n} /\ parent' = [parent EXCEPT ![n] = dir]
      /\ access' = [access EXCEPT ![n] = new]
      /\ default' = IF n \in Dirs THEN [default EXCEPT ![n] = default[dir]] ELSE default
      /\ default0' = IF n \in Dirs THEN [default0 EXCEPT ![n] = default[dir]] ELSE default0
      /\ changed' = changed \cup {n} /\ restricted' \subseteq restricted \cup {n}
      /\ UNCHANGED <<created, complete, action, node, step, saw, frames, result, moved>>
  BY DEF Create, Changes, walk
<1>1. /\ IInv' /\ Shape /\ Connected /\ Made /\ Types /\ Types' /\ exists \in SUBSET Nodes
      /\ access \in [Nodes -> Acls] /\ node \in exists /\ Home \in exists
      /\ default \in [Dirs -> {NoEntry} \cup Acls] /\ default0 \in [Dirs -> {NoEntry} \cup Acls]
      /\ parent \in [Nodes -> Dirs] /\ dir \in Nodes
  BY CreateInv DEF Walk, IInv, Types, Shape, Nodes
<1>2. /\ default[dir] # NoEntry => new.named = default[dir].named
      /\ default[dir] = NoEntry => new.named = NobodyNamed
  <2>1. mode \in SUBSET Perms
    BY HomeAssumption
  <2>2. CASE default[dir] # NoEntry
    <3>1. default[dir] \in Acls
      BY <1>1, <2>2
    <3>2. (mode \cap IF default[dir].mask = NoEntry THEN default[dir].group ELSE default[dir].mask)
             \in SUBSET Perms
      BY <2>1
    <3> QED
      BY <2>2, <3>1, <3>2, ModeSetParts DEF Inherited
  <2>3. CASE default[dir] = NoEntry
    BY <2>1, <2>3, BaseParts
  <2> QED
    BY <2>2, <2>3
<1> HIDE DEF new
<1>3. /\ access'[n] = new /\ \A k \in Nodes \ {n} : access'[k] = access[k]
      /\ parent'[n] = dir /\ \A k \in Nodes \ {n} : parent'[k] = parent[k]
  BY <1>0, <1>1
<1>4. /\ n \in Dirs => default'[n] = default[dir] /\ default0'[n] = default[dir]
      /\ \A d \in Dirs \ {n} : default'[d] = default[d] /\ default0'[d] = default0[d]
  BY <1>0, <1>1
<1>5. /\ node # n /\ Home # n /\ dir # n /\ node \in Nodes
      /\ \A k \in exists : k # n /\ k \in Nodes
  BY <1>0, <1>1
<1>6. Shape'
  <2>1. parent' \in [Nodes -> Dirs] /\ parent'[Home] = Home
    BY <1>0, <1>1, <1>3, <1>5, HomeAssumption DEF Shape, Nodes
  <2>2. changed' \in SUBSET Nodes /\ restricted' \in SUBSET Nodes /\ changes' \in 0..MaxChanges
    BY <1>0, <1>1, HomeAssumption DEF Shape
  <2> QED
    BY <1>0, <1>1, <2>1, <2>2 DEF Shape
<1>7. Connected'
  <2> SUFFICES ASSUME NEW S \in SUBSET Nodes, Home \in S,
                      \A m \in exists' : parent'[m] \in S => m \in S
               PROVE  exists' \subseteq S
    BY DEF Connected
  <2>1. \A m \in exists : parent[m] \in S => m \in S
    BY <1>0, <1>3, <1>5
  <2>2. exists \subseteq S
    BY <1>1, <2>1 DEF Connected
  <2>3. n \in exists' /\ dir \in S /\ parent'[n] = dir
    BY <1>0, <1>3, <2>2
  <2> QED
    BY <1>0, <2>2, <2>3
<1>8. Made'
  <2>1. ASSUME NEW d \in Dirs, default0'[d] = NoEntry, default'[d] # NoEntry
        PROVE  d \in created' /\ \A p \in Others : default'[d].named[p] = NoEntry
    <3>1. d # n
      BY <1>4, <2>1
    <3> QED
      BY <1>0, <1>1, <1>4, <2>1, <3>1 DEF Made
  <2>2. step' = "unmark" => default'[node'] = NoEntry
    <3>1. step = "unmark" => node \in Dirs
      BY NodeParts
    <3> QED
      BY <1>0, <1>1, <1>4, <1>5, <3>1 DEF Made
  <2>3. step' = "writeDefault" => node' \in created'
    BY <1>0, <1>1 DEF Made
  <2> QED
    BY <2>1, <2>2, <2>3 DEF Made
<1>9. \A k \in Ahead : k \in Ahead'
  <2>1. Due \subseteq Due' \cup {}
    BY <1>0, <1>3, <1>5 DEF Due
  <2>2. \A m \in exists \ {} : m \in exists' /\ parent'[m] = parent[m]
    BY <1>0, <1>3, <1>5
  <2>3. {} \in SUBSET Nodes /\ \A m \in exists \ {} : parent[m] \in {} => m \in Due'
    OBVIOUS
  <2>4. \A k \in Ahead : k \in Ahead' \/ k \in {}
    BY <1>1, <2>1, <2>2, <2>3, AheadKept
  <2> QED
    BY <2>4
<1>10. dir \in Ahead => n \in Ahead'
  <2>1. n \in exists' /\ parent'[n] = dir /\ Due' \in SUBSET Nodes
    BY <1>0, <1>1, <1>3 DEF Due, Types
  <2>2. \A m \in exists' : parent'[m] \in Ahead' => m \in Ahead'
    BY <1>1, <2>1 DEF Ahead, Types
  <2> QED
    BY <1>9, <2>1, <2>2
<1>11. \A k \in Nodes \ {n} : /\ AccessGranted(k) => AccessGranted(k)'
                              /\ AccessRevoked(k) => AccessRevoked(k)'
                              /\ k \in Dirs /\ DefaultGranted(k) => DefaultGranted(k)'
                              /\ k \in Dirs /\ DefaultRevoked(k) => DefaultRevoked(k)'
  <2> TAKE k \in Nodes \ {n}
  <2>1. access'[k] = access[k] /\ (k \in changed' <=> k \in changed)
    BY <1>0, <1>3
  <2>2. k \in Dirs => default'[k] = default[k] /\ default0'[k] = default0[k]
    BY <1>4
  <2> QED
    BY <2>1, <2>2 DEF AccessGranted, DefaultGranted, AccessRevoked, DefaultRevoked,
                      UserHas, Effective, EffectiveMask
<1>12. \A k \in Nodes \ {n} : (Granted(k) => Granted(k)') /\ (Revoked(k) => Revoked(k)')
  <2> TAKE k \in Nodes \ {n}
  <2>1. /\ AccessGranted(k) => AccessGranted(k)'
        /\ AccessRevoked(k) => AccessRevoked(k)'
        /\ k \in Dirs /\ DefaultGranted(k) => DefaultGranted(k)'
        /\ k \in Dirs /\ DefaultRevoked(k) => DefaultRevoked(k)'
    BY <1>11
  <2> QED
    BY <2>1 DEF Granted, Revoked
<1>13. Granted(dir) => Granted(n)'
  <2> SUFFICES ASSUME DefaultGranted(dir)
               PROVE  Granted(n)'
    BY DEF Granted
  <2>1. default[dir] # NoEntry /\ UserHas(default[dir], Agent, Perms)
    BY DEF DefaultGranted
  <2>2. new.named[Agent] # NoEntry
    BY <1>2, <2>1 DEF UserHas
  <2>3. AccessGranted(n)'
    BY <1>0, <1>3, <2>2 DEF AccessGranted
  <2>4. n \in Dirs => DefaultGranted(n)'
    BY <1>4, <2>1 DEF DefaultGranted, UserHas, Effective, EffectiveMask
  <2> QED
    BY <2>3, <2>4 DEF Granted
<1>14. Revoked(dir) => Revoked(n)'
  <2> SUFFICES ASSUME DefaultRevoked(dir)
               PROVE  Revoked(n)'
    BY DEF Revoked
  <2>1. new.named[Agent] = NoEntry
    BY <1>2, HomeAssumption DEF DefaultRevoked, NobodyNamed
  <2>2. AccessRevoked(n)'
    BY <1>3, <2>1 DEF AccessRevoked
  <2>3. n \in Dirs => DefaultRevoked(n)'
    BY <1>4 DEF DefaultRevoked
  <2> QED
    BY <2>2, <2>3 DEF Revoked
<1>15. /\ AccessGranted(node) => AccessGranted(node)'
       /\ node \in Dirs /\ DefaultGranted(node) => DefaultGranted(node)'
       /\ AccessRevoked(node) => AccessRevoked(node)'
       /\ node \in Dirs /\ DefaultRevoked(node) => DefaultRevoked(node)'
       /\ access'[node].named = access[node].named
  <2>1. access'[node] = access[node] /\ (node \in changed' <=> node \in changed) /\ node' = node
    BY <1>0, <1>3, <1>5
  <2>2. node \in Dirs => default'[node] = default[node] /\ default0'[node] = default0[node]
    BY <1>4, <1>5
  <2> QED
    BY <2>1, <2>2 DEF AccessGranted, DefaultGranted, AccessRevoked, DefaultRevoked,
                      UserHas, Effective, EffectiveMask
<1>16. HomeNamed' = HomeNamed
  BY <1>4, <1>5, HomeAssumption DEF HomeNamed
<1>17. \A a : MovedDuring(a)' = MovedDuring(a) /\ dir \notin MovedDuring(a)
  BY <1>0, <1>1, MovedSame, DirsStay
<1>18. \A a : \A k \in exists' \ MovedDuring(a)' : \E m \in exists \ MovedDuring(a) :
               /\ a = action /\ m \in Ahead => k \in Ahead'
               /\ Granted(m) => Granted(k)'
               /\ Revoked(m) => Revoked(k)'
  <2> SUFFICES ASSUME NEW a, NEW k \in exists' \ MovedDuring(a)'
               PROVE  \E m \in exists \ MovedDuring(a) :
                        /\ a = action /\ m \in Ahead => k \in Ahead'
                        /\ Granted(m) => Granted(k)'
                        /\ Revoked(m) => Revoked(k)'
    OBVIOUS
  <2>1. CASE k = n
    BY <1>0, <1>10, <1>13, <1>14, <1>17, <2>1
  <2>2. CASE k # n
    <3>1. k \in exists \ MovedDuring(a) /\ k \in Nodes \ {n}
      BY <1>0, <1>5, <1>17, <2>2
    <3> QED
      BY <1>9, <1>12, <3>1
  <2> QED
    BY <2>1, <2>2
<1> QED
  BY <1>0, <1>1, <1>6, <1>7, <1>8, <1>15, <1>16, <1>18, ApproverWalk

-------------------------------------------------------------------------------
LEMMA InitWalk == Init => Walk
<1> SUFFICES ASSUME Init PROVE Walk
  OBVIOUS
<1>1. IInv /\ Types
  BY InitInv DEF IInv
<1>2. /\ exists \in SUBSET Nodes /\ Home \in exists /\ parent = [n \in Nodes |-> Home]
      /\ default0 = default /\ complete = FALSE /\ action = "none" /\ node = Home
      /\ step = "next" /\ saw = NoEntry /\ frames = <<>> /\ result = "none"
      /\ moved = {} /\ changed = {} /\ restricted = {} /\ changes = 0
  BY DEF Init
<1>3. Shape
  <2>1. parent \in [Nodes -> Dirs] /\ parent[Home] = Home
    BY <1>2, HomeAssumption DEF Nodes
  <2>2. DOMAIN frames = {} /\ 0 \in 0..MaxChanges
    BY <1>2, HomeAssumption
  <2> QED
    BY <1>2, <2>1, <2>2 DEF Shape
<1>4. Connected
  BY <1>2 DEF Connected
<1>5. Granting /\ Completed /\ Revoking /\ Cleared /\ Made
  BY <1>2 DEF Granting, Completed, Revoking, Cleared, Made
<1> QED
  BY <1>1, <1>3, <1>4, <1>5 DEF Walk

LEMMA StutterWalk ==
    ASSUME Walk, UNCHANGED vars
    PROVE  Walk'
<1>0. /\ UNCHANGED <<exists, parent, access, default, created, complete, action, node, step, saw,
                     frames, result, access0, default0, moved, changed, restricted, changes>>
      /\ UNCHANGED tree
  BY DEF vars, tree, walk, history
<1>1. IInv'
  BY NextInv DEF Walk
<1>2. Shape' /\ Connected'
  BY <1>0 DEF Walk, Shape, Connected
<1>3. Due' = Due
  BY <1>0 DEF Due
<1>4. Ahead' = Ahead
  BY <1>0, <1>3, AheadSame
<1>5. /\ \A n : Granted(n)' = Granted(n) /\ Revoked(n)' = Revoked(n)
      /\ HomeNamed' = HomeNamed
      /\ \A b : MovedDuring(b)' = MovedDuring(b)
  BY <1>0, AclsSame, MovedSame
<1>6. /\ AccessGranted(node)' = AccessGranted(node)
      /\ DefaultGranted(node)' = DefaultGranted(node)
      /\ AccessRevoked(node)' = AccessRevoked(node)
      /\ DefaultRevoked(node)' = DefaultRevoked(node)
  BY <1>0 DEF AccessGranted, DefaultGranted, AccessRevoked, DefaultRevoked,
              UserHas, Effective, EffectiveMask
<1>7. Granting' /\ Completed'
  BY <1>0, <1>4, <1>5, <1>6 DEF Walk, Granting, Completed
<1>8. Revoking' /\ Cleared'
  BY <1>0, <1>4, <1>5, <1>6 DEF Walk, Revoking, Cleared
<1>9. Made'
  BY <1>0 DEF Walk, Made
<1> QED
  BY <1>1, <1>2, <1>7, <1>8, <1>9 DEF Walk

LEMMA NextWalk ==
    ASSUME Walk, [Next]_vars
    PROVE  Walk'
<1>1. CASE Next
  BY <1>1, StartWalk, RevokeDefaultWalk, UnmarkWalk, ReadAccessWalk, WriteAccessWalk,
     GrantDefaultWalk, WriteDefaultWalk, ListWalk, NextNameWalk, LastNameWalk, FinishWalk, FailWalk,
     CreateWalk, ChmodWalk, MoveWalk DEF Next
<1>2. CASE UNCHANGED vars
  BY <1>2, StutterWalk
<1> QED
  BY <1>1, <1>2

\* Walk always holds: in the midst of a grant or a revoke every node is either ahead of it
\* or as it is to be, or was moved under it.
THEOREM WalkInvariant == Spec => []Walk
BY InitWalk, NextWalk, PTL DEF Spec

\* Types, and nothing is left of a walk that is over: Leave closes what
\* walkFD opened, whatever has failed.
THEOREM TypeCorrect == Spec => []TypeOK
<1>1. Walk => TypeOK
  <2> SUFFICES ASSUME Walk PROVE TypeOK
    OBVIOUS
  <2>1. Types /\ Plan /\ Shape
    BY DEF Walk, IInv
  <2>2. frames \in Seq(Frames)
    <3> DEFINE F == [dir : Dirs, names : SUBSET exists]
    <3>1. F \subseteq Frames /\ frames \in Seq(F)
      BY <2>1 DEF Types, Frames
    <3> HIDE DEF F
    <3> QED
      BY <3>1, SeqMonotonic
  <2>3. step \in {"revokeDefault", "unmark", "readAccess", "writeAccess", "grantDefault",
                 "writeDefault", "list", "next"}
    BY <2>1 DEF Plan
  <2>4. \A i \in DOMAIN frames : frames[i].dir = Home <=> i = 1
    BY <2>1 DEF Shape
  <2> QED
    BY <2>1, <2>2, <2>3, <2>4 DEF TypeOK, Types, Shape
<1> QED
  BY <1>1, WalkInvariant, PTL

\* When status reports enabled, every node has the agent's entry, whatever was created or
\* failed meanwhile, unless it was moved under the grant; and the agent can use it unless
\* its mode was changed since.
THEOREM EnabledAlwaysComplete == Spec => []EnabledIsComplete
<1>1. Walk => EnabledIsComplete
  <2> SUFFICES ASSUME Walk, action = "none", AclStatus = "enabled",
                      NEW n \in exists \ MovedDuring("grant")
               PROVE  /\ access[n].named[Agent] # NoEntry
                      /\ n \in Dirs => UserHas(default[n], Agent, Perms)
                      /\ n \notin changed => UserHas(access[n], Agent, {"r", "w"})
    BY DEF EnabledIsComplete
  <2>1. complete /\ HomeNamed
    BY DEF AclStatus, HomeNamed, UserHas
  <2>2. Granted(n)
    BY <2>1 DEF Walk, Completed
  <2> QED
    BY <2>2 DEF Granted, AccessGranted, DefaultGranted
<1> QED
  BY <1>1, WalkInvariant, PTL

\* Once a revoke has returned "disabled" no entry of the agent is left or comes back
\* before the next grant, but at nodes moved under the revoke.
THEOREM RevokeAlwaysComplete == Spec => []RevokeIsComplete
<1>1. Walk => RevokeIsComplete
  BY DEF Walk, Cleared, RevokeIsComplete, HasAgentEntry, Revoked, AccessRevoked, DefaultRevoked
<1> QED
  BY <1>1, WalkInvariant, PTL

\* After a complete revoke no directory has a default ACL that had none before the broker.
THEOREM DefaultsAlwaysRestored == Spec => []DefaultsRestored
<1>1. Walk => DefaultsRestored
  <2> SUFFICES ASSUME Walk, result = "disabled", NEW d \in exists \cap Dirs, default0[d] = NoEntry
               PROVE  default[d] = NoEntry
    BY DEF DefaultsRestored
  <2>1. d \notin MovedDuring("revoke")
    BY DirsStay DEF Walk
  <2>2. Revoked(d)
    BY <2>1 DEF Walk, Cleared
  <2> QED
    BY <2>2 DEF Revoked, DefaultRevoked
<1> QED
  BY <1>1, WalkInvariant, PTL
===============================================================================
