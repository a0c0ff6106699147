------------------------------- MODULE MCUpgrade -------------------------------
(***************************************************************************)
(* Upgrade for TLC: three releases, of which one cannot start and one has  *)
(* changed its configuration in a way the first does not accept.           *)
(***************************************************************************)
EXTENDS Upgrade

CONSTANTS old, new, broken

\* old refuses what new renders; an upgrade from old to new is refused, one by
\* way of broken is not.
MCAccepts == ({old, new, broken} \X {old, new, broken}) \ {<<old, new>>}

=============================================================================
