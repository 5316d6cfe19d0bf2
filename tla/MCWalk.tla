------------------------------- MODULE MCWalk -------------------------------
(***************************************************************************)
(* Instances of ConflictWalk for TLC.                                      *)
(***************************************************************************)
EXTENDS ConflictWalk

(* In order: two literals that depend on a decision outside of the lemma,  *)
(* through the same literal; a chain that makes a literal redundant, and   *)
(* conflicts several resolutions above the first UIP; a lemma that loses a *)
(* literal by resolution with a binary clause.                             *)
MCFormulas ==
  { { {-1, 2}, {-2, 3}, {-2, 4}, {-3, -5, 6}, {-4, -5, -6} },
    { {-1, 2}, {-2, 3}, {-1, -4, 5}, {-3, -5, 6}, {-4, -5, -6} },
    { {-1, 2, -3}, {-3, 4}, {-1, -4, -2, 5}, {-5, -2, 6}, {-6, -3, -5}, {-1, -3} } }

MCSystemLits == {1, 4}
MCClauseSets == {C \in SUBSET Lits : Cardinality(C) >= 2}
=============================================================================
