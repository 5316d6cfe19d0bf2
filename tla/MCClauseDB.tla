----------------------------- MODULE MCClauseDB -----------------------------
(***************************************************************************)
(* Instance of ClauseDB for TLC: clauses that fill a third, two thirds or  *)
(* all of a region, the smaller ones also what is left by shortening.      *)
(***************************************************************************)
EXTENDS ClauseDB

MCLengths == {1, 3, 5}
=============================================================================
