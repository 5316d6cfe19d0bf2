-------------------------- MODULE MCStrengthening --------------------------
(***************************************************************************)
(* One clause of four literals that an optimizer may shorten.              *)
(***************************************************************************)
EXTENDS Assignment, TLC

MCClauses  == {"c1"}
MCFormulas == { ("c1" :> <<1, 2, 3, 4>>) }
=============================================================================
