---------------------------- MODULE MCBranching ----------------------------
(***************************************************************************)
(* Instance of VSIDS for TLC: calls with all variables, without and with   *)
(* an assumption and a fact.                                               *)
(***************************************************************************)
EXTENDS VSIDS

MCCalls ==
  { [max |-> LargestKey, assume |-> {},  facts |-> {}],
    [max |-> LargestKey, assume |-> {0}, facts |-> {1}] }

(* What the last removeMax() returned is read when it is a decision only,  *)
(* and a cell beyond the heap's size is written before it is read.         *)
MCView ==
  <<maxKey, [i \in Cells |-> heap[i]], indices, size, activity, hpc, elem, cursor, delta, eligible, facts, assumed,
    levelOf, curLevel, pc, pending, target, IF pc = "decided" THEN result ELSE NoKey>>
=============================================================================
