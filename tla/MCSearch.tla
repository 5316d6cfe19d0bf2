------------------------------ MODULE MCSearch ------------------------------
(***************************************************************************)
(* Instances of CDCLSearch for TLC: a client follows one of the scripts.   *)
(* It adds the clauses of the script in their order and calls solve()      *)
(* between any two of them, as often as it likes, with any of the script's *)
(* assumptions.                                                            *)
(***************************************************************************)
EXTENDS CDCLSearch, SequencesExt

CONSTANT Scripts

(* Clauses as the solver stores them.                                      *)
MCClauseSets == {C \in SUBSET Lits : Cardinality(C) >= 2 /\ ~Tautology(C)}

(* In order: redundant literals and failed assumptions with reasons; a     *)
(* lemma with flag REDUNDANT and contradictory assumptions; facts that     *)
(* satisfy and shorten clauses; a conflict on the level of the             *)
(* assumptions; resolution with a binary clause.                           *)
MCScripts ==
  { [clauses |-> << {-1, 2}, {-2, -3, 4}, {3, -3}, {-1, -3, -4}, {-2, -4}, {} >>,
     assume  |-> {<<>>, <<1, 3>>}],
    [clauses |-> << {-1, -2, -3, 4}, {-1, -2, -3, -4}, {2}, {-3} >>,
     assume  |-> {<<>>, <<1, -1>>}],
    [clauses |-> << {1, 2, 3}, {1, 2, -3}, {-2, 4}, {-1} >>,
     assume  |-> {<<>>}],
    [clauses |-> << {-1, 2, 3}, {-1, 2, -3}, {-1, -2, 3}, {-1, -2, -3} >>,
     assume  |-> {<<>>, <<1>>}],
    [clauses |-> << {1, 2, 3}, {1, 2, -3}, {1, -2} >>,
     assume  |-> {<<>>}] }

MCLivenessScripts ==
  { [clauses |-> << {-1, -2, -3, 4}, {-1, -2, -3, -4} >>, assume  |-> {<<>>, <<1, 3>>}],
    [clauses |-> << {1, 2, 3}, {1, 2, -3}, {1, -2}, {-1} >>, assume  |-> {<<>>, <<2, -2>>}],
    [clauses |-> << {-1, 2, 3}, {-1, 2, -3}, {-1, -2, 3}, {-1, -2, -3} >>, assume |-> {<<1>>}] }

MCCoreScripts == { [clauses |-> << {-1, 2}, {-2, -3, 4}, {-1, -3, -4} >>, assume |-> {<<1, 3>>}] }

MCInputs      == UNION {ToSet(s.clauses) : s \in Scripts}
MCAssumptions == UNION {s.assume : s \in Scripts}

(* The first n clauses of s have been added.                               *)
At(s, n) == problem = ToSet(SubSeq(s.clauses, 1, n))

MCClient ==
  \E s \in Scripts :
    \/ \E n \in 1 .. Len(s.clauses) : At(s, n - 1) /\ AddClause(s.clauses[n])
    \/ \E n \in 0 .. Len(s.clauses), A \in s.assume :
         At(s, n) /\ (SolveImmediately(A) \/ StartSolve(A))

MCNext == MCClient \/ Stop \/ Solver

MCSpec     == SearchInit /\ [][MCNext]_searchVars
MCFairSpec == MCSpec /\ WF_searchVars(Solver)
=============================================================================
