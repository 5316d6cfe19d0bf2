----------------------------- MODULE MCSimplify -----------------------------
(***************************************************************************)
(* Instances of FactCleaner for TLC.                                       *)
(***************************************************************************)
EXTENDS FactCleaner

(* Three clauses of a pool and the fact 1: chains of consequences, clauses *)
(* that are satisfied by a fact, shortened twice, or become a copy of      *)
(* another one, which is deleted later; facts that contradict each other   *)
(* by propagation; clauses for another optimizer.                          *)
MCPool == { {-1, 2}, {-2, -1, 3, 4}, {1, 3}, {3, 4, -1}, {3, 4}, {-3, -2, 4}, {-2, 3}, {2, -3, -4} }

MCProblems ==
  { [clauses |-> <<C, D, E>>, facts |-> {1}, optimizer |-> "FactCleaner"] :
      C \in MCPool, D \in MCPool, E \in { {-3, -2, 4}, {-2, -1, 3, 4} } }
  \cup
  { [clauses |-> << {-1, 2}, {-2, 3}, {-3, -4} >>, facts |-> {1, 4}, optimizer |-> "FactCleaner"],
    [clauses |-> << {1, 2}, {1, 3}, {2, 3} >>,     facts |-> {},     optimizer |-> "other"] }

(* A fact whose reason is deleted from the certificate.                    *)
MCCertificateProblems ==
  { [clauses |-> << {-1, 2}, {-2, 3, 4}, {1, 4} >>,      facts |-> {1},
     optimizer |-> "FactCleaner"] }

MCTouchedClauses == {1, 2}
MCTouchedLits    == {1, 2, 3}
=============================================================================
