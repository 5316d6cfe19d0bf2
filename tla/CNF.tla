-------------------------------- MODULE CNF --------------------------------
(***************************************************************************)
(* Literals and clauses of JamSAT (libjamsat/cnfproblem/CNFLiteral.h and   *)
(* libjamsat/clausedb/Clause.h), and the propositional semantics the       *)
(* correctness properties of the solver are stated with.                   *)
(*                                                                         *)
(* A variable is a positive number and a literal a signed variable, so the *)
(* operator ~ of CNFLit is the arithmetic negation.  The raw encoding      *)
(* (variable << 1 | sign) is left out: no property depends on it.          *)
(***************************************************************************)
EXTENDS Integers, Sequences, FiniteSets

CONSTANT NumVars      \* the number of variables of the instance

ASSUME NumVarsAssumption == NumVars \in Nat \ {0}

Vars == 1 .. NumVars
Lits == {l \in -NumVars .. NumVars : l # 0}

Neg(l)   == -l
VarOf(l) == IF l > 0 THEN l ELSE -l

(* CNFSign, as the truth value it gives to a variable: 1 or -1.            *)
SignOf(l) == IF l > 0 THEN 1 ELSE -1

----------------------------------------------------------------------------
(* A clause is a sequence of literals, since propagation depends on their  *)
(* positions.  compressClause (CDCLSatSolver.cpp) removes duplicates and   *)
(* tautologies before a clause is stored and lemmas have neither: no       *)
(* variable occurs twice in a clause.                                      *)
IsClause(c) ==
  /\ c \in Seq(Lits)
  /\ Len(c) >= 2
  /\ \A i, j \in 1 .. Len(c) : i # j => VarOf(c[i]) # VarOf(c[j])

LitSet(c) == {c[i] : i \in 1 .. Len(c)}

(* The clause with the literals at positions i and j exchanged.            *)
SwapAt(c, i, j) == [c EXCEPT ![i] = c[j], ![j] = c[i]]

----------------------------------------------------------------------------
(* Semantics.  A total assignment is the set of the literals it makes      *)
(* true; a formula is a set of sets of literals.                           *)
TotalAssignments ==
  {A \in SUBSET Lits : \A v \in Vars : (v \in A) # (-v \in A)}

Satisfies(A, F)  == \A C \in F : A \cap C # {}
ModelsOf(F)      == {A \in TotalAssignments : Satisfies(A, F)}
Satisfiable(F)   == \E A \in TotalAssignments : Satisfies(A, F)
Entails(F, C)    == \A A \in TotalAssignments : Satisfies(A, F) => A \cap C # {}
=============================================================================
