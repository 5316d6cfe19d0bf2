-------------------------- MODULE ConflictAnalysis --------------------------
(***************************************************************************)
(* What JamSAT computes from the trail and the reasons when propagation    *)
(* ends in a conflict: the first-UIP clause (solver/FirstUIPLearning.h),   *)
(* its minimization (simplification/ClauseMinimization.h), its literal     *)
(* block distance, and the assumptions behind an assignment                *)
(* (solver/AssignmentAnalysis.h).                                          *)
(*                                                                         *)
(* Clauses are sets of literals.  Walks along the trail are functions of a *)
(* trail position; the stamps with which the code marks what it has seen   *)
(* are membership in the clause being computed.                            *)
(***************************************************************************)
EXTENDS UnitPropagation

CONSTANTS
  SizeBound,      \* Config::lemmaSimplificationSizeBound
  LBDBound        \* Config::lemmaSimplificationLBDBound

ASSUME BoundsAssumption == SizeBound \in Nat /\ LBDBound \in Nat

CurrentLevel == Len(limits) - 1

Position(l) == CHOOSE i \in 1 .. Len(assigned) : VarOf(assigned[i]) = VarOf(l)
LevelAt(i)  == Cardinality({k \in 2 .. Len(limits) : limits[k] < i})
LevelOf(l)  == LevelAt(Position(l))

OnLevel(C, k) == {l \in C : LevelOf(l) = k}
LevelsOf(C)   == {LevelOf(l) : l \in C}

(* getLBD()                                                                *)
LBD(C) == Cardinality(LevelsOf(C))

----------------------------------------------------------------------------
(* First-UIP learning.                                                     *)

(* addResolvent(): C resolved with the reason of the literal at position i.*)
ResolventOnLevel(C, i) ==      \* faulty variant: lower levels are left out
  (C \ {Neg(assigned[i])}) \cup (OnLevel(because[i], CurrentLevel) \ {assigned[i]})
Resolvent(C, i) == (C \ {Neg(assigned[i])}) \cup (because[i] \ {assigned[i]})

(* The walk stops when one literal of the current level is left.           *)
AtUIPEarly(C) == Cardinality(OnLevel(C, CurrentLevel)) <= 2       \* faulty variant
AtUIP(C)      == Cardinality(OnLevel(C, CurrentLevel)) <= 1

(* computeConflictClause(): down the trail from its end to the first       *)
(* literal of the current level.                                           *)
FirstUIPClause ==
  LET begin == limits[Len(limits)]
      end   == Len(assigned)
      after[i \in begin .. end] ==      \* the positions beyond i have been visited
        IF i = end THEN falsified
        ELSE LET C == after[i + 1]
             IN  IF AtUIP(C) \/ Neg(assigned[i + 1]) \notin C THEN C ELSE Resolvent(C, i + 1)
  IN  after[begin]

(* The literal of C on the current level.                                  *)
AssertingLiteral(C) == CHOOSE l \in C : LevelOf(l) = CurrentLevel

----------------------------------------------------------------------------
(* Minimization of a lemma.                                                *)

(* isRedundant(): every literal of the reason is on level 0, in the lemma, *)
(* or implied in turn; a level without a literal of the lemma ends the     *)
(* search early.                                                           *)
ImpliedByLemma(C) ==
  LET implied[i \in 1 .. Len(assigned)] ==
        /\ because[i] # {}
        /\ \A m \in because[i] \ {assigned[i]} :
             /\ LevelOf(m) \in LevelsOf(C) \cup {0}
             /\ LevelOf(m) = 0 \/ m \in C \/ implied[Position(m)]
  IN  implied

(* eraseRedundantLiterals()                                                *)
WithoutRedundantLiterals(C) ==
  LET implied == ImpliedByLemma(C)
      Redundant(l) ==
        IF because[Position(l)] = {} THEN LevelOf(l) = 0
        ELSE LevelOf(l) # CurrentLevel /\ implied[Position(l)]
  IN  {l \in C : ~Redundant(l)}

(* resolveWithBinaries(): C loses m when there is a clause (l, ~m).        *)
ResolvedWithAnyBinary(C, l) ==      \* faulty variant: the other literal is not looked at
  {l} \cup {m \in C : \A k \in Lits : {k, Neg(m)} \notin active}
ResolvedWithBinaries(C, l) == {m \in C : {l, Neg(m)} \notin active}

(* deriveLemma(): the clause learnt from the conflict.                     *)
DerivedLemma ==
  LET C == WithoutRedundantLiterals(FirstUIPClause)
  IN  IF Cardinality(C) <= SizeBound /\ LBD(C) <= LBDBound
        THEN ResolvedWithBinaries(C, AssertingLiteral(C))
        ELSE C

----------------------------------------------------------------------------
(* Faulty variant: f itself is left out when it has a reason.              *)
AnalyzeAssignmentBehind(f) ==
  IF because[Position(f)] = {} THEN {f}
  ELSE {Neg(l) : l \in {m \in because[Position(f)] : because[Position(m)] = {}}}

(* analyzeAssignment(): f and the reason-less literals of the current      *)
(* level that f's variable depends on through reasons; f alone if its      *)
(* variable has no reason.                                                 *)
AnalyzeAssignment(f) ==
  LET top == Position(f)
      reached[i \in 0 .. top] ==        \* the positions beyond i have been visited
        IF i = top THEN {top}
        ELSE LET R == reached[i + 1]
             IN  IF i + 1 \in R
                   THEN R \cup {Position(m) : m \in OnLevel(because[i + 1], CurrentLevel)}
                   ELSE R
  IN  {f} \cup {assigned[i] : i \in {j \in reached[0] \ {top} : because[j] = {}}}
=============================================================================
