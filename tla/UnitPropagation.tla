-------------------------- MODULE UnitPropagation --------------------------
(***************************************************************************)
(* What Assignment promises its clients, without watchers, blockers,       *)
(* dirty marks or a propagation queue.  Clauses are sets of literals; an   *)
(* assignment is a trail divided into levels.  append() and                *)
(* registerLemma() make one literal true and then a call is in progress    *)
(* (busy), during which any clause that has become unit may force its last *)
(* literal.  The call ends with a falsified clause, or when no clause is   *)
(* unit or falsified: never earlier.                                       *)
(***************************************************************************)
EXTENDS CNF

CONSTANT ClauseSets     \* the clauses there can be

ASSUME ClauseSetsAssumption == ClauseSets \subseteq SUBSET Lits

VARIABLES
  active,     \* the clauses taking part in propagation
  assigned,   \* the literals made true, in their order
  because,    \* for each of them, the clause that forced it, {} if none did
  limits,     \* level k begins after position limits[k+1] of assigned
  busy,       \* a propagating call is in progress
  falsified   \* the conflicting clause of the last call, {} if none

absVars == <<active, assigned, because, limits, busy, falsified>>

True(l)       == \E i \in 1 .. Len(assigned) : assigned[i] = l
False(l)      == True(Neg(l))
Unassigned(l) == ~True(l) /\ ~False(l)

(* C has become unit and forces l.                                         *)
Forces(C, l) == Unassigned(l) /\ l \in C /\ \A m \in C \ {l} : False(m)
Falsified(C) == \A l \in C : False(l)
QuiescentUnlessFalse == \A C \in active : ~Falsified(C)       \* faulty variant
Quiescent    == \A C \in active : ~Falsified(C) /\ \A l \in C : ~Forces(C, l)

Init ==
  /\ active = {}
  /\ assigned = <<>>
  /\ because = <<>>
  /\ limits = <<0>>
  /\ busy = FALSE
  /\ falsified = {}

Ready == ~busy /\ falsified = {}

(* Clauses come without assigned literals, and may go when nothing is      *)
(* assigned.                                                               *)
Register(C) ==
  /\ Ready
  /\ \A l \in C : Unassigned(l)
  /\ active' = active \cup {C}
  /\ UNCHANGED <<assigned, because, limits, busy, falsified>>

Unregister(S) ==
  /\ Ready
  /\ assigned = <<>>
  /\ active' = active \ S
  /\ UNCHANGED <<assigned, because, limits, busy, falsified>>

Decide(l) ==
  /\ Ready
  /\ Unassigned(l)
  /\ assigned' = Append(assigned, l)
  /\ because' = Append(because, {})
  /\ busy' = TRUE
  /\ UNCHANGED <<active, limits, falsified>>

Learn(C, l) ==
  /\ Ready
  /\ Forces(C, l)
  /\ active' = active \cup {C}
  /\ assigned' = Append(assigned, l)
  /\ because' = Append(because, C)
  /\ busy' = TRUE
  /\ UNCHANGED <<limits, falsified>>

ForceUnit(C, l) ==
  /\ busy
  /\ Forces(C, l)
  /\ assigned' = Append(assigned, l)
  /\ because' = Append(because, C)
  /\ UNCHANGED <<active, limits, busy, falsified>>

Fail(C) ==
  /\ busy
  /\ Falsified(C)
  /\ busy' = FALSE
  /\ falsified' = C
  /\ UNCHANGED <<active, assigned, because, limits>>

Succeed ==
  /\ busy
  /\ Quiescent
  /\ busy' = FALSE
  /\ UNCHANGED <<active, assigned, because, limits, falsified>>

OpenLevel ==
  /\ Ready
  /\ limits' = Append(limits, Len(assigned))
  /\ UNCHANGED <<active, assigned, because, busy, falsified>>

(* Back to level k: a lower one than the current, or level 0 without its   *)
(* assignments.                                                            *)
Undo(k) ==
  /\ ~busy
  /\ k \in 0 .. Len(limits) - 2
  /\ assigned' = SubSeq(assigned, 1, limits[k + 2])
  /\ because' = SubSeq(because, 1, limits[k + 2])
  /\ limits' = SubSeq(limits, 1, k + 1)
  /\ falsified' = {}
  /\ UNCHANGED <<active, busy>>

Reset ==
  /\ ~busy
  /\ assigned' = <<>>
  /\ because' = <<>>
  /\ limits' = <<0>>
  /\ falsified' = {}
  /\ UNCHANGED <<active, busy>>

Next ==
  \/ \E C \in ClauseSets : Register(C)
  \/ \E S \in SUBSET active : Unregister(S)
  \/ \E l \in Lits : Decide(l)
  \/ \E C \in ClauseSets, l \in Lits : Learn(C, l)
  \/ \E C \in active, l \in Lits : ForceUnit(C, l)
  \/ \E C \in active : Fail(C)
  \/ Succeed
  \/ OpenLevel
  \/ \E k \in 0 .. Len(limits) : Undo(k)
  \/ Reset

Spec == Init /\ [][Next]_absVars
=============================================================================
