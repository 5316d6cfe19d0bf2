-------------------------------- MODULE VSIDS --------------------------------
(***************************************************************************)
(* The branching heuristic over its heap, used as the driver uses it       *)
(* (libjamsat/branching/VSIDSBranchingHeuristic.h and the calls of it in   *)
(* drivers/CDCLSatSolver.cpp).                                             *)
(*                                                                         *)
(* A variable leaves the heap when it is picked or found assigned, and     *)
(* comes back when the driver resets it before it undoes its assignment.   *)
(* What the solver assigns, and where its conflicts are, is left open: any *)
(* variable may be forced on the current level, any call of solve() may    *)
(* end at any place.  The order of the resets within prepareBacktrack()    *)
(* and of the variables seen in a conflict is left open too.               *)
(*                                                                         *)
(* Activities are numbers that are divided by Factor when one reaches      *)
(* Limit; the code does the same with 1e-100 and 1e100.                    *)
(***************************************************************************)
EXTENDS BinaryHeap, FiniteSets

CONSTANTS
  Calls,        \* bound: the calls of solve() a client makes
  MaxLevel,     \* bound: the number of levels above the facts
  MaxFacts,     \* bound: the number of facts that are found
  Limit,        \* activity at which all of them are scaled down
  Factor,       \* what they are divided by
  Growth        \* what the bump is multiplied with after a conflict

ASSUME CallsAssumption ==
  \A c \in Calls : /\ c.max \in 0 .. LargestKey
                   /\ c.assume \subseteq 0 .. c.max
                   /\ c.facts \subseteq 0 .. c.max
ASSUME BoundsAssumption == MaxLevel \in Nat \ {0} /\ MaxFacts \in Nat
ASSUME ScaleAssumption == /\ Limit \in Nat \ {0}
                          /\ Factor \in Nat \ {0}
                          /\ Growth \in Nat \ {0}

VARIABLES
  delta,        \* m_activityBumpDelta
  eligible,     \* m_decisionVariables
  facts,        \* variables of m_facts
  assumed,      \* variables of the assumptions of the current call
  levelOf,      \* the level of an assigned variable, -1 of an unassigned one
  curLevel,     \* the assignment's current level
  pc,           \* the place in the driver
  pending,      \* variables a loop in progress has still to handle
  target        \* the level to backtrack to, -1 for undoAll()

driverVars == <<eligible, facts, assumed, levelOf, curLevel>>
vsidsVars  == <<heapVars, delta, driverVars, pc, pending, target>>

Assigned(v)  == levelOf[v] # -1
Candidate(v) == ~Assigned(v) /\ eligible[v]

AtLeast(x, y) == IF x > y THEN x ELSE y

(* The constructor's reset() inserts variable 0, the only one the driver   *)
(* has when it creates the heuristic.                                      *)
Init ==
  /\ HeapInit(0)
  /\ delta = 1
  /\ eligible = [v \in {0} |-> FALSE]
  /\ facts = {}
  /\ assumed = {}
  /\ levelOf = [v \in {0} |-> -1]
  /\ curLevel = 0
  /\ pc = "inserting"
  /\ pending = {0}
  /\ target = -1

----------------------------------------------------------------------------
(* Before the search.                                                      *)

(* solve() determines its maximum variable and increases that of the       *)
(* heuristic: the new variables are not eligible and will be inserted.     *)
(* Clauses added since the last call may have brought facts.               *)
Solve(c) ==
  /\ pc = "idle"
  /\ c.max >= maxKey
  /\ IncreaseMaxSizeTo(c.max)
  /\ eligible' = [v \in 0 .. c.max |-> v \in Keys /\ eligible[v]]
  /\ levelOf' = [v \in 0 .. c.max |-> -1]
  /\ assumed' = c.assume
  /\ facts' = facts \cup c.facts
  /\ pending' = 0 .. c.max \ Keys
  /\ pc' = "growing"
  /\ UNCHANGED <<delta, curLevel, target>>

(* The loops that insert: of the constructor, increaseMaxVarTo(), reset()  *)
(* and prepareBacktrack().                                                 *)
InsertPending ==
  /\ pc \in {"inserting", "growing", "resetting"}
  /\ \E v \in pending : Insert(v) /\ pending' = pending \ {v}
  /\ UNCHANGED <<delta, driverVars, pc, target>>

Ready == hpc = "idle" /\ pending = {}

Inserted ==
  /\ pc = "inserting" /\ Ready
  /\ pc' = "idle"
  /\ UNCHANGED <<heapVars, delta, driverVars, pending, target>>

(* initializeBranchingHeuristic(assumedFacts)                              *)
Initialize ==
  /\ pc = "growing" /\ Ready
  /\ eligible' = [v \in Keys |-> v \notin assumed]
  /\ pc' = "facts"
  /\ UNCHANGED <<heapVars, delta, facts, assumed, levelOf, curLevel, pending, target>>

----------------------------------------------------------------------------
(* The search.                                                             *)

Assign(v) ==
  /\ ~Assigned(v)
  /\ levelOf' = [levelOf EXCEPT ![v] = curLevel]

(* There may be another fact.                                              *)
FactsLeft == Cardinality(facts \cup {v \in Keys : levelOf[v] = 0}) < MaxFacts

(* Propagation forces a variable on the current level.                     *)
Imply(v) ==
  /\ pc \in {"facts", "assumptions", "propagate"}
  /\ pc = "facts" => FactsLeft
  /\ Assign(v)
  /\ UNCHANGED <<heapVars, delta, eligible, facts, assumed, curLevel, pc, pending, target>>

(* propagateFactsOnSystemLevels() appends a fact or an assumption.         *)
AppendFact(v) ==
  /\ \/ pc = "facts" /\ v \in facts
     \/ pc = "assumptions" /\ v \in assumed
  /\ Assign(v)
  /\ eligible' = [eligible EXCEPT ![v] = FALSE]
  /\ UNCHANGED <<heapVars, delta, facts, assumed, curLevel, pc, pending, target>>

(* All facts are assigned when no inconsistency is found; what they force  *)
(* become facts.                                                           *)
FactsDone ==
  /\ pc = "facts"
  /\ \A v \in facts : Assigned(v)
  /\ facts' = {v \in Keys : Assigned(v)}
  /\ curLevel' = curLevel + 1
  /\ pc' = "assumptions"
  /\ UNCHANGED <<heapVars, delta, eligible, assumed, levelOf, pending, target>>

(* Faulty variant: the loop over the assumptions ends early.               *)
AssumptionsDoneEarly ==
  /\ pc = "assumptions"
  /\ pc' = "search"
  /\ UNCHANGED <<heapVars, delta, driverVars, pending, target>>

(* Each assumption is assigned when no inconsistency is found.             *)
AssumptionsDone ==
  /\ pc = "assumptions"
  /\ \A v \in assumed : Assigned(v)
  /\ pc' = "search"
  /\ UNCHANGED <<heapVars, delta, driverVars, pending, target>>

NewLevel ==
  /\ pc = "search"
  /\ curLevel < MaxLevel
  /\ \E v \in Keys : ~Assigned(v)
  /\ curLevel' = curLevel + 1
  /\ pc' = "pick"
  /\ UNCHANGED <<heapVars, delta, eligible, facts, assumed, levelOf, pending, target>>

(* Faulty variant: assigned variables are not skipped.                     *)
PickEligible ==
  /\ pc = "pick"
  /\ RemoveMax
  /\ pc' = IF eligible[result'] THEN "decided" ELSE "pick"
  /\ UNCHANGED <<delta, driverVars, pending, target>>

(* One turn of the loop of pickBranchLiteral().                            *)
Pick ==
  /\ pc = "pick"
  /\ RemoveMax
  /\ pc' = IF Candidate(result') THEN "decided" ELSE "pick"
  /\ UNCHANGED <<delta, driverVars, pending, target>>

(* resolveDecision() appends the decision.                                 *)
AppendDecision ==
  /\ pc = "decided" /\ hpc = "idle"
  /\ Assign(result)
  /\ result' = NoKey
  /\ pc' = "propagate"
  /\ UNCHANGED <<maxKey, arrayVars, size, activity, siftVars, delta, eligible, facts, assumed, curLevel, pending, target>>

(* After a backjump to level 0 the driver restarts instead.                *)
NoConflict ==
  /\ pc = "propagate" /\ curLevel > 0
  /\ pc' = "search"
  /\ UNCHANGED <<heapVars, delta, driverVars, pending, target>>

----------------------------------------------------------------------------
(* Conflicts.                                                              *)

(* beginHandlingConflict()                                                 *)
BeginConflict ==
  /\ pc = "propagate" /\ curLevel > 1
  /\ pc' = "conflict"
  /\ UNCHANGED <<heapVars, delta, driverVars, pending, target>>

Bumped(v) == [activity EXCEPT ![v] = @ + delta]

ScaledDown(f) == [v \in Keys |-> f[v] \div Factor]

(* Faulty variant: the bump may vanish.                                    *)
ScaledDeltaToZero == delta \div Factor

ScaledDelta == AtLeast(delta \div Factor, 1)

(* seenInConflict(v), with scaleDownActivities().  The analysis reports    *)
(* any assigned variables, at least one.                                   *)
SeenInConflict(v) ==
  /\ pc \in {"conflict", "seen"} /\ hpc = "idle"
  /\ Assigned(v)
  /\ pc' = "seen"
  /\ IF Bumped(v)[v] >= Limit
     THEN activity' = ScaledDown(Bumped(v)) /\ delta' = ScaledDelta
     ELSE activity' = Bumped(v) /\ delta' = delta
  /\ IF Contains(v) THEN IncreasingUpdate(v) ELSE UNCHANGED siftVars
  /\ UNCHANGED <<maxKey, arrayVars, size, result, driverVars, pending, target>>

(* Faulty variant: prepareBacktrack() stops one level too high.            *)
PrepareBacktrackAbove(k) ==
  /\ pending' = {v \in Keys : levelOf[v] > k + 1}
  /\ target' = k
  /\ pc' = "resetting"

(* Backtracking begins: the variables above level k will be reset.         *)
PrepareBacktrack(k) ==
  /\ pending' = {v \in Keys : levelOf[v] > k}
  /\ target' = k
  /\ pc' = "resetting"

(* endHandlingConflict(); the lemma makes the driver backtrack to level k, *)
(* or it is a fact of a variable of the current level and the driver       *)
(* undoes everything.                                                      *)
EndConflict ==
  /\ pc = "seen" /\ Ready
  /\ delta' = delta * Growth
  /\ \/ \E k \in 0 .. curLevel - 1 : PrepareBacktrack(k) /\ UNCHANGED facts
     \/ \E v \in Keys : /\ levelOf[v] = curLevel
                        /\ FactsLeft
                        /\ facts' = facts \cup {v}
                        /\ PrepareBacktrack(-1)
  /\ UNCHANGED <<heapVars, eligible, assumed, levelOf, curLevel>>

(* A restart, or the end of solve(), by any of its ways.                   *)
BacktrackAll ==
  /\ pc \in {"facts", "assumptions", "search", "propagate"}
  /\ PrepareBacktrack(-1)
  /\ UNCHANGED <<heapVars, delta, driverVars>>

(* Assignment::undoToLevel(), after which the lemma forces a variable and  *)
(* is propagated, or undoAll(), after which solve() goes on or returns.    *)
Undo ==
  /\ pc = "resetting" /\ Ready
  /\ levelOf' = [v \in Keys |-> IF levelOf[v] > target THEN -1 ELSE levelOf[v]]
  /\ curLevel' = AtLeast(target, 0)
  /\ target' = -1
  /\ \/ target >= 0 /\ pc' = "propagate" /\ UNCHANGED assumed
     \/ target = -1 /\ pc' = "facts" /\ UNCHANGED assumed
     \/ target = -1 /\ pc' = "idle" /\ assumed' = {}
  /\ UNCHANGED <<heapVars, delta, eligible, facts, pending>>

----------------------------------------------------------------------------
HeapMoves ==
  /\ HeapStep
  /\ UNCHANGED <<delta, driverVars, pc, pending, target>>

Next ==
  \/ \E c \in Calls : Solve(c)
  \/ InsertPending \/ Inserted \/ Initialize
  \/ \E v \in Keys : Imply(v) \/ AppendFact(v)
  \/ FactsDone \/ AssumptionsDone \/ NewLevel \/ Pick \/ AppendDecision \/ NoConflict
  \/ BeginConflict
  \/ \E v \in Keys : SeenInConflict(v)
  \/ EndConflict
  \/ BacktrackAll \/ Undo
  \/ HeapMoves

Spec == Init /\ [][Next]_vsidsVars

----------------------------------------------------------------------------
VSIDSTypeOK ==
  /\ HeapTypeOK
  /\ delta \in Nat \ {0}
  /\ eligible \in [Keys -> BOOLEAN]
  /\ facts \subseteq Keys
  /\ assumed \subseteq Keys
  /\ levelOf \in [Keys -> -1 .. MaxLevel]
  /\ curLevel \in 0 .. MaxLevel
  /\ pc \in {"inserting", "idle", "growing", "facts", "assumptions", "search",
             "pick", "decided", "propagate", "conflict", "seen", "resetting"}
  /\ pending \subseteq Keys
  /\ target \in -1 .. MaxLevel

(* A variable that is not assigned is in the heap, or about to be put      *)
(* there, or it has just been picked.  Every way the driver undoes an      *)
(* assignment (restart, backjump, end of a call) must put back what picks  *)
(* have taken out; a variable lost is never decided again, and a solver    *)
(* that has decided all it can find would use an undefined literal         *)
(* (VSIDSBranchingHeuristic.h:208-223, CDCLSatSolver.cpp:707-719,762-764). *)
NothingLost ==
  \A v \in Keys : \/ Assigned(v)
                  \/ InHeap(v)
                  \/ pc \in {"inserting", "growing"} /\ v \in pending
                  \/ pc = "decided" /\ v = result

(* What pickBranchLiteral() finds is unassigned and eligible, and no       *)
(* candidate has a greater activity: the heap is ordered by activities     *)
(* that are bumped and scaled down while variables are in it.              *)
PickIsBest ==
  pc = "decided" =>
    /\ Candidate(result)
    /\ \A v \in Keys : Candidate(v) => activity[v] <= activity[result]

(* While a decision is looked for there is one, so that the loop of        *)
(* pickBranchLiteral() does not end with the undefined literal, which the  *)
(* driver takes for impossible (CDCLSatSolver.cpp:763).                    *)
DecisionFound ==
  pc = "pick" => \E v \in Keys : Candidate(v) /\ InHeap(v)

=============================================================================
