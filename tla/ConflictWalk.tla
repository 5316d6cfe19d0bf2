---------------------------- MODULE ConflictWalk ----------------------------
(***************************************************************************)
(* How a lemma is derived from a conflict, step by step: the walk down the *)
(* trail of solver/FirstUIPLearning.h, the redundancy checks and the       *)
(* resolution with binary clauses of simplification/ClauseMinimization.h,  *)
(* the literal block distances, and the stamp map they share, in the order *)
(* of deriveLemma() and prepareBacktrack() in drivers/CDCLSatSolver.cpp.   *)
(*                                                                         *)
(* The solver's search is module UnitPropagation with decisions; the       *)
(* clauses do not change but for the lemmas.  The order of the literals    *)
(* within clauses, and of the work of a redundancy check, is left open.    *)
(***************************************************************************)
EXTENDS ConflictAnalysis, StampMap, FiniteSetsExt

CONSTANTS
  Formulas,       \* the sets of clauses to be searched
  SystemLits,     \* what may become a fact or an assumption
  ApproxSize,     \* the size of the over-approximating set of levels
  LBDUpdates,     \* Config::maxLBDUpdatesOnBacktrack
  MaxConflicts    \* bound: the conflicts analyzed

(* The clauses are stored ones: of several literals, without a variable    *)
(* that occurs twice (compressClause).                                     *)
ASSUME FormulasAssumption ==
  \A F \in Formulas : \A C \in F :
    C \in ClauseSets /\ (\A l \in C : Neg(l) \notin C) /\ \E l, m \in C : l # m
ASSUME WalkAssumption ==
  /\ SystemLits \subseteq Lits
  /\ ApproxSize \in Nat \ {0} /\ LBDUpdates \in Nat /\ MaxConflicts \in Nat

VARIABLES
  phase,        \* what runs: "search", "branch", "walk", "minimize", "redundant", ...
  seen,         \* m_stamps of FirstUIPLearning: variables
  unresolved,   \* unresolvedCount
  cursor,       \* the position on the trail
  uip,          \* result[0], 0 when undefined
  lemma,        \* the other literals of the result, later all of them
  original,     \* the lemma as it was before minimization
  toCheck,      \* literals whose redundancy has not been checked yet
  checking,     \* the literal whose redundancy is being checked, 0 if none
  work,         \* m_work: variables
  cleanup,      \* m_stampCleanup: variables
  updates,      \* LBD updates left to be made
  numConflicts  \* the conflicts so far

walkVars == <<seen, unresolved, cursor, uip>>
miniVars == <<original, toCheck, checking, work, cleanup>>
cwVars   == <<absVars, stampVars, phase, walkVars, lemma, miniVars, updates, numConflicts>>

VarsOf(C) == {VarOf(l) : l \in C}

(* The Index types of the stamp map.                                       *)
VarIndex(v)   == v - 1
LitIndex(l)   == IF l > 0 THEN 2 * (l - 1) + 1 ELSE 2 * (-l - 1)
VarStamps(V)  == {VarIndex(v) : v \in V}
LastLitIndex  == 2 * NumVars - 1

CWInit ==
  /\ active \in Formulas
  /\ assigned = <<>> /\ because = <<>> /\ limits = <<0>>
  /\ busy = FALSE /\ falsified = {}
  /\ InitStamps(LastLitIndex)
  /\ phase = "search"
  /\ seen = {} /\ unresolved = 0 /\ cursor = 0 /\ uip = 0
  /\ lemma = {} /\ original = {}
  /\ toCheck = {} /\ checking = 0 /\ work = {} /\ cleanup = {}
  /\ updates = 0
  /\ numConflicts = 0

----------------------------------------------------------------------------
(* The search: facts on level 0, assumptions on level 1, and a level for   *)
(* every decision.                                                         *)
SystemLiteral(l) ==
  /\ phase = "search"
  /\ CurrentLevel <= 1
  /\ Decide(l)
  /\ UNCHANGED <<stampVars, phase, walkVars, lemma, miniVars, updates, numConflicts>>

BeginAssumptions ==
  /\ phase = "search"
  /\ CurrentLevel = 0
  /\ OpenLevel
  /\ UNCHANGED <<stampVars, phase, walkVars, lemma, miniVars, updates, numConflicts>>

Propagation ==
  /\ phase = "search"
  /\ (\E C \in active, l \in Lits : ForceUnit(C, l)) \/ (\E C \in active : Fail(C)) \/ Succeed
  /\ UNCHANGED <<stampVars, phase, walkVars, lemma, miniVars, updates, numConflicts>>

NewDecisionLevel ==
  /\ phase = "search"
  /\ CurrentLevel >= 1
  /\ \E l \in Lits : Unassigned(l)
  /\ OpenLevel
  /\ phase' = "branch"
  /\ UNCHANGED <<stampVars, walkVars, lemma, miniVars, updates, numConflicts>>

Decision(l) ==
  /\ phase = "branch"
  /\ Decide(l)
  /\ phase' = "search"
  /\ UNCHANGED <<stampVars, walkVars, lemma, miniVars, updates, numConflicts>>

----------------------------------------------------------------------------
(* FirstUIPLearning::computeConflictClause().                              *)

(* addResolvent(): the literals of the reason that have not been seen,     *)
(* except the one resolved at, are marked and counted or put into the      *)
(* result.  The faulty variant counts the ones that had been seen, too.    *)
AddResolventTwice(reason, at, before) ==
  LET new == {l \in reason : l # at}
  IN  /\ seen' = before \cup VarsOf(new)
      /\ unresolved' = (IF at = 0 THEN 0 ELSE unresolved - 1) + Cardinality(OnLevel(new, CurrentLevel))
      /\ lemma' = lemma \cup (new \ OnLevel(new, CurrentLevel))

AddResolvent(reason, at, before) ==
  LET new == {l \in reason : l # at /\ VarOf(l) \notin before}
  IN  /\ seen' = before \cup VarsOf(new)
      /\ unresolved' = (IF at = 0 THEN 0 ELSE unresolved - 1) + Cardinality(OnLevel(new, CurrentLevel))
      /\ lemma' = lemma \cup (new \ OnLevel(new, CurrentLevel))

InitializeResult ==
  /\ phase = "search"
  /\ falsified # {}
  /\ CurrentLevel >= 2
  /\ numConflicts < MaxConflicts
  /\ numConflicts' = numConflicts + 1
  /\ AddResolvent(falsified, 0, seen)
  /\ cursor' = Len(assigned)
  /\ uip' = 0
  /\ phase' = "walk"
  /\ UNCHANGED <<absVars, stampVars, miniVars, updates>>

(* resolveUntilUIP()                                                       *)
ResolveAtCursor ==
  /\ phase = "walk"
  /\ unresolved > 1
  /\ IF VarOf(assigned[cursor]) \in seen
       THEN AddResolvent(because[cursor], assigned[cursor], seen \ {VarOf(assigned[cursor])})
       ELSE UNCHANGED <<seen, unresolved, lemma>>
  /\ cursor' = cursor - 1
  /\ UNCHANGED <<absVars, stampVars, phase, uip, miniVars, updates, numConflicts>>

PassOver ==
  /\ phase = "walk"
  /\ unresolved <= 1
  /\ VarOf(assigned[cursor]) \notin seen
  /\ cursor' = cursor - 1
  /\ UNCHANGED <<absVars, stampVars, phase, seen, unresolved, uip, lemma, miniVars, updates, numConflicts>>

(* The asserting literal is found; its mark and those of the result go     *)
(* (clearStamps).                                                          *)
FindUIP ==
  /\ phase = "walk"
  /\ unresolved <= 1
  /\ VarOf(assigned[cursor]) \in seen
  /\ uip' = Neg(assigned[cursor])
  /\ lemma' = lemma \cup {uip'}
  /\ seen' = seen \ VarsOf(lemma')
  /\ phase' = "minimize"
  /\ CreateContext(VarStamps(VarsOf(lemma')))
  /\ original' = lemma'
  /\ toCheck' = lemma'
  /\ UNCHANGED <<absVars, unresolved, cursor, checking, work, cleanup, updates, numConflicts>>

(* Memory runs out while the result grows.  The handler removes the marks  *)
(* of the variables up to m_maxVar, which is the one the analyzer was      *)
(* constructed with: in the solver, the first.  The solver is unusable     *)
(* from then on (m_hadUnrecoverableError).                                 *)
OutOfMemory ==
  /\ phase = "walk"
  /\ unresolved > 1
  /\ VarOf(assigned[cursor]) \in seen
  /\ seen' = seen \ {VarOf(assigned[cursor]), 1}
  /\ phase' = "failed"
  /\ UNCHANGED <<absVars, stampVars, unresolved, cursor, uip, lemma, miniVars, updates, numConflicts>>

----------------------------------------------------------------------------
(* eraseRedundantLiterals(), within a context in which the variables of    *)
(* the lemma are stamped.                                                  *)
MightContain(L, k) == \E j \in L : j % ApproxSize = k % ApproxSize
Reason(v)          == because[Position(v)]

(* Literals without a reason go when they are on level 0, those on the     *)
(* current level stay, the others are checked.                             *)
CheckLiteral(l) ==
  /\ phase = "minimize"
  /\ l \in toCheck
  /\ toCheck' = toCheck \ {l}
  /\ IF Reason(l) # {} /\ LevelOf(l) # CurrentLevel
       THEN /\ phase' = "redundant"
            /\ checking' = l
            /\ work' = {VarOf(l)}
            /\ cleanup' = {}
            /\ UNCHANGED lemma
       ELSE /\ lemma' = IF LevelOf(l) = 0 /\ Reason(l) = {} THEN lemma \ {l} ELSE lemma
            /\ UNCHANGED <<phase, checking, work, cleanup>>
  /\ UNCHANGED <<absVars, stampVars, walkVars, original, updates, numConflicts>>

(* A literal that refutes the redundancy: it is on a level without a       *)
(* literal of the lemma, or a decision that is not in the lemma.           *)
Refutes(l) ==
  \/ ~MightContain(LevelsOf(original) \cup {0}, LevelOf(l))
  \/ /\ LevelOf(l) # 0
     /\ ~IsStamped(VarIndex(VarOf(l)))
     /\ Reason(l) = {}

(* isRedundant() gives up, and takes back what it has stamped.  The faulty *)
(* variant leaves the stamps.                                              *)
GiveUpStamped(v) ==
  /\ phase = "redundant"
  /\ \E l \in Reason(v) : Refutes(l)
  /\ phase' = "minimize"
  /\ checking' = 0 /\ work' = {} /\ cleanup' = {}
  /\ UNCHANGED <<absVars, stampVars, walkVars, lemma, original, toCheck, updates, numConflicts>>

GiveUp(v) ==
  /\ phase = "redundant"
  /\ \E l \in Reason(v) : Refutes(l)
  /\ SetStamped(VarStamps(cleanup), FALSE)
  /\ phase' = "minimize"
  /\ checking' = 0 /\ work' = {} /\ cleanup' = {}
  /\ UNCHANGED <<absVars, walkVars, lemma, original, toCheck, updates, numConflicts>>

(* The reason of v adds work: its variables that have not been visited.    *)
Descend(v) ==
  /\ phase = "redundant"
  /\ \A l \in Reason(v) : ~Refutes(l)
  /\ LET new == {VarOf(l) : l \in {m \in Reason(v) : LevelOf(m) # 0 /\ ~IsStamped(VarIndex(VarOf(m)))}}
     IN  /\ SetStamped(VarStamps(new), TRUE)
         /\ work' = (work \ {v}) \cup new
         /\ cleanup' = cleanup \cup new
  /\ UNCHANGED <<absVars, phase, walkVars, lemma, original, toCheck, checking, updates, numConflicts>>

(* No work is left: the literal is redundant.                              *)
EraseLiteral ==
  /\ phase = "redundant"
  /\ work = {}
  /\ lemma' = lemma \ {checking}
  /\ phase' = "minimize"
  /\ checking' = 0 /\ cleanup' = {}
  /\ UNCHANGED <<absVars, stampVars, walkVars, original, toCheck, work, updates, numConflicts>>

EndMinimization ==
  /\ phase = "minimize"
  /\ toCheck = {}
  /\ Clear
  /\ phase' = IF Cardinality(lemma) <= SizeBound THEN "optimize" ELSE "derived"
  /\ UNCHANGED <<absVars, walkVars, lemma, miniVars, updates, numConflicts>>

----------------------------------------------------------------------------
(* getLBD(), as the stamps of the levels make it: a level counts unless it *)
(* is found stamped.                                                       *)
StampedLBD(C) == Cardinality({k \in LevelsOf(C) : ~IsStamped(k)})

(* optimizeLemma(): a good lemma is resolved with binary clauses, in a     *)
(* context of its own.                                                     *)
OptimizeLemma ==
  /\ phase = "optimize"
  /\ StampOnce(LevelsOf(lemma))
  /\ phase' = IF StampedLBD(lemma) <= LBDBound THEN "binaries" ELSE "derived"
  /\ UNCHANGED <<absVars, walkVars, lemma, miniVars, updates, numConflicts>>

ResolveWithBinaries ==
  /\ phase = "binaries"
  /\ LET second    == {l \in Lits : {uip, l} \in active}
         Marked(i) == IsStamped(i) \/ i \in {LitIndex(l) : l \in second}
     IN  /\ StampOnce({LitIndex(l) : l \in second})
         /\ lemma' = IF second = {} THEN lemma ELSE {l \in lemma : ~Marked(LitIndex(Neg(l)))}
  /\ phase' = "derived"
  /\ UNCHANGED <<absVars, walkVars, miniVars, updates, numConflicts>>

(* A lemma of several literals is created, with its LBD; backtracking will *)
(* begin with updates of the LBDs of reasons (prepareBacktrack).           *)
CreateLemma ==
  /\ phase = "derived"
  /\ IF Cardinality(lemma) = 1 THEN UNCHANGED stampVars ELSE StampOnce(LevelsOf(lemma))
  /\ phase' = "backtrack"
  /\ updates' = Min({LBDUpdates, Cardinality({i \in 1 .. Len(assigned) :
                                     LevelAt(i) = CurrentLevel /\ because[i] # {}})})
  /\ UNCHANGED <<absVars, walkVars, lemma, miniVars, numConflicts>>

(* The last forced literals of the current level, downwards.               *)
UpdateReasonClauseLBD ==
  /\ phase = "backtrack"
  /\ updates > 0
  /\ \E i \in 1 .. Len(assigned) :
       /\ LevelAt(i) = CurrentLevel
       /\ because[i] # {}
       /\ StampOnce(LevelsOf(because[i]))
  /\ updates' = updates - 1
  /\ UNCHANGED <<absVars, phase, walkVars, lemma, miniVars, numConflicts>>

(* Backtracking to the highest level of the other literals; a lemma of one *)
(* literal makes the solver restart.                                       *)
HighestOther == Max({0} \cup {LevelOf(l) : l \in lemma \ {uip}})

Backtrack ==
  /\ phase = "backtrack"
  /\ updates = 0
  /\ IF Cardinality(lemma) = 1 THEN Reset ELSE Undo(HighestOther)
  /\ phase' = "learn"
  /\ UNCHANGED <<stampVars, walkVars, lemma, miniVars, updates, numConflicts>>

(* The lemma is registered and propagated, or propagated as a fact.        *)
LearnLemma ==
  /\ phase = "learn"
  /\ IF Cardinality(lemma) = 1 THEN Decide(uip) ELSE Learn(lemma, uip)
  /\ lemma' = {} /\ original' = {}
  /\ phase' = "search"
  /\ UNCHANGED <<stampVars, walkVars, toCheck, checking, work, cleanup, updates, numConflicts>>

CWNext ==
  \/ Propagation
  \/ \E l \in SystemLits : SystemLiteral(l)
  \/ BeginAssumptions
  \/ NewDecisionLevel
  \/ \E l \in Lits : Decision(l)
  \/ InitializeResult
  \/ ResolveAtCursor
  \/ PassOver
  \/ FindUIP
  \/ OutOfMemory
  \/ \E l \in toCheck : CheckLiteral(l)
  \/ \E v \in work : GiveUp(v) \/ Descend(v)
  \/ EraseLiteral
  \/ EndMinimization
  \/ OptimizeLemma
  \/ ResolveWithBinaries
  \/ CreateLemma
  \/ UpdateReasonClauseLBD
  \/ Backtrack
  \/ LearnLemma

CWSpec == CWInit /\ [][CWNext]_cwVars

----------------------------------------------------------------------------
(* While the walk goes down the trail, unresolvedCount is the number of    *)
(* variables of the current level that are marked and not yet resolved at, *)
(* all of them at or below the cursor, and the other marked variables are  *)
(* those of the result; when there is no walk, nothing is marked ("class   *)
(* invariant A" of FirstUIPLearning, resolveUntilUIP()).                   *)
CounterExact ==
  /\ phase = "walk" =>
       LET open == {v \in seen : LevelOf(v) = CurrentLevel}
       IN  /\ unresolved = Cardinality(open)
           /\ \A v \in open : Position(v) <= cursor
           /\ seen \ open = VarsOf(lemma)
  /\ phase \notin {"walk", "failed"} => seen = {}

(* The lemma that comes out of the walk, the redundancy checks with their  *)
(* shared stamps, and the resolution with binary clauses, is the one that  *)
(* module ConflictAnalysis defines (deriveLemma, optimizeLemma).           *)
LemmaAsDefined ==
  phase = "derived" => lemma = DerivedLemma /\ uip = AssertingLiteral(FirstUIPClause)
=============================================================================
