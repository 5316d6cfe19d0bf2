----------------------------- MODULE CDCLSearch -----------------------------
(***************************************************************************)
(* The search driver of JamSAT: incremental solving under assumptions by   *)
(* conflict-driven clause learning (libjamsat/drivers/CDCLSatSolver.cpp),  *)
(* with the optimizer it runs between restarts                             *)
(* (simplification/optimizers/FactCleaner.cpp).                            *)
(*                                                                         *)
(* The driver is composed with the abstract UnitPropagation, which         *)
(* Assignment is shown to implement: calls of append() and registerLemma() *)
(* are Decide and Learn, and run (busy) until Succeed or Fail.  Another    *)
(* thread may call stop() at any time.                                     *)
(*                                                                         *)
(* What only steers the search is left open: the branching literal, the    *)
(* order of the facts, whether the optimizer and the clause database       *)
(* reduction run at a restart, which lemmas a reduction selects, and when  *)
(* the restart policy asks for a restart once there was a conflict.        *)
(***************************************************************************)
EXTENDS ConflictAnalysis

CONSTANTS
  Inputs,           \* the clauses a client may add
  Assumptions,      \* the sequences of literals a client may assume
  CheckInterval,    \* m_checkStopInterval
  MaxReductions     \* bound: reductions of the clause database

ASSUME InputsAssumption      == Inputs \subseteq SUBSET Lits
ASSUME AssumptionsAssumption == Assumptions \subseteq Seq(Lits)
ASSUME CountersAssumption    == CheckInterval \in Nat \ {0} /\ MaxReductions \in Nat

VARIABLES
  problem,          \* history: the clauses added so far
  db,               \* clauses of m_clauseDB that must be kept
  lemmas,           \* m_lemmas: clauses of m_clauseDB with flag REDUNDANT
  scheduled,        \* clauses of m_clauseDB with flag SCHEDULED_FOR_DELETION
  facts,            \* m_facts
  maxVar,           \* m_maxVar
  detectedUnsat,    \* m_detectedUNSAT
  hadError,         \* m_hadUnrecoverableError
  stopRequested,    \* m_stopRequested
  eligible,         \* the variables eligible for decisions
  assumed,          \* assumedFacts, the argument of solve()
  next,             \* the assumption to be propagated next
  pc,               \* where solve() is
  lemma, uip,       \* the lemma just derived and its asserting literal
  conflicts,        \* m_conflictCount, modulo CheckInterval
  mayRestart,       \* a conflict was reported to m_restartPolicy since its last restart
  reductions,       \* the number of clause database reductions
  verdict,          \* the result of the last solve() that returned
  model,            \* its model, as the set of true literals
  failed            \* its failed assumptions

clauseStore == <<db, lemmas, scheduled, facts>>
input       == <<problem, maxVar, detectedUnsat>>
call        == <<assumed, eligible>>
derived     == <<lemma, uip>>
policy      == <<conflicts, mayRestart, reductions>>
outcome     == <<verdict, model, failed>>
searchVars  == <<absVars, input, clauseStore, hadError, stopRequested, call, next, pc, derived,
                 policy, outcome>>

----------------------------------------------------------------------------
SearchInit ==
  /\ Init
  /\ problem = {}
  /\ db = {}
  /\ lemmas = {}
  /\ scheduled = {}
  /\ facts = {}
  /\ maxVar = 1
  /\ detectedUnsat = FALSE
  /\ hadError = FALSE
  /\ stopRequested = FALSE
  /\ eligible = {}
  /\ assumed = <<>>
  /\ next = 1
  /\ pc = "idle"
  /\ lemma = {}
  /\ uip = 0
  /\ conflicts = 0
  /\ mayRestart = FALSE
  /\ reductions = 0
  /\ verdict = "none"
  /\ model = {}
  /\ failed = {}

GreatestVar(C) == CHOOSE v \in {VarOf(l) : l \in C} : \A l \in C : VarOf(l) <= v
MaxOf(m, n)    == IF m < n THEN n ELSE m
UnitsOf(F)     == {{f} : f \in F}
TrueLits       == LitSet(assigned)
Tautology(C)   == \E l \in C : Neg(l) \in C

(* Any clause without repeated variables can be stored.                    *)
ASSUME StoredAssumption ==
  \A C \in SUBSET Lits : Cardinality(C) >= 2 /\ ~Tautology(C) => C \in ClauseSets

----------------------------------------------------------------------------
(* Calls of the client.                                                    *)

(* addClause(): compressClause() merges repeated literals and drops        *)
(* tautologies, whose variables stay unknown.                              *)
AddClause(C) ==
  /\ pc = "idle"
  /\ C \notin problem
  /\ problem' = problem \cup {C}
  /\ detectedUnsat' = (detectedUnsat \/ C = {})
  /\ IF C = {} \/ Tautology(C)
       THEN UNCHANGED <<facts, db, maxVar>>
       ELSE /\ facts' = IF Cardinality(C) = 1 THEN facts \cup C ELSE facts
            /\ db' = IF Cardinality(C) = 1 THEN db ELSE db \cup {C}
            /\ maxVar' = MaxOf(maxVar, GreatestVar(C))
  /\ verdict' = "none"
  /\ UNCHANGED <<absVars, lemmas, scheduled, hadError, stopRequested, call, next, pc, derived,
                 policy, model, failed>>

(* synchronizeSubsystemsWithClauseDB(): every clause of the database takes *)
(* part in propagation, those scheduled for deletion too.                  *)
Synchronize(D, L, S) ==
  /\ active' = D \cup L \cup S
  /\ UNCHANGED <<assigned, because, limits, busy, falsified>>

(* solve() answers at once after an earlier error or an empty clause.      *)
SolveImmediately(A) ==
  /\ pc = "idle"
  /\ hadError \/ detectedUnsat
  /\ stopRequested' = FALSE
  /\ assumed' = A
  /\ verdict' = IF hadError THEN "indeterminate" ELSE "unsat"
  /\ model' = {}
  /\ failed' = {}
  /\ UNCHANGED <<absVars, input, clauseStore, hadError, eligible, next, pc, derived, policy>>

(* initializeBranchingHeuristic()                                          *)
EligibleKept(n, A) == eligible \ {VarOf(l) : l \in LitSet(A)}       \* faulty variant
EligibleFor(n, A)  == (1 .. n) \ {VarOf(l) : l \in LitSet(A)}

StartSolve(A) ==
  /\ pc = "idle"
  /\ ~hadError /\ ~detectedUnsat
  /\ stopRequested' = FALSE
  /\ assumed' = A
  /\ maxVar' = IF A = <<>> THEN maxVar ELSE MaxOf(maxVar, GreatestVar(LitSet(A)))
  /\ Synchronize(db, lemmas, scheduled)
  /\ eligible' = EligibleFor(maxVar', A)
  /\ pc' = "restart"
  /\ verdict' = "none"
  /\ model' = {}
  /\ failed' = {}
  /\ UNCHANGED <<problem, detectedUnsat, clauseStore, hadError, next, derived, policy>>

(* stop(), from any thread.                                                *)
Stop ==
  /\ ~stopRequested
  /\ stopRequested' = TRUE
  /\ UNCHANGED <<absVars, input, clauseStore, hadError, call, next, pc, derived, policy, outcome>>

----------------------------------------------------------------------------
(* Propagation, while append() or registerLemma() runs.                    *)
Propagate ==
  /\ \/ \E C \in active, l \in Lits : ForceUnit(C, l)
     \/ \E C \in active : Fail(C)
     \/ Succeed
  /\ UNCHANGED <<input, clauseStore, hadError, stopRequested, call, next, pc, derived, policy,
                 outcome>>

----------------------------------------------------------------------------
(* The restart loop of solve().                                            *)

(* The loop ends: solve() will return v.                                   *)
Conclude(v) ==
  /\ pc' = "return"
  /\ verdict' = v

LoopStopped ==
  /\ pc = "restart"
  /\ stopRequested
  /\ Conclude("indeterminate")
  /\ UNCHANGED <<absVars, input, clauseStore, hadError, stopRequested, call, next, derived,
                 policy, model, failed>>

(* trySimplify(), with the FactCleaner.  F: the facts and what propagating *)
(* them on an empty trail adds.                                            *)
UnitClosed(F) ==
  \A C \in active :
    /\ \E l \in C : Neg(l) \notin F
    /\ \A l \in C : (\A m \in C \ {l} : Neg(m) \in F) => l \in F
PartialAssignments == {F \in SUBSET Lits : \A l \in F : Neg(l) \notin F}
FactClosures       == {F \in PartialAssignments : facts \subseteq F /\ UnitClosed(F)}
WithConsequences == {l \in Lits : \A F \in FactClosures : l \in F}

(* Clauses with a fact are deleted, before the others lose the literals    *)
(* that contradict a fact.                                                 *)
Contradicted(C, F)    == {l \in C : Neg(l) \in F}
Satisfied(S, F)       == {C \in S : C \cap F # {}}
ShortenedAll(S, F)    == {C \ Contradicted(C, F) : C \in S}       \* faulty variant
ShortenedNeither(S, F) == {C \in S \ Satisfied(S, F) : Contradicted(C, F) = {}}  \* faulty variant
Shortened(S, F)       == {C \ Contradicted(C, F) : C \in S \ Satisfied(S, F)}

Simplify ==
  /\ pc = "restart"
  /\ ~stopRequested
  /\ FactClosures # {}
  /\ LET F == WithConsequences
     IN  /\ facts' = F
         /\ db' = Shortened(db, F)
         /\ lemmas' = Shortened(lemmas, F)
         /\ scheduled' = scheduled \cup Satisfied(db \cup lemmas, F)
         /\ active' = Shortened(active, F)
  /\ pc' = "reduce"
  /\ UNCHANGED <<assigned, because, limits, busy, falsified, input, hadError, stopRequested,
                 call, next, derived, policy, outcome>>

FactsInconsistent ==
  /\ pc = "restart"
  /\ ~stopRequested
  /\ FactClosures = {}
  /\ Conclude("unsat")
  /\ failed' = {}
  /\ UNCHANGED <<absVars, input, clauseStore, hadError, stopRequested, call, next, derived,
                 policy, model>>

SkipSimplification ==
  /\ pc = "restart"
  /\ ~stopRequested
  /\ pc' = "reduce"
  /\ UNCHANGED <<absVars, input, clauseStore, hadError, stopRequested, call, next, derived,
                 policy, outcome>>

(* tryReduceClauseDB(): at most the worse half of the lemmas goes, and     *)
(* with it everything scheduled earlier (compress()).                      *)
ReduceClauseDB(S) ==
  /\ pc = "reduce"
  /\ reductions < MaxReductions
  /\ lemmas # {}
  /\ S \subseteq lemmas /\ 2 * Cardinality(S) <= Cardinality(lemmas) + 1
  /\ lemmas' = lemmas \ S
  /\ scheduled' = {}
  /\ Synchronize(db, lemmas \ S, {})
  /\ reductions' = reductions + 1
  /\ pc' = "facts"
  /\ UNCHANGED <<db, facts, input, hadError, stopRequested, call, next, derived, conflicts,
                 mayRestart, outcome>>

KeepClauseDB ==
  /\ pc = "reduce"
  /\ pc' = "facts"
  /\ UNCHANGED <<absVars, input, clauseStore, hadError, stopRequested, call, next, derived,
                 policy, outcome>>

----------------------------------------------------------------------------
(* solveUntilRestart(): facts on level 0, assumptions on level 1.          *)

PropagateFact(f) ==
  /\ pc = "facts"
  /\ f \in facts
  /\ Decide(f)
  /\ eligible' = eligible \ {VarOf(f)}
  /\ UNCHANGED <<input, clauseStore, hadError, stopRequested, assumed, next, pc, derived, policy,
                 outcome>>

FactFails ==
  /\ pc = "facts"
  /\ ~busy
  /\ falsified # {} \/ \E f \in facts : False(f)
  /\ Conclude("unsat")
  /\ UNCHANGED <<absVars, input, clauseStore, hadError, stopRequested, call, next, derived,
                 policy, model, failed>>

FactsPropagated ==
  /\ pc = "facts"
  /\ \A f \in facts : True(f)
  /\ facts' = TrueLits
  /\ OpenLevel
  /\ next' = 1
  /\ pc' = "assume"
  /\ UNCHANGED <<input, db, lemmas, scheduled, hadError, stopRequested, call, derived, policy,
                 outcome>>

PropagateAssumption ==
  /\ pc = "assume"
  /\ next <= Len(assumed)
  /\ Decide(assumed[next])
  /\ eligible' = eligible \ {VarOf(assumed[next])}
  /\ UNCHANGED <<input, clauseStore, hadError, stopRequested, assumed, next, pc, derived, policy,
                 outcome>>

AssumptionHolds ==
  /\ pc = "assume"
  /\ Ready
  /\ next <= Len(assumed)
  /\ True(assumed[next])
  /\ next' = next + 1
  /\ UNCHANGED <<absVars, input, clauseStore, hadError, stopRequested, call, pc, derived, policy,
                 outcome>>

FailedAssumptions == AnalyzeAssignment(assumed[next])

AssumptionFails ==
  /\ pc = "assume"
  /\ ~busy
  /\ next <= Len(assumed)
  /\ falsified # {} \/ False(assumed[next])
  /\ failed' = FailedAssumptions
  /\ Conclude("unsat")
  /\ UNCHANGED <<absVars, input, clauseStore, hadError, stopRequested, call, next, derived,
                 policy, model>>

AssumptionsPropagated ==
  /\ pc = "assume"
  /\ Ready
  /\ next > Len(assumed)
  /\ pc' = "search"
  /\ UNCHANGED <<absVars, input, clauseStore, hadError, stopRequested, call, next, derived,
                 policy, outcome>>

----------------------------------------------------------------------------
(* solveUntilRestart(): the search.                                        *)

Complete ==
  /\ pc = "search"
  /\ Len(assigned) = maxVar
  /\ Conclude("sat")
  /\ UNCHANGED <<absVars, input, clauseStore, hadError, stopRequested, call, next, derived,
                 policy, model, failed>>

NewDecisionLevel ==
  /\ pc = "search"
  /\ Len(assigned) # maxVar
  /\ OpenLevel
  /\ pc' = "branch"
  /\ UNCHANGED <<input, clauseStore, hadError, stopRequested, call, next, derived, policy,
                 outcome>>

Branch(l) ==
  /\ pc = "branch"
  /\ VarOf(l) \in eligible
  /\ Decide(l)
  /\ pc' = "resolve"
  /\ UNCHANGED <<input, clauseStore, hadError, stopRequested, call, next, derived, policy,
                 outcome>>

(* resolveDecision() asks for a restart: below the decisions, the conflict *)
(* is left for the propagation of facts and assumptions to find again.     *)
RestartForced == CurrentLevel = 0 \/ (CurrentLevel = 1 /\ falsified # {})

DeriveLemma ==
  /\ pc = "resolve"
  /\ ~busy
  /\ falsified # {}
  /\ ~RestartForced
  /\ lemma' = DerivedLemma
  /\ uip' = AssertingLiteral(DerivedLemma)
  /\ conflicts' = (conflicts + 1) % CheckInterval
  /\ pc' = "lemma"
  /\ UNCHANGED <<absVars, input, clauseStore, hadError, stopRequested, call, next, mayRestart,
                 reductions, outcome>>

LemmaUsed == lemma' = {} /\ uip' = 0

(* backtrackAll() and registerRestart().                                   *)
RestartUnregistered ==      \* faulty variant: the restart policy is not told
  /\ Reset
  /\ UNCHANGED mayRestart
  /\ pc' = "restart"

Restart ==
  /\ Reset
  /\ mayRestart' = FALSE
  /\ pc' = "restart"

LearnFact ==
  /\ pc = "lemma"
  /\ lemma = {uip}
  /\ facts' = facts \cup {uip}
  /\ LemmaUsed
  /\ Restart
  /\ UNCHANGED <<input, db, lemmas, scheduled, hadError, stopRequested, call, next, conflicts,
                 reductions, outcome>>

(* The level deriveLemma() returns: the highest of the false literals.     *)
BacktrackLevelPrevious == CurrentLevel - 1      \* faulty variant
BacktrackLevel == CHOOSE k \in LevelsOf(lemma \ {uip}) : \A m \in LevelsOf(lemma \ {uip}) : m <= k

StoredAsRedundant(C) == Cardinality(C) > 2

Backjump ==
  /\ pc = "lemma"
  /\ lemma # {uip}
  /\ db' = IF StoredAsRedundant(lemma) THEN db ELSE db \cup {lemma}
  /\ lemmas' = IF StoredAsRedundant(lemma) THEN lemmas \cup {lemma} ELSE lemmas
  /\ mayRestart' = TRUE
  /\ Undo(BacktrackLevel)
  /\ pc' = "assert"
  /\ UNCHANGED <<input, scheduled, facts, hadError, stopRequested, call, next, derived,
                 conflicts, reductions, outcome>>

RegisterLemma ==
  /\ pc = "assert"
  /\ Learn(lemma, uip)
  /\ LemmaUsed
  /\ pc' = "resolve"
  /\ UNCHANGED <<input, clauseStore, hadError, stopRequested, call, next, policy, outcome>>

(* createClause() returns null: solve() throws bad_alloc, and the          *)
(* assignments stay as they are.                                           *)
OutOfMemory ==
  /\ pc = "lemma"
  /\ lemma # {uip}
  /\ hadError' = TRUE
  /\ LemmaUsed
  /\ pc' = "idle"
  /\ verdict' = "none"
  /\ UNCHANGED <<absVars, input, clauseStore, stopRequested, call, next, policy, model, failed>>

RestartSearch ==
  /\ pc = "resolve"
  /\ ~busy
  /\ RestartForced \/ (falsified = {} /\ mayRestart)
  /\ Restart
  /\ UNCHANGED <<input, clauseStore, hadError, stopRequested, call, next, derived, conflicts,
                 reductions, outcome>>

SearchStopped ==
  /\ pc = "resolve"
  /\ Ready /\ ~RestartForced
  /\ conflicts = 0
  /\ stopRequested
  /\ Conclude("indeterminate")
  /\ UNCHANGED <<absVars, input, clauseStore, hadError, stopRequested, call, next, derived,
                 policy, model, failed>>

ContinueSearch ==
  /\ pc = "resolve"
  /\ Ready /\ ~RestartForced
  /\ ~(conflicts = 0 /\ stopRequested)
  /\ pc' = "search"
  /\ UNCHANGED <<absVars, input, clauseStore, hadError, stopRequested, call, next, derived,
                 policy, outcome>>

(* createSolvingResult() and backtrackAll().                               *)
ReportedModel == IF verdict = "sat" THEN TrueLits ELSE {}

Return ==
  /\ pc = "return"
  /\ model' = ReportedModel
  /\ failed' = IF verdict = "unsat" THEN failed ELSE {}
  /\ Reset
  /\ pc' = "idle"
  /\ UNCHANGED <<input, clauseStore, hadError, stopRequested, call, next, derived, policy,
                 verdict>>

----------------------------------------------------------------------------
Client ==
  \/ \E C \in Inputs : AddClause(C)
  \/ \E A \in Assumptions : SolveImmediately(A)
  \/ \E A \in Assumptions : StartSolve(A)

Solver ==
  \/ Propagate
  \/ LoopStopped
  \/ Simplify
  \/ FactsInconsistent
  \/ SkipSimplification
  \/ \E S \in SUBSET lemmas : ReduceClauseDB(S)
  \/ KeepClauseDB
  \/ \E f \in facts : PropagateFact(f)
  \/ FactFails
  \/ FactsPropagated
  \/ PropagateAssumption
  \/ AssumptionHolds
  \/ AssumptionFails
  \/ AssumptionsPropagated
  \/ Complete
  \/ NewDecisionLevel
  \/ \E l \in Lits : Branch(l)
  \/ DeriveLemma
  \/ LearnFact
  \/ Backjump
  \/ RegisterLemma
  \/ OutOfMemory
  \/ RestartSearch
  \/ SearchStopped
  \/ ContinueSearch
  \/ Return

SearchNext == Client \/ Stop \/ Solver

SearchSpec == SearchInit /\ [][SearchNext]_searchVars

(* The thread that runs solve() is scheduled again and again; clients need *)
(* not call anything.                                                      *)
FairSearchSpec == SearchSpec /\ WF_searchVars(Solver)

----------------------------------------------------------------------------
(* Type correctness.                                                       *)
PropagationTypes ==
  /\ active \subseteq ClauseSets
  /\ assigned \in Seq(Lits) /\ because \in Seq(ClauseSets \cup {{}})
  /\ Len(because) = Len(assigned)
  /\ limits \in Seq(Nat) /\ Len(limits) >= 1
  /\ busy \in BOOLEAN
  /\ falsified \in ClauseSets \cup {{}}

StoreTypes ==
  /\ problem \subseteq Inputs
  /\ db \subseteq ClauseSets /\ lemmas \subseteq ClauseSets /\ scheduled \subseteq ClauseSets
  /\ facts \subseteq Lits
  /\ maxVar \in Vars

ControlTypes ==
  /\ {detectedUnsat, hadError, stopRequested, mayRestart} \subseteq BOOLEAN
  /\ eligible \subseteq Vars
  /\ assumed \in Assumptions \cup {<<>>} /\ next \in Nat \ {0}
  /\ pc \in {"idle", "restart", "reduce", "facts", "assume", "search", "branch", "resolve",
             "lemma", "assert", "return"}
  /\ lemma \in ClauseSets \cup UnitsOf(Lits) \cup {{}} /\ uip \in Lits \cup {0}
  /\ conflicts \in 0 .. CheckInterval - 1 /\ reductions \in 0 .. MaxReductions
  /\ verdict \in {"none", "sat", "unsat", "indeterminate"}
  /\ model \subseteq Lits /\ failed \subseteq Lits

(* Every variable has a value of its type: in particular every clause in   *)
(* the store and every lemma that is neither empty nor a fact has at least *)
(* two literals and no two of one variable (MCSearch gives ClauseSets).    *)
SearchTypeOK == PropagationTypes /\ StoreTypes /\ ControlTypes

----------------------------------------------------------------------------
(* The answer of a solve() that returned is right: a model satisfies every *)
(* clause ever added and the assumptions and is total, and "unsatisfiable" *)
(* is only said when clauses and assumptions have no model                 *)
(* (createSolvingResult).                                                  *)
VerdictSound ==
  pc = "idle" =>
    /\ verdict = "sat" =>
         /\ \A v \in 1 .. maxVar : (v \in model) # (-v \in model)
         /\ Satisfies(model, {C \in problem : ~Tautology(C)})
         /\ LitSet(assumed) \subseteq model
    /\ verdict = "unsat" => ~Satisfiable(problem \cup UnitsOf(LitSet(assumed)))

(* The clauses that must be kept and the facts have exactly the models of  *)
(* the clauses added so far, whatever was learnt, shortened, deleted or    *)
(* reduced in earlier calls (FactCleaner, tryReduceClauseDB).              *)
ProblemPreserved ==
  {} \notin problem => ModelsOf(db \cup UnitsOf(facts)) = ModelsOf(problem)

(* No clause in the store, and no clause that takes part in propagation,   *)
(* excludes a model of the problem: nothing learnt under assumptions or    *)
(* registered anew although it was scheduled for deletion can do so.       *)
StoreImplied ==
  \A A \in ModelsOf(problem) : Satisfies(A, db \cup lemmas \cup scheduled \cup active)

(* A derived lemma follows from the problem alone, all its literals are    *)
(* false, and exactly the asserting one is on the current level            *)
(* (deriveLemma, optimizeLemma).                                           *)
LemmaAsserting ==
  pc = "lemma" =>
    /\ Entails(problem, lemma)
    /\ \A l \in lemma : False(l)
    /\ OnLevel(lemma, CurrentLevel) = {uip}

(* A derived lemma is news: no clause that takes part in propagation is    *)
(* contained in it and no fact is.  Without this the search could learn    *)
(* the same clause again and again, and m_facts have duplicates, from      *)
(* which the unsigned difference in propagateHardFacts() would underflow.  *)
LemmaNew ==
  pc = "lemma" =>
    /\ \A C \in active : ~(C \subseteq lemma)
    /\ lemma \cap facts = {}

(* What registerLemma() needs of its caller after the backjump: the lemma  *)
(* forces its asserting literal, another literal of it is on the current   *)
(* level (the second watched one), and no other clause has anything left   *)
(* to propagate.                                                           *)
BackjumpRight ==
  pc = "assert" =>
    /\ Forces(lemma, uip)
    /\ OnLevel(lemma \ {uip}, CurrentLevel) # {}
    /\ Quiescent

(* Conflict analysis starts from a clause with two literals of the current *)
(* level (asserted in FirstUIPLearning.h), and the reason of a literal     *)
(* above level 0 has another literal of that level (on which isRedundant() *)
(* in ClauseMinimization.h relies to give up early).                       *)
ConflictsOnLevel ==
  /\ pc = "resolve" /\ falsified # {} /\ ~RestartForced =>
       Cardinality(OnLevel(falsified, CurrentLevel)) >= 2
  /\ \A i \in 1 .. Len(assigned) :
       because[i] # {} /\ LevelAt(i) > 0 =>
         \E l \in because[i] : l # assigned[i] /\ LevelOf(l) = LevelAt(i)

(* When a branching literal is picked there is one: every unassigned       *)
(* variable is eligible although assumptions and facts were made           *)
(* ineligible (asserted in solveUntilRestart).                             *)
DecisionPossible ==
  pc = "branch" =>
    /\ Len(assigned) < maxVar
    /\ \A v \in 1 .. maxVar : Unassigned(v) => v \in eligible

(* The failed assumptions are assumptions, and when there are none the     *)
(* problem is unsatisfiable whatever is assumed (getFailedAssumptions).    *)
FailedAssumptionsValid ==
  pc = "idle" /\ verdict = "unsat" =>
    /\ failed \subseteq LitSet(assumed)
    /\ failed = {} => ~Satisfiable(problem)

(* The documentation of solveUntilRestart(): the failed assumptions        *)
(* activate an unsatisfiable core.                                         *)
FailedAssumptionsAreCore ==
  pc = "idle" /\ verdict = "unsat" => ~Satisfiable(problem \cup UnitsOf(failed))

(* Every call of solve() returns, with an answer unless it was stopped or  *)
(* ran out of memory: restarts, learning and clause deletion do not make   *)
(* the search go round in circles.                                         *)
SolveReturns ==
  pc # "idle" ~> (pc = "idle" /\ (verdict \in {"sat", "unsat"} \/ stopRequested \/ hadError))
=============================================================================
