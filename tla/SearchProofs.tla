----------------------------- MODULE SearchProofs -----------------------------
(***************************************************************************)
(* Proofs about CDCLSearch: its type invariant and its safety invariants   *)
(* hold for every problem, all assumptions and every client, whatever the  *)
(* search decides, learns, forgets or simplifies.                          *)
(***************************************************************************)
EXTENDS CDCLSearch, TrailProofs

Stored == db \cup lemmas \cup scheduled \cup active

(* Every clause is one the solver stores, and m_maxVar bounds it.          *)
Known(C) == \A l \in C : VarOf(l) <= maxVar

StoreShape ==
  /\ \A C \in Stored : Proper(C) /\ Known(C)
  /\ facts \subseteq Lits /\ Known(facts)
  /\ \A i \in 1 .. Len(assigned) : VarOf(assigned[i]) <= maxVar
  /\ problem \subseteq Inputs /\ \A C \in problem : ~Tautology(C) => Known(C)
  /\ maxVar \in Vars
  /\ detectedUnsat <=> {} \in problem
  /\ pc # "idle" =>
       /\ db \cup lemmas \subseteq (IF pc = "assert" THEN active \cup {lemma} ELSE active)
       /\ Known(LitSet(assumed))

(* What solve() is doing, and what there is on the trail then.             *)
Fresh == assigned = <<>> /\ limits = <<0>> /\ Ready

ControlShape ==
  /\ (pc = "idle" /\ ~hadError) \/ pc \in {"restart", "reduce"} => Fresh
  /\ pc = "facts" => Len(limits) = 1
  /\ pc = "assume" => Len(limits) = 2
  /\ pc = "search" => Len(limits) >= 2 /\ Ready
  /\ pc = "branch" =>
       Len(limits) >= 3 /\ Ready /\ limits[Len(limits)] = Len(assigned) /\ Len(assigned) # maxVar
  /\ pc = "lemma" => Len(limits) >= 3 /\ ~busy /\ falsified # {}
  /\ pc = "assert" => Ready
  /\ pc = "return" => ~busy
  /\ pc # "idle" => ~hadError /\ ~detectedUnsat
  /\ pc \notin {"idle", "return"} => verdict = "none" /\ failed = {}

(* Facts are on level 0 and assumptions on level 1.                        *)
OnTrail(F, k) == \A f \in F : \E i \in 1 .. Len(assigned) : assigned[i] = f /\ UpToLevel(k, i)

FactsOnTrail ==
  pc \in {"assume", "search", "branch", "resolve", "lemma", "assert"} => OnTrail(facts, 0)

AssumptionsOnTrail ==
  /\ pc \in {"search", "branch", "resolve", "lemma", "assert"} /\ Len(limits) >= 2 =>
       OnTrail(LitSet(assumed), 1)
  /\ pc = "assume" =>
       /\ \A j \in 1 .. next - 1 : j <= Len(assumed) /\ True(assumed[j])
       /\ busy \/ falsified # {} => next <= Len(assumed) /\ True(assumed[next])

(* A literal without a reason is a fact, an assumption, or the first of a  *)
(* higher level.                                                           *)
DecisionsPlaced ==
  pc # "idle" =>
    \A i \in 1 .. Len(assigned) : because[i] = {} =>
      \/ UpToLevel(0, i)
      \/ UpToLevel(1, i) /\ assigned[i] \in LitSet(assumed)
      \/ \E k \in 3 .. Len(limits) : i = limits[k] + 1

(* Only the variables of facts and assumptions are not eligible.           *)
EligibleRight ==
  pc # "idle" =>
    /\ eligible \subseteq 1 .. maxVar
    /\ \A v \in 1 .. maxVar : v \in eligible \/ \E l \in facts \cup LitSet(assumed) : VarOf(l) = v

(* What follows from the problem: the store, the facts, level 0 of the     *)
(* trail, and with the assumptions level 1.                                *)
Assuming == problem \cup UnitsOf(LitSet(assumed))

Implied ==
  /\ \A C \in Stored \cup UnitsOf(facts) : Entails(problem, C)
  /\ \A i \in 1 .. Len(assigned) : UpToLevel(0, i) => Entails(problem, {assigned[i]})
  /\ pc # "idle" =>
       \A i \in 1 .. Len(assigned) : UpToLevel(1, i) => Entails(Assuming, {assigned[i]})

(* Nothing of the problem is lost.                                         *)
Kept ==
  {} \notin problem =>
    \A A \in TotalAssignments : Satisfies(A, db \cup UnitsOf(facts)) => Satisfies(A, problem)

(* The lemma, before and after the backjump.                               *)
LemmaRight ==
  /\ pc = "lemma" =>
       /\ lemma \subseteq Lits
       /\ Entails(problem, lemma)
       /\ \A l \in lemma : False(l)
       /\ OnLevel(lemma, CurrentLevel) = {uip}
  /\ pc = "assert" =>
       /\ lemma \in db \cup lemmas
       /\ Forces(lemma, uip)
       /\ \E l \in lemma \ {uip} : ~FalseBy(l, limits[Len(limits)])

(* The answer, before and after it is returned.                            *)
SatisfiedBy(T) ==
  /\ \A v \in 1 .. maxVar : (v \in T) # (-v \in T)
  /\ Satisfies(T, {C \in problem : ~Tautology(C)})
  /\ LitSet(assumed) \subseteq T

Refuted ==
  /\ ~Satisfiable(Assuming)
  /\ failed \subseteq LitSet(assumed)
  /\ failed = {} => ~Satisfiable(problem)

AnswerRight ==
  /\ pc = "idle" /\ verdict = "sat" => SatisfiedBy(model)
  /\ pc = "return" /\ verdict = "sat" => SatisfiedBy(TrueLits)
  /\ pc \in {"idle", "return"} /\ verdict = "unsat" => Refuted

(* What most steps of solve() leave alone, and the whole invariant.        *)
CoreIInv ==
  TrailIInv /\ StoreShape /\ DecisionsPlaced /\ EligibleRight /\ Implied /\ Kept

SearchIInv ==
  /\ CoreIInv /\ ControlTypes /\ ControlShape
  /\ FactsOnTrail /\ AssumptionsOnTrail /\ LemmaRight /\ AnswerRight
----------------------------------------------------------------------------
(* Clauses and their meaning.                                              *)

LEMMA ClauseKinds ==
  ASSUME NEW C \in SUBSET Lits, C # {}, ~Tautology(C)
  PROVE  /\ Cardinality(C) = 1 <=> \E l : C = {l}
         /\ Cardinality(C) # 1 => Proper(C)
         /\ Cardinality(C) # 1 => C \in ClauseSets
  <1>1. /\ IsFiniteSet(C) /\ Cardinality(C) \in Nat
        /\ Cardinality(C) <= 1 <=> \A x, y \in C : x = y
        /\ Cardinality(C) = 1 <=> \E x : C = {x}
    BY AtMostOne
  <1>2. Cardinality(C) # 0
    BY <1>1, FS_EmptySet
  <1>3. ASSUME Cardinality(C) # 1
        PROVE  Proper(C) /\ C \in ClauseSets
    <2>1. Cardinality(C) >= 2 /\ \E x, y \in C : x # y
      BY <1>1, <1>2, <1>3
    <2> QED
      BY <2>1, StoredAssumption DEF Proper, Tautology
  <1> QED
    BY <1>1, <1>3

LEMMA ProperStored ==
  ASSUME NEW C, Proper(C)
  PROVE  C \in ClauseSets
  <1>1. C \in SUBSET Lits /\ C # {} /\ ~Tautology(C) /\ ~(\E l : C = {l})
    BY DEF Proper, Tautology
  <1> QED
    BY <1>1, ClauseKinds

LEMMA GreatestVarRight ==
  ASSUME NEW C \in SUBSET Lits, C # {}
  PROVE  GreatestVar(C) \in Vars /\ \A l \in C : VarOf(l) <= GreatestVar(C)
  <1> DEFINE T == {VarOf(l) : l \in C}
  <1>1. T \in SUBSET Nat /\ T \subseteq Vars /\ T # {} /\ NumVars \in Nat /\ \A v \in T : v <= NumVars
    BY LitFacts, NumVarsAssumption DEF Vars
  <1> HIDE DEF T
  <1>2. \E n \in T : \A m \in T : m <= n
    BY <1>1, Greatest
  <1> USE DEF T
  <1>3. \E v \in T : \A l \in C : VarOf(l) <= v
    BY <1>2
  <1>4. GreatestVar(C) \in T /\ \A l \in C : VarOf(l) <= GreatestVar(C)
    BY <1>3 DEF GreatestVar
  <1> QED
    BY <1>1, <1>4

LEMMA MaxOfRight ==
  ASSUME NEW m \in Vars, NEW n \in Vars
  PROVE  MaxOf(m, n) \in Vars /\ m <= MaxOf(m, n) /\ n <= MaxOf(m, n)
  BY NumVarsAssumption DEF MaxOf, Vars

LEMMA VarLeq ==
  ASSUME NEW l \in Lits, NEW m \in Vars, NEW n \in Vars, VarOf(l) <= m, m <= n
  PROVE  VarOf(l) <= n
  BY LitFacts, NumVarsAssumption DEF Vars

(* Entailment, read as truth in all models.                                *)
LEMMA EntailsUnit ==
  ASSUME NEW F, NEW l
  PROVE  Entails(F, {l}) <=> \A A \in TotalAssignments : Satisfies(A, F) => l \in A
  BY DEF Entails

LEMMA EntailsMore ==
  ASSUME NEW F, NEW G, F \subseteq G, NEW C, Entails(F, C)
  PROVE  Entails(G, C)
  BY DEF Entails, Satisfies

LEMMA SatisfiesUnits ==
  ASSUME NEW A, NEW F
  PROVE  Satisfies(A, UnitsOf(F)) <=> F \subseteq A
  <1>1. \A f : A \cap {f} # {} <=> f \in A
    OBVIOUS
  <1>2. \A f \in F : {f} \in UnitsOf(F)
    BY DEF UnitsOf
  <1>3. \A C \in UnitsOf(F) : \E f \in F : C = {f}
    BY DEF UnitsOf
  <1>4. ASSUME Satisfies(A, UnitsOf(F))
        PROVE  F \subseteq A
    BY <1>1, <1>2, <1>4 DEF Satisfies
  <1>5. ASSUME F \subseteq A
        PROVE  Satisfies(A, UnitsOf(F))
    BY <1>1, <1>3, <1>5 DEF Satisfies
  <1> QED
    BY <1>4, <1>5

LEMMA SatisfiesBoth ==
  ASSUME NEW A, NEW F, NEW G
  PROVE  Satisfies(A, F \cup G) <=> Satisfies(A, F) /\ Satisfies(A, G)
  BY DEF Satisfies

(* The models of the problem agree with the trail.                         *)
LEMMA ModelsAgree ==
  ASSUME Implied, NEW A \in TotalAssignments, Satisfies(A, problem)
  PROVE  Agrees(A) /\ facts \subseteq A /\ \A C \in Stored : A \cap C # {}
  <1>1. \A C \in Stored \cup UnitsOf(facts) : A \cap C # {}
    BY DEF Implied, Entails
  <1>2. facts \subseteq A
    BY <1>1, SatisfiesUnits DEF Satisfies
  <1>3. \A i \in 1 .. Len(assigned) : UpToLevel(0, i) => assigned[i] \in A
    BY EntailsUnit DEF Implied
  <1> QED
    BY <1>1, <1>2, <1>3 DEF Agrees, Stored

LEMMA AssumingModels ==
  ASSUME NEW A
  PROVE  Satisfies(A, Assuming) <=> Satisfies(A, problem) /\ LitSet(assumed) \subseteq A
  BY SatisfiesUnits, SatisfiesBoth DEF Assuming

(* A literal forced on level 0 or 1 follows, as those that made it so do.  *)
LEMMA ForcedFollows ==
  ASSUME TrailIInv, Implied, NEW C \in SUBSET Lits, Entails(problem, C), NEW l \in C,
         \A m \in C \ {l} : False(m)
  PROVE  /\ Len(limits) <= 1 => Entails(problem, {l})
         /\ Len(limits) <= 2 /\ pc # "idle" => Entails(Assuming, {l})
  <1>1. \A m \in C \ {l} : \E i \in 1 .. Len(assigned) : assigned[i] = Neg(m)
    BY DEF False, True
  <1>2. ASSUME Len(limits) <= 1, NEW A \in TotalAssignments, Satisfies(A, problem)
        PROVE  l \in A
    <2>1. \A i \in 1 .. Len(assigned) : assigned[i] \in A
      BY <1>2, ModelsAgree DEF Agrees, UpToLevel
    <2>2. \A m \in C \ {l} : m \notin A
      BY <1>1, <2>1, Opposites
    <2>3. A \cap C # {}
      BY <1>2 DEF Entails
    <2> QED
      BY <2>2, <2>3
  <1>3. ASSUME Len(limits) <= 2, pc # "idle", NEW A \in TotalAssignments, Satisfies(A, Assuming)
        PROVE  l \in A
    <2>1. \A i \in 1 .. Len(assigned) : assigned[i] \in A
      <3>1. \A i : UpToLevel(1, i)
        BY <1>3 DEF UpToLevel
      <3> QED
        BY <1>3, <3>1, EntailsUnit DEF Implied
    <2>2. \A m \in C \ {l} : m \notin A
      BY <1>1, <2>1, Opposites
    <2>3. A \cap C # {}
      BY <1>3, AssumingModels DEF Entails
    <2> QED
      BY <2>2, <2>3
  <1> QED
    BY <1>2, <1>3, EntailsUnit

(* A model of the problem has the facts and all that follows from them.    *)
LEMMA ModelIsClosure ==
  ASSUME Implied, NEW A \in TotalAssignments, Satisfies(A, problem), ActiveProper
  PROVE  A \in FactClosures
  <1>1. A \in SUBSET Lits /\ \A l \in Lits : l \in A <=> Neg(l) \notin A
    BY Opposites DEF TotalAssignments
  <1>2. facts \subseteq A /\ \A C \in active : A \cap C # {} /\ C \in SUBSET Lits
    BY ModelsAgree DEF Stored, ActiveProper, Proper
  <1>3. UnitClosed(A)
    BY <1>1, <1>2 DEF UnitClosed
  <1> QED
    BY <1>1, <1>2, <1>3 DEF FactClosures, PartialAssignments

LEMMA KeptMore ==
  ASSUME Kept, facts \subseteq facts', db \subseteq db', problem' = problem
  PROVE  Kept'
  <1>1. SUFFICES ASSUME {} \notin problem, NEW A \in TotalAssignments,
                        Satisfies(A, db' \cup UnitsOf(facts'))
                 PROVE  Satisfies(A, problem)
    BY DEF Kept
  <1>2. Satisfies(A, db') /\ facts' \subseteq A
    BY <1>1, SatisfiesBoth, SatisfiesUnits
  <1>3. Satisfies(A, db)
    BY <1>2 DEF Satisfies
  <1>4. Satisfies(A, UnitsOf(facts))
    BY <1>2, SatisfiesUnits
  <1> QED
    BY <1>1, <1>3, <1>4, SatisfiesBoth DEF Kept
----------------------------------------------------------------------------
(* Steps that leave the trail and the clauses alone.                       *)

LEMMA SteadyCore ==
  ASSUME CoreIInv, UNCHANGED <<absVars, input, clauseStore, call>>,
         pc' # "idle" => pc # "idle",
         (pc' = pc /\ lemma' = lemma) \/ (pc # "assert" /\ pc' # "assert")
  PROVE  CoreIInv'
  <1> USE DEF CoreIInv
  <1>1. TrailIInv'
    BY SameTrail
  <1>2. UNCHANGED <<active, assigned, because, limits, busy, falsified, problem, maxVar,
                    detectedUnsat, db, lemmas, scheduled, facts, assumed, eligible>>
    BY DEF absVars, input, clauseStore, call
  <1>3. StoreShape'
    BY <1>2 DEF StoreShape, Stored, Known, LitSet
  <1>4. DecisionsPlaced' /\ EligibleRight'
    BY <1>2 DEF DecisionsPlaced, EligibleRight, UpToLevel, LitSet
  <1>5. Implied' /\ Kept'
    BY <1>2 DEF Implied, Kept, Stored, UpToLevel, Assuming
  <1> QED
    BY <1>1, <1>3, <1>4, <1>5

LEMMA StopStep ==
  ASSUME SearchIInv, Stop
  PROVE  SearchIInv'
  <1>1. UNCHANGED <<active, assigned, because, limits, busy, falsified, problem, maxVar,
                    detectedUnsat, db, lemmas, scheduled, facts, hadError, assumed, eligible, next,
                    pc, lemma, uip, conflicts, mayRestart, reductions, verdict, model, failed>>
    BY DEF Stop, absVars, input, clauseStore, call, derived, policy, outcome
  <1>2. CoreIInv'
    <2>1. CoreIInv /\ pc' = pc /\ lemma' = lemma
      BY <1>1 DEF SearchIInv
    <2>2. UNCHANGED <<absVars, input, clauseStore, call>>
      BY DEF Stop
    <2> QED
      BY <2>1, <2>2, SteadyCore
  <1>3. ControlTypes'
    BY <1>1 DEF SearchIInv, ControlTypes, Stop
  <1>4. ControlShape' /\ FactsOnTrail' /\ AssumptionsOnTrail'
    BY <1>1 DEF SearchIInv, ControlShape, FactsOnTrail, AssumptionsOnTrail, OnTrail, Fresh, Ready, UpToLevel,
                True
  <1>5. LemmaRight'
    BY <1>1 DEF SearchIInv, LemmaRight, Entails, Satisfies, False, True, OnLevel, LevelOf, LevelAt,
                Position, CurrentLevel, Forces, Unassigned, FalseBy
  <1>6. AnswerRight'
    BY <1>1 DEF SearchIInv, AnswerRight, SatisfiedBy, Refuted, Assuming, TrueLits
  <1> QED
    BY <1>2, <1>3, <1>4, <1>5, <1>6 DEF SearchIInv

LEMMA LoopStoppedStep ==
  ASSUME SearchIInv, LoopStopped
  PROVE  SearchIInv'
  <1> USE DEF SearchIInv, LoopStopped, Conclude
  <1>1. CoreIInv'
    BY SteadyCore
  <1>2. ControlTypes'
    BY DEF ControlTypes, input, call, derived, policy
  <1>3. ControlShape'
    BY DEF ControlShape, Fresh, Ready, absVars, input
  <1> QED
    BY <1>1, <1>2, <1>3 DEF FactsOnTrail, AssumptionsOnTrail, LemmaRight, AnswerRight

LEMMA SkipSimplificationStep ==
  ASSUME SearchIInv, SkipSimplification
  PROVE  SearchIInv'
  <1> USE DEF SearchIInv, SkipSimplification
  <1>1. CoreIInv'
    BY SteadyCore
  <1>2. ControlTypes'
    BY DEF ControlTypes, input, call, derived, policy, outcome
  <1>3. ControlShape'
    BY DEF ControlShape, Fresh, Ready, absVars, input, outcome
  <1> QED
    BY <1>1, <1>2, <1>3 DEF FactsOnTrail, AssumptionsOnTrail, LemmaRight, AnswerRight

LEMMA KeepClauseDBStep ==
  ASSUME SearchIInv, KeepClauseDB
  PROVE  SearchIInv'
  <1> USE DEF SearchIInv, KeepClauseDB
  <1>1. CoreIInv'
    BY SteadyCore
  <1>2. ControlTypes'
    BY DEF ControlTypes, input, call, derived, policy, outcome
  <1>3. ControlShape'
    BY DEF ControlShape, Fresh, Ready, absVars, input, outcome
  <1> QED
    BY <1>1, <1>2, <1>3 DEF FactsOnTrail, AssumptionsOnTrail, LemmaRight, AnswerRight

LEMMA AssumptionHoldsStep ==
  ASSUME SearchIInv, AssumptionHolds
  PROVE  SearchIInv'
  <1> USE DEF SearchIInv, AssumptionHolds
  <1>1. CoreIInv'
    BY SteadyCore
  <1>2. ControlTypes'
    BY DEF ControlTypes, input, call, derived, policy, outcome
  <1>3. ControlShape'
    BY DEF ControlShape, Fresh, Ready, absVars, input, outcome
  <1>4. FactsOnTrail'
    BY DEF FactsOnTrail, OnTrail, UpToLevel, absVars, clauseStore
  <1>5. AssumptionsOnTrail'
    <2>1. next \in Nat /\ next' = next + 1 /\ pc = "assume" /\ pc' = pc /\ Ready'
      BY DEF ControlTypes, absVars, Ready
    <2>2. \A j : True(assumed[j])' <=> True(assumed[j])
      BY DEF True, absVars, call
    <2>3. assumed' = assumed
      BY DEF call
    <2>4. \A j \in 1 .. next' - 1 : j \in 1 .. next - 1 \/ j = next
      BY <2>1
    <2>5. \A j \in 1 .. next' - 1 : j <= Len(assumed') /\ True(assumed[j])'
      BY <2>1, <2>2, <2>3, <2>4 DEF AssumptionsOnTrail
    <2> QED
      BY <2>1, <2>5 DEF AssumptionsOnTrail, Ready
  <1> QED
    BY <1>1, <1>2, <1>3, <1>4, <1>5 DEF LemmaRight, AnswerRight

LEMMA AssumptionsPropagatedStep ==
  ASSUME SearchIInv, AssumptionsPropagated
  PROVE  SearchIInv'
  <1> USE DEF SearchIInv, AssumptionsPropagated
  <1>1. CoreIInv'
    BY SteadyCore
  <1>2. ControlTypes'
    BY DEF ControlTypes, input, call, derived, policy, outcome
  <1>3. ControlShape'
    BY DEF ControlShape, Fresh, Ready, absVars, input, outcome
  <1>4. FactsOnTrail'
    BY DEF FactsOnTrail, OnTrail, UpToLevel, absVars, clauseStore
  <1>5. AssumptionsOnTrail'
    <2>1. next \in Nat /\ Len(assumed) \in Nat /\ next > Len(assumed) /\ pc = "assume"
          /\ pc' = "search" /\ Len(limits) = 2
      BY AssumptionsAssumption DEF ControlTypes, ControlShape
    <2>2. \A j \in 1 .. Len(assumed) : True(assumed[j])
      BY <2>1 DEF AssumptionsOnTrail
    <2>3. assumed' = assumed /\ assigned' = assigned /\ limits' = limits
      BY DEF call, absVars
    <2>4. \A i : UpToLevel(1, i)
      BY <2>1 DEF UpToLevel
    <2>5. \A j \in 1 .. Len(assumed) : \E i \in 1 .. Len(assigned) :
            assigned[i] = assumed[j] /\ UpToLevel(1, i)
      BY <2>2, <2>4 DEF True
    <2> QED
      BY <2>1, <2>3, <2>5 DEF AssumptionsOnTrail, OnTrail, LitSet, UpToLevel
  <1> QED
    BY <1>1, <1>2, <1>3, <1>4, <1>5 DEF LemmaRight, AnswerRight

LEMMA SearchStoppedStep ==
  ASSUME SearchIInv, SearchStopped
  PROVE  SearchIInv'
  <1> USE DEF SearchIInv, SearchStopped, Conclude
  <1>1. CoreIInv'
    BY SteadyCore
  <1>2. ControlTypes'
    BY DEF ControlTypes, input, call, derived, policy
  <1>3. ControlShape'
    BY DEF ControlShape, Fresh, Ready, absVars, input
  <1> QED
    BY <1>1, <1>2, <1>3 DEF FactsOnTrail, AssumptionsOnTrail, LemmaRight, AnswerRight

LEMMA ContinueSearchStep ==
  ASSUME SearchIInv, ContinueSearch
  PROVE  SearchIInv'
  <1> USE DEF SearchIInv, ContinueSearch
  <1>1. CoreIInv'
    BY SteadyCore
  <1>2. ControlTypes'
    BY DEF ControlTypes, input, call, derived, policy, outcome
  <1>3. ControlShape'
    <2>1. Len(limits) >= 2
      <3>1. Len(limits) - 1 # 0
        BY DEF RestartForced, CurrentLevel
      <3>2. Len(limits) \in Nat \ {0}
        BY TrailTypes DEF CoreIInv, TrailIInv
      <3> QED
        BY ONLY <3>1, <3>2
    <2> QED
      BY <2>1 DEF ControlShape, Fresh, Ready, absVars, input, outcome
  <1>4. FactsOnTrail' /\ AssumptionsOnTrail'
    BY DEF FactsOnTrail, AssumptionsOnTrail, OnTrail, UpToLevel, absVars, clauseStore, call
  <1> QED
    BY <1>1, <1>2, <1>3, <1>4 DEF LemmaRight, AnswerRight

LEMMA OutOfMemoryStep ==
  ASSUME SearchIInv, OutOfMemory
  PROVE  SearchIInv'
  <1> USE DEF SearchIInv, OutOfMemory
  <1>1. CoreIInv'
    BY SteadyCore
  <1>2. ControlTypes'
    BY DEF ControlTypes, input, call, LemmaUsed, policy
  <1>3. ControlShape'
    BY DEF ControlShape, Fresh, Ready, absVars, input
  <1> QED
    BY <1>1, <1>2, <1>3 DEF FactsOnTrail, AssumptionsOnTrail, LemmaRight, AnswerRight

(* Propagating the facts ends in a conflict: the problem has no model.     *)
LEMMA FactsInconsistentStep ==
  ASSUME SearchIInv, FactsInconsistent
  PROVE  SearchIInv'
  <1> USE DEF SearchIInv, FactsInconsistent, Conclude
  <1>1. CoreIInv'
    BY SteadyCore
  <1>2. ControlTypes'
    BY DEF ControlTypes, input, call, derived, policy
  <1>3. ControlShape'
    BY DEF ControlShape, Fresh, Ready, absVars, input
  <1>4. ~Satisfiable(problem)
    BY ModelIsClosure DEF CoreIInv, TrailIInv, Satisfiable
  <1>5. AnswerRight'
    <2>1. ~Satisfiable(Assuming)
      BY <1>4, AssumingModels DEF Satisfiable
    <2> QED
      BY <1>4, <2>1 DEF AnswerRight, Refuted, Assuming, input, call
  <1> QED
    BY <1>1, <1>2, <1>3, <1>5 DEF FactsOnTrail, AssumptionsOnTrail, LemmaRight

(* Facts contradict each other or a clause.                                *)
LEMMA FactFailsStep ==
  ASSUME SearchIInv, FactFails
  PROVE  SearchIInv'
  <1> USE DEF SearchIInv, FactFails, Conclude
  <1>1. CoreIInv'
    BY SteadyCore
  <1>2. ControlTypes'
    BY DEF ControlTypes, input, call, derived, policy
  <1>3. ControlShape'
    BY DEF ControlShape, Fresh, Ready, absVars, input
  <1>4. ~Satisfiable(problem)
    <2> SUFFICES ASSUME NEW A \in TotalAssignments, Satisfies(A, problem)
                 PROVE  FALSE
      BY DEF Satisfiable
    <2>1. Agrees(A) /\ facts \subseteq A /\ \A C \in Stored : A \cap C # {}
      BY ModelsAgree DEF CoreIInv
    <2>2. \A i \in 1 .. Len(assigned) : assigned[i] \in A /\ assigned[i] \in Lits
      <3>0. Len(limits) = 1
        BY DEF ControlShape
      <3>1. \A i : UpToLevel(0, i)
        BY ONLY <3>0 DEF UpToLevel
      <3> QED
        BY <2>1, <3>1, TrailTypes DEF Agrees, CoreIInv, TrailIInv
    <2>3. \A l \in Lits : False(l) => l \notin A
      BY <2>2, Opposites DEF False, True
    <2>4. falsified # {} => falsified \in Stored /\ falsified \in SUBSET Lits /\ Falsified(falsified)
      BY DEF CoreIInv, TrailIInv, ConflictRight, ActiveProper, Proper, Stored
    <2>5. falsified = {}
      BY <2>1, <2>3, <2>4 DEF Falsified
    <2>6. facts \in SUBSET Lits
      BY DEF CoreIInv, StoreShape
    <2> QED
      BY <2>1, <2>3, <2>5, <2>6
  <1>5. AnswerRight'
    <2>1. ~Satisfiable(Assuming)
      BY <1>4, AssumingModels DEF Satisfiable
    <2>2. failed' = {}
      BY DEF ControlShape
    <2> QED
      BY <1>4, <2>1, <2>2 DEF AnswerRight, Refuted, Assuming, input, call
  <1> QED
    BY <1>1, <1>2, <1>3, <1>5 DEF FactsOnTrail, AssumptionsOnTrail, LemmaRight

(* An assumption is false, or its propagation ended in a conflict.         *)
LEMMA AssumptionFailsStep ==
  ASSUME SearchIInv, AssumptionFails
  PROVE  SearchIInv'
  <1> USE DEF SearchIInv, AssumptionFails, Conclude
  <1> DEFINE f == assumed[next]
  <1>1. CoreIInv'
    BY SteadyCore
  <1>2. /\ next \in 1 .. Len(assumed) /\ assumed \in Seq(Lits) /\ f \in Lits
        /\ f \in LitSet(assumed)
    <2>1. next \in 1 .. Len(assumed) /\ assumed \in Seq(Lits)
      BY AssumptionsAssumption DEF ControlTypes
    <2> QED
      BY <2>1 DEF LitSet
  <1>3. pc = "assume" /\ Len(limits) = 2 /\ ~busy /\ pc # "idle"
    BY DEF ControlShape
  <1>4. True(f) \/ False(f)
    BY DEF AssumptionsOnTrail
  <1>5. /\ f \in AnalyzeAssignment(f)
        /\ AnalyzeAssignment(f) \subseteq {f} \cup CurrentDecisions
    BY <1>2, <1>4, AnalysisRight DEF CoreIInv
  <1>6. CurrentDecisions \subseteq LitSet(assumed)
    <2> SUFFICES ASSUME NEW i \in 1 .. Len(assigned), because[i] = {}, LevelAt(i) = CurrentLevel
                 PROVE  assigned[i] \in LitSet(assumed)
      BY DEF CurrentDecisions
    <2>1. ~UpToLevel(0, i)
      BY <1>3, LevelsOfPrefixes DEF CurrentLevel, CoreIInv, TrailIInv
    <2> QED
      BY <1>3, <2>1 DEF CoreIInv, DecisionsPlaced
  <1>7. failed' = AnalyzeAssignment(f) /\ verdict' = "unsat" /\ pc' = "return"
    BY DEF FailedAssumptions
  <1>8. f \in failed' /\ failed' \subseteq LitSet(assumed)
    BY <1>2, <1>5, <1>6, <1>7
  <1>9. failed' \subseteq Lits
    BY <1>2, <1>8 DEF LitSet
  <1>10. ControlTypes'
    BY <1>9 DEF ControlTypes, input, call, derived, policy
  <1>11. ControlShape'
    BY <1>3, <1>7 DEF ControlShape, absVars, input
  <1>12. ~Satisfiable(Assuming)
    <2> SUFFICES ASSUME NEW A \in TotalAssignments, Satisfies(A, Assuming)
                 PROVE  FALSE
      BY DEF Satisfiable
    <2>1. Agrees(A) /\ LitSet(assumed) \subseteq A /\ \A C \in Stored : A \cap C # {}
      BY ModelsAgree, AssumingModels DEF CoreIInv
    <2>2. \A i \in 1 .. Len(assigned) : assigned[i] \in A /\ assigned[i] \in Lits
      <3>1. \A i : UpToLevel(1, i)
        BY ONLY <1>3 DEF UpToLevel
      <3>2. \A i \in 1 .. Len(assigned) : assigned[i] \in A
        BY <1>3, <3>1, EntailsUnit DEF CoreIInv, Implied
      <3> QED
        BY <3>2, TrailTypes DEF CoreIInv, TrailIInv
    <2>3. \A l \in Lits : False(l) => l \notin A
      BY <2>2, Opposites DEF False, True
    <2>4. falsified # {} => falsified \in Stored /\ falsified \in SUBSET Lits /\ Falsified(falsified)
      BY DEF CoreIInv, TrailIInv, ConflictRight, ActiveProper, Proper, Stored
    <2>5. falsified = {}
      BY <2>1, <2>3, <2>4 DEF Falsified
    <2> QED
      BY <1>2, <2>1, <2>3, <2>5
  <1>13. AnswerRight'
    <2>1. Assuming' = Assuming /\ assumed' = assumed
      BY DEF Assuming, input, call
    <2>2. ~Satisfiable(Assuming)' /\ failed' \subseteq LitSet(assumed)' /\ failed' # {}
      BY <1>8, <1>12, <2>1
    <2> QED
      BY <1>7, <2>2 DEF AnswerRight, Refuted
  <1> QED
    BY <1>1, <1>7, <1>10, <1>11, <1>13 DEF FactsOnTrail, AssumptionsOnTrail, LemmaRight

(* There is one variable for each position of the trail.                   *)
LEMMA TrailVars ==
  ASSUME TrailShape, StoreShape
  PROVE  /\ Len(assigned) <= maxVar
         /\ Len(assigned) = maxVar =>
              \A v \in 1 .. maxVar : \E i \in 1 .. Len(assigned) : VarOf(assigned[i]) = v
  <1> DEFINE f == [i \in 1 .. Len(assigned) |-> VarOf(assigned[i])]
  <1>1. Len(assigned) \in Nat /\ maxVar \in Nat
    BY TrailTypes, NumVarsAssumption DEF StoreShape, Vars
  <1>2. \A i \in 1 .. Len(assigned) : VarOf(assigned[i]) \in 1 .. maxVar
    BY TrailTypes, LitFacts, NumVarsAssumption DEF StoreShape, Vars
  <1>3. f \in Injection(1 .. Len(assigned), 1 .. maxVar)
    BY <1>2 DEF TrailShape, Injection, IsInjective
  <1>4. /\ IsFiniteSet(1 .. maxVar) /\ Cardinality(1 .. maxVar) = maxVar
        /\ Cardinality(1 .. Len(assigned)) = Len(assigned)
    <2>1. \A n \in Nat : IsFiniteSet(1 .. n) /\ Cardinality(1 .. n) = n
      <3> TAKE n \in Nat
      <3>1. n \in Int /\ 1 \in Int
        OBVIOUS
      <3>2. IsFiniteSet(1 .. n) /\ Cardinality(1 .. n) = IF 1 > n THEN 0 ELSE n - 1 + 1
        BY <3>1, FS_Interval
      <3> QED
        BY <3>2
    <2> QED
      BY <1>1, <2>1
  <1> HIDE DEF f
  <1>5. /\ Cardinality(1 .. Len(assigned)) <= Cardinality(1 .. maxVar)
        /\ Cardinality(1 .. Len(assigned)) = Cardinality(1 .. maxVar) =>
             f \in Surjection(1 .. Len(assigned), 1 .. maxVar)
    BY <1>3, <1>4, FS_Injection
  <1>6. ASSUME f \in Surjection(1 .. Len(assigned), 1 .. maxVar), NEW v \in 1 .. maxVar
        PROVE  \E i \in 1 .. Len(assigned) : f[i] = v
    BY <1>6 DEF Surjection
  <1>7. \A i \in 1 .. Len(assigned) : f[i] = VarOf(assigned[i])
    BY DEF f
  <1> QED
    BY <1>4, <1>5, <1>6, <1>7

(* Every variable has a value and nothing is left to propagate: the trail  *)
(* satisfies the problem.                                                  *)
LEMMA CompleteTrail ==
  ASSUME CoreIInv, FactsOnTrail, AssumptionsOnTrail, pc = "search", Ready, Len(limits) >= 2,
         ~detectedUnsat, Len(assigned) = maxVar
  PROVE  SatisfiedBy(TrueLits)
  <1> USE DEF CoreIInv
  <1> DEFINE T == TrueLits
  <1> DEFINE A == T \cup {v \in Vars : v > maxVar}
  <1>1. \A l : l \in T <=> \E i \in 1 .. Len(assigned) : assigned[i] = l
    BY DEF TrueLits, LitSet
  <1>2. T \subseteq Lits /\ \A l \in T : Neg(l) \notin T /\ VarOf(l) <= maxVar
    BY <1>1, TrailTypes, Consistent DEF TrailIInv, StoreShape
  <1>3. \A l \in Lits : VarOf(l) <= maxVar => l \in T \/ Neg(l) \in T
    <2> TAKE l \in Lits
    <2> HAVE VarOf(l) <= maxVar
    <2>1. VarOf(l) \in 1 .. maxVar
      BY LitFacts, NumVarsAssumption DEF StoreShape, Vars
    <2>2. PICK i \in 1 .. Len(assigned) : VarOf(assigned[i]) = VarOf(l)
      BY <2>1, TrailVars DEF TrailIInv
    <2>3. assigned[i] = l \/ assigned[i] = Neg(l)
      BY <2>2, LitFacts, TrailTypes DEF TrailIInv
    <2> QED
      BY <1>1, <2>3
  <1> HIDE DEF T
  <1>4. \A v \in 1 .. maxVar : (v \in T) # (-v \in T)
    <2> TAKE v \in 1 .. maxVar
    <2>1. v \in Lits /\ VarOf(v) = v /\ Neg(v) = -v /\ v <= maxVar
      BY LitFacts, NumVarsAssumption DEF StoreShape, Vars
    <2> QED
      BY <1>2, <1>3, <2>1
  <1>5. \A v \in Vars : v > maxVar => v \notin T /\ -v \notin T /\ -v \notin Vars
    <2> TAKE v \in Vars
    <2> HAVE v > maxVar
    <2>1. /\ v \in Lits /\ Neg(v) = -v /\ Neg(v) \in Lits /\ VarOf(v) = v /\ VarOf(Neg(v)) = v
          /\ ~(v <= maxVar) /\ -v \notin Vars
      BY LitFacts, NumVarsAssumption DEF StoreShape, Vars
    <2> QED
      BY <1>2, <2>1
  <1>6. A \in TotalAssignments
    <2>1. A \in SUBSET Lits
      BY <1>2, LitFacts
    <2>2. ASSUME NEW v \in Vars, v > maxVar
          PROVE  v \in A /\ -v \notin A
      BY <1>5, <2>2
    <2>3. ASSUME NEW v \in Vars, ~(v > maxVar)
          PROVE  (v \in A) # (-v \in A)
      <3>1. v \in 1 .. maxVar /\ -v \notin Vars
        BY <2>3, NumVarsAssumption DEF StoreShape, Vars
      <3>2. (v \in A <=> v \in T) /\ (-v \in A <=> -v \in T)
        BY <2>3, <3>1
      <3> QED
        BY <1>4, <3>1, <3>2
    <2> QED
      BY <2>1, <2>2, <2>3 DEF TotalAssignments
  <1>7. \A C \in active : T \cap C # {}
    <2> SUFFICES ASSUME NEW C \in active, T \cap C = {}
                 PROVE  FALSE
      OBVIOUS
    <2>1. C \in SUBSET Lits /\ \A l \in C : VarOf(l) <= maxVar
      BY DEF TrailIInv, ActiveProper, Proper, StoreShape, Stored, Known
    <2>2. PICK l \in C : TRUE
      BY DEF TrailIInv, ActiveProper, Proper
    <2>3. \A m \in C : Neg(m) \in T
      BY <1>3, <2>1
    <2>4. \A m \in C : FalseBy(m, Len(assigned))
      BY <1>1, <2>3 DEF FalseBy
    <2>5. TrueBy(l, Len(assigned))
      BY <2>2, <2>4 DEF TrailIInv, LevelsQuiet, QuietAt
    <2> QED
      BY <1>1, <2>2, <2>5 DEF TrueBy
  <1>8. facts \subseteq T
    BY <1>1 DEF FactsOnTrail, OnTrail
  <1>9. LitSet(assumed) \subseteq T
    BY <1>1 DEF AssumptionsOnTrail, OnTrail
  <1>10. Satisfies(A, problem)
    <2>1. db \subseteq active /\ {} \notin problem
      BY DEF StoreShape
    <2>2. Satisfies(A, db)
      BY <1>7, <2>1 DEF Satisfies
    <2>3. Satisfies(A, UnitsOf(facts))
      BY <1>8, SatisfiesUnits
    <2> QED
      BY <1>6, <2>1, <2>2, <2>3, SatisfiesBoth DEF Kept
  <1>11. ASSUME NEW C \in problem, ~Tautology(C)
         PROVE  T \cap C # {}
    <2>1. PICK l \in A : l \in C
      BY <1>10 DEF Satisfies
    <2>2. VarOf(l) <= maxVar
      BY <1>11, <2>1 DEF StoreShape, Known
    <2>3. l \in T
      BY <2>1, <2>2, LitFacts, NumVarsAssumption DEF StoreShape, Vars
    <2> QED
      BY <2>1, <2>3
  <1> QED
    BY <1>4, <1>9, <1>11 DEF SatisfiedBy, Satisfies, T

LEMMA CompleteStep ==
  ASSUME SearchIInv, Complete
  PROVE  SearchIInv'
  <1> USE DEF SearchIInv, Complete, Conclude
  <1>1. CoreIInv'
    BY SteadyCore
  <1>2. ControlTypes'
    BY DEF ControlTypes, input, call, derived, policy
  <1>3. ControlShape'
    BY DEF ControlShape, Fresh, Ready, absVars, input
  <1>4. SatisfiedBy(TrueLits)
    BY CompleteTrail DEF ControlShape
  <1>5. AnswerRight'
    <2>1. assigned' = assigned /\ problem' = problem /\ maxVar' = maxVar /\ assumed' = assumed
      BY DEF absVars, input, call
    <2>2. SatisfiedBy(TrueLits)'
      BY <1>4, <2>1 DEF SatisfiedBy, TrueLits
    <2> QED
      BY <2>2 DEF AnswerRight
  <1> QED
    BY <1>1, <1>2, <1>3, <1>5 DEF FactsOnTrail, AssumptionsOnTrail, LemmaRight

(* Above the assumptions, only the first literal of a level is a decision. *)
LEMMA DecisionIsFirst ==
  ASSUME TrailIInv, DecisionsPlaced, pc # "idle", Len(limits) >= 3
  PROVE  DecisionFirst
  <1>1. SUFFICES ASSUME NEW i \in 1 .. Len(assigned), limits[Len(limits)] < i, because[i] = {}
                 PROVE  i = limits[Len(limits)] + 1
    BY DEF DecisionFirst
  <1>2. /\ Len(assigned) \in Nat /\ Len(limits) \in Nat
        /\ \A k \in 1 .. Len(limits) : limits[k] \in Nat
        /\ \A j, k \in 1 .. Len(limits) : j <= k => limits[j] <= limits[k]
    BY TrailTypes DEF TrailIInv, TrailShape
  <1>3. ~UpToLevel(0, i) /\ ~UpToLevel(1, i)
    <2>1. 2 \in 1 .. Len(limits) /\ 3 \in 1 .. Len(limits) /\ Len(limits) \in 1 .. Len(limits)
      BY <1>2
    <2>2. limits[2] < i /\ limits[3] < i
      BY <1>1, <1>2, <2>1
    <2> QED
      BY <1>2, <2>1, <2>2 DEF UpToLevel
  <1>4. PICK k \in 3 .. Len(limits) : i = limits[k] + 1
    BY <1>1, <1>3 DEF DecisionsPlaced
  <1>5. limits[k] <= limits[Len(limits)] /\ limits[k] \in Nat /\ limits[Len(limits)] \in Nat
    BY <1>2
  <1> QED
    BY <1>1, <1>4, <1>5

LEMMA DeriveLemmaStep ==
  ASSUME SearchIInv, DeriveLemma
  PROVE  SearchIInv'
  <1> USE DEF SearchIInv, DeriveLemma
  <1> DEFINE L == DerivedLemma
  <1>1. CoreIInv'
    BY SteadyCore
  <1>2. pc = "resolve" /\ pc' = "lemma" /\ ~busy /\ falsified # {} /\ lemma' = L
        /\ uip' = AssertingLiteral(L) /\ TrailIInv /\ TrailShape /\ ActiveProper
    BY DEF CoreIInv, TrailIInv
  <1>3. Len(limits) >= 3
    <2>1. Len(limits) - 1 # 0 /\ Len(limits) - 1 # 1
      BY DEF RestartForced, CurrentLevel
    <2>2. Len(limits) \in Nat /\ Len(limits) # 0
      BY <1>2, TrailTypes
    <2>3. \A n \in Nat : n # 0 /\ n - 1 # 0 /\ n - 1 # 1 => n >= 3
      OBVIOUS
    <2> QED
      BY <2>1, <2>2, <2>3
  <1>4. DecisionFirst
    BY <1>2, <1>3, DecisionIsFirst DEF CoreIInv
  <1>5. /\ L \in SUBSET Lits
        /\ \A l \in L : False(l)
        /\ \A A \in TotalAssignments : Agrees(A) => A \cap L # {}
        /\ OnLevel(L, CurrentLevel) = {AssertingLiteral(L)}
    BY <1>2, <1>3, <1>4, DerivedLemmaRight
  <1> HIDE DEF L
  <1>6. Entails(problem, L)
    BY <1>5, ModelsAgree DEF CoreIInv, Entails
  <1>7. L # {} /\ AssertingLiteral(L) \in L
    BY <1>5 DEF OnLevel
  <1>8. ~Tautology(L)
    <2> SUFFICES ASSUME NEW l \in L, Neg(l) \in L
                 PROVE  FALSE
      BY DEF Tautology
    <2>1. l \in Lits /\ Neg(Neg(l)) = l /\ False(l) /\ False(Neg(l))
      BY <1>5, LitFacts
    <2> QED
      BY <1>2, <2>1, Consistent DEF False, True
  <1>9. lemma' \in ClauseSets \cup UnitsOf(Lits) /\ uip' \in Lits
    BY <1>2, <1>5, <1>7, <1>8, ClauseKinds DEF UnitsOf
  <1>10. conflicts' \in 0 .. CheckInterval - 1
    <2>1. conflicts \in Nat /\ CheckInterval \in Nat \ {0} /\ conflicts' = (conflicts + 1) % CheckInterval
      BY CountersAssumption DEF ControlTypes
    <2> QED
      BY ONLY <2>1
  <1>11. ControlTypes'
    BY <1>9, <1>10 DEF ControlTypes, input, call, outcome
  <1>12. ControlShape'
    BY <1>2, <1>3 DEF ControlShape, absVars, input, outcome
  <1>13. FactsOnTrail' /\ AssumptionsOnTrail'
    BY DEF FactsOnTrail, AssumptionsOnTrail, OnTrail, UpToLevel, absVars, clauseStore, call
  <1>14. LemmaRight'
    <2>1. /\ assigned' = assigned /\ limits' = limits /\ problem' = problem
      BY DEF absVars, input
    <2>2. CurrentLevel' = CurrentLevel
      BY <2>1 DEF CurrentLevel
    <2>3. \A l : False(l)' <=> False(l)
      BY <2>1 DEF False, True
    <2>4. \A C, k : OnLevel(C, k)' = OnLevel(C, k)
      BY <2>1 DEF OnLevel, LevelOf, LevelAt, Position
    <2> QED
      BY <1>2, <1>5, <1>6, <2>1, <2>2, <2>3, <2>4 DEF LemmaRight
  <1> QED
    BY <1>1, <1>2, <1>11, <1>12, <1>13, <1>14 DEF AnswerRight
----------------------------------------------------------------------------
(* Steps that make a literal true.                                         *)

LEMMA GrowingStore ==
  ASSUME TrailIInv, StoreShape, NEW l \in Lits, NEW R \in SUBSET Lits, Grows(l, R),
         VarOf(l) <= maxVar,
         UNCHANGED <<input, clauseStore, assumed>>,
         active \subseteq active', active' \ active \subseteq db \cup lemmas,
         pc' # "idle" => pc # "idle" /\ db \cup lemmas \subseteq active', pc' # "assert"
  PROVE  StoreShape'
  <1>1. /\ Len(assigned') = Len(assigned) + 1 /\ Len(assigned) \in Nat
        /\ assigned'[Len(assigned) + 1] = l
        /\ \A i \in 1 .. Len(assigned) : assigned'[i] = assigned[i]
    BY Growing, TrailTypes DEF TrailIInv
  <1>2. \A i \in 1 .. Len(assigned') : i \in 1 .. Len(assigned) \/ i = Len(assigned) + 1
    BY <1>1
  <1>3. /\ UNCHANGED <<problem, maxVar, detectedUnsat, db, lemmas, scheduled, facts, assumed>>
        /\ Stored' = Stored
    BY DEF input, clauseStore, Stored
  <1>4. \A i \in 1 .. Len(assigned') : VarOf(assigned'[i]) <= maxVar
    BY <1>1, <1>2 DEF StoreShape
  <1> QED
    BY <1>3, <1>4 DEF StoreShape, Known, LitSet

LEMMA GrowingImplied ==
  ASSUME TrailIInv, Implied, NEW l \in Lits, NEW R \in SUBSET Lits, Grows(l, R),
         UNCHANGED <<input, clauseStore, assumed>>,
         pc' # "idle" => pc # "idle",
         active' \ active \subseteq db \cup lemmas,
         Len(limits) <= 1 => Entails(problem, {l}),
         Len(limits) <= 2 /\ pc # "idle" => Entails(Assuming, {l})
  PROVE  Implied'
  <1>1. /\ Len(assigned') = Len(assigned) + 1 /\ Len(assigned) \in Nat
        /\ assigned'[Len(assigned) + 1] = l
        /\ \A i \in 1 .. Len(assigned) : assigned'[i] = assigned[i]
    BY Growing, TrailTypes DEF TrailIInv
  <1>2. \A i \in 1 .. Len(assigned') : i \in 1 .. Len(assigned) \/ i = Len(assigned) + 1
    BY <1>1
  <1>3. UNCHANGED <<problem, db, lemmas, scheduled, facts, assumed>>
    BY DEF input, clauseStore
  <1>4. /\ \A i : UpToLevel(0, i)' <=> UpToLevel(0, i)
        /\ \A i : UpToLevel(1, i)' <=> UpToLevel(1, i)
        /\ UpToLevel(0, Len(assigned) + 1) <=> Len(limits) <= 1
        /\ UpToLevel(1, Len(assigned) + 1) <=> Len(limits) <= 2
    <2>1. TrailShape /\ 0 \in Nat /\ 1 \in Nat /\ 0 + 1 = 1 /\ 1 + 1 = 2
      BY DEF TrailIInv
    <2> QED
      BY <2>1, GrowingUpTo
  <1>5. Assuming' = Assuming /\ problem' = problem
    BY <1>3 DEF Assuming
  <1>6. \A C \in (Stored \cup UnitsOf(facts))' : Entails(problem, C)
    <2>1. (Stored \cup UnitsOf(facts))' \subseteq Stored \cup UnitsOf(facts)
      BY <1>3 DEF Stored
    <2> QED
      BY <2>1 DEF Implied
  <1>7. ASSUME NEW i \in 1 .. Len(assigned'), UpToLevel(0, i)'
        PROVE  Entails(problem, {assigned'[i]})
    <2>1. CASE i \in 1 .. Len(assigned)
      BY <1>1, <1>4, <1>7, <2>1 DEF Implied
    <2>2. CASE i = Len(assigned) + 1
      BY <1>1, <1>4, <1>7, <2>2
    <2> QED
      BY <1>2, <2>1, <2>2
  <1>8. ASSUME pc' # "idle", NEW i \in 1 .. Len(assigned'), UpToLevel(1, i)'
        PROVE  Entails(Assuming, {assigned'[i]})
    <2>1. CASE i \in 1 .. Len(assigned)
      BY <1>1, <1>4, <1>8, <2>1 DEF Implied
    <2>2. CASE i = Len(assigned) + 1
      BY <1>1, <1>4, <1>8, <2>2
    <2> QED
      BY <1>2, <2>1, <2>2
  <1> QED
    BY <1>5, <1>6, <1>7, <1>8 DEF Implied

LEMMA GrowingDecisions ==
  ASSUME TrailIInv, DecisionsPlaced, NEW l \in Lits, NEW R \in SUBSET Lits, Grows(l, R),
         assumed' = assumed, pc' # "idle" => pc # "idle",
         R = {} =>
           \/ Len(limits) = 1
           \/ Len(limits) = 2 /\ l \in LitSet(assumed)
           \/ Len(limits) >= 3 /\ limits[Len(limits)] = Len(assigned)
  PROVE  DecisionsPlaced'
  <1>1. /\ Len(assigned') = Len(assigned) + 1 /\ Len(assigned) \in Nat /\ Len(limits) \in Nat
        /\ assigned'[Len(assigned) + 1] = l /\ because'[Len(assigned) + 1] = R
        /\ \A i \in 1 .. Len(assigned) : assigned'[i] = assigned[i] /\ because'[i] = because[i]
        /\ limits' = limits
    BY Growing, TrailTypes DEF TrailIInv, Grows
  <1>2. \A i \in 1 .. Len(assigned') : i \in 1 .. Len(assigned) \/ i = Len(assigned) + 1
    BY <1>1
  <1>3. /\ \A i : UpToLevel(0, i)' <=> UpToLevel(0, i)
        /\ \A i : UpToLevel(1, i)' <=> UpToLevel(1, i)
        /\ UpToLevel(0, Len(assigned) + 1) <=> Len(limits) <= 1
        /\ UpToLevel(1, Len(assigned) + 1) <=> Len(limits) <= 2
    <2>1. TrailShape /\ 0 \in Nat /\ 1 \in Nat /\ 0 + 1 = 1 /\ 1 + 1 = 2
      BY DEF TrailIInv
    <2> QED
      BY <2>1, GrowingUpTo
  <1>4. SUFFICES ASSUME pc # "idle", NEW i \in 1 .. Len(assigned'), because'[i] = {}
                 PROVE  \/ UpToLevel(0, i)
                        \/ UpToLevel(1, i) /\ assigned'[i] \in LitSet(assumed)
                        \/ \E k \in 3 .. Len(limits) : i = limits[k] + 1
    BY <1>1, <1>3 DEF DecisionsPlaced
  <1>5. CASE i \in 1 .. Len(assigned)
    BY <1>1, <1>4, <1>5 DEF DecisionsPlaced
  <1>6. CASE i = Len(assigned) + 1
    <2>1. CASE Len(limits) = 1
      BY <1>3, <1>6, <2>1
    <2>2. CASE Len(limits) = 2 /\ l \in LitSet(assumed)
      BY <1>1, <1>3, <1>6, <2>2
    <2>3. CASE Len(limits) >= 3 /\ limits[Len(limits)] = Len(assigned)
      <3>1. Len(limits) \in 3 .. Len(limits)
        BY <1>1, <2>3
      <3> QED
        BY <1>6, <2>3, <3>1
    <2>4. R = {}
      BY <1>1, <1>4, <1>6
    <2> QED
      BY <2>1, <2>2, <2>3, <2>4
  <1> QED
    BY <1>2, <1>5, <1>6

LEMMA GrowingOnTrail ==
  ASSUME TrailIInv, NEW l \in Lits, NEW R \in SUBSET Lits, Grows(l, R)
  PROVE  /\ \A F : \A k \in Nat : OnTrail(F, k) => OnTrail(F, k)'
         /\ \A m : True(m) => True(m)'
         /\ True(l)'
  <1>1. /\ Len(assigned') = Len(assigned) + 1 /\ Len(assigned) \in Nat
        /\ assigned'[Len(assigned) + 1] = l
        /\ \A i \in 1 .. Len(assigned) : assigned'[i] = assigned[i]
    BY Growing, TrailTypes DEF TrailIInv
  <1>2. \A i \in 1 .. Len(assigned) : i \in 1 .. Len(assigned')
    BY <1>1
  <1>3. \A k \in Nat : \A i : UpToLevel(k, i)' <=> UpToLevel(k, i)
    BY GrowingUpTo DEF TrailIInv
  <1>4. ASSUME NEW F, NEW k \in Nat, OnTrail(F, k)
        PROVE  OnTrail(F, k)'
    BY <1>1, <1>2, <1>3, <1>4 DEF OnTrail
  <1>5. ASSUME NEW m, True(m)
        PROVE  True(m)'
    BY <1>1, <1>2, <1>5 DEF True
  <1>6. True(l)'
    <2>1. Len(assigned) + 1 \in 1 .. Len(assigned')
      BY <1>1
    <2> QED
      BY <1>1, <2>1 DEF True
  <1> QED
    BY <1>4, <1>5, <1>6

LEMMA PropagateFactStep ==
  ASSUME SearchIInv, NEW f \in facts, PropagateFact(f)
  PROVE  SearchIInv'
  <1> USE DEF SearchIInv, PropagateFact
  <1>1. /\ TrailIInv /\ StoreShape /\ DecisionsPlaced /\ EligibleRight /\ Implied /\ Kept
        /\ pc = "facts" /\ pc' = "facts" /\ Decide(f) /\ f \in Lits /\ VarOf(f) <= maxVar
        /\ Len(limits) = 1 /\ active' = active /\ assumed' = assumed
    BY DEF CoreIInv, StoreShape, Known, ControlShape, Decide
  <1>2. Grows(f, {})
    BY <1>1 DEF Decide, Grows
  <1>3. TrailIInv'
    BY <1>1, DecideStep
  <1>4. StoreShape'
    <2>1. db \cup lemmas \subseteq active
      BY <1>1 DEF StoreShape
    <2> QED
      BY <1>1, <1>2, <2>1, GrowingStore
  <1>5. DecisionsPlaced'
    BY <1>1, <1>2, GrowingDecisions
  <1>6. Entails(problem, {f})
    BY <1>1 DEF Implied, UnitsOf
  <1>7. Entails(Assuming, {f})
    BY <1>6, EntailsMore DEF Assuming
  <1>8. Implied'
    BY <1>1, <1>2, <1>6, <1>7, GrowingImplied
  <1>9. EligibleRight'
    BY <1>1 DEF EligibleRight, clauseStore, input
  <1>10. Kept'
    BY <1>1 DEF Kept, clauseStore, input
  <1>11. ControlTypes'
    BY <1>1 DEF ControlTypes, input, derived, policy, outcome
  <1>12. ControlShape'
    BY <1>1 DEF ControlShape, Decide, input, outcome
  <1> QED
    BY <1>1, <1>3, <1>4, <1>5, <1>8, <1>9, <1>10, <1>11, <1>12
       DEF CoreIInv, FactsOnTrail, AssumptionsOnTrail, LemmaRight, AnswerRight

LEMMA PropagateAssumptionStep ==
  ASSUME SearchIInv, PropagateAssumption
  PROVE  SearchIInv'
  <1> USE DEF SearchIInv, PropagateAssumption
  <1> DEFINE f == assumed[next]
  <1>1. next \in 1 .. Len(assumed) /\ f \in Lits /\ f \in LitSet(assumed)
    <2>1. next \in 1 .. Len(assumed) /\ assumed \in Seq(Lits)
      BY AssumptionsAssumption DEF ControlTypes
    <2> QED
      BY <2>1 DEF LitSet
  <1>2. /\ TrailIInv /\ StoreShape /\ DecisionsPlaced /\ EligibleRight /\ Implied /\ Kept
        /\ pc = "assume" /\ pc' = "assume" /\ Decide(f) /\ VarOf(f) <= maxVar
        /\ Len(limits) = 2 /\ active' = active /\ assumed' = assumed /\ next' = next
        /\ facts' = facts /\ eligible' = eligible \ {VarOf(f)} /\ busy'
        /\ OnTrail(facts, 0)
    BY <1>1 DEF CoreIInv, StoreShape, Known, ControlShape, Decide, FactsOnTrail, clauseStore
  <1> HIDE DEF f
  <1>3. Grows(f, {})
    BY <1>2 DEF Decide, Grows
  <1>4. TrailIInv'
    BY <1>1, <1>2, DecideStep
  <1>5. StoreShape'
    <2>1. db \cup lemmas \subseteq active
      BY <1>2 DEF StoreShape
    <2> QED
      BY <1>1, <1>2, <1>3, <2>1, GrowingStore
  <1>6. DecisionsPlaced'
    BY <1>1, <1>2, <1>3, GrowingDecisions
  <1>7. Entails(Assuming, {f})
    BY <1>1, AssumingModels, EntailsUnit
  <1>8. Implied'
    BY <1>1, <1>2, <1>3, <1>7, GrowingImplied
  <1>9. EligibleRight'
    BY <1>1, <1>2 DEF EligibleRight, input
  <1>10. Kept'
    BY <1>2 DEF Kept, clauseStore, input
  <1>11. ControlTypes'
    BY <1>2 DEF ControlTypes, input, derived, policy, outcome
  <1>12. ControlShape'
    BY <1>2 DEF ControlShape, Decide, input, outcome
  <1>13. FactsOnTrail'
    BY <1>1, <1>2, <1>3, GrowingOnTrail DEF FactsOnTrail
  <1>14. AssumptionsOnTrail'
    <2>1. \A m : True(m) => True(m)'
      BY <1>1, <1>2, <1>3, GrowingOnTrail
    <2>2. True(f)'
      <3>1. f' = f
        BY <1>2 DEF f
      <3> QED
        BY <1>1, <1>2, <1>3, <3>1, GrowingOnTrail
    <2>3. \A j \in 1 .. next - 1 : j <= Len(assumed) /\ True(assumed[j])
      BY <1>2 DEF AssumptionsOnTrail
    <2> QED
      BY <1>1, <1>2, <2>1, <2>2, <2>3 DEF AssumptionsOnTrail, f
  <1> QED
    BY <1>2, <1>4, <1>5, <1>6, <1>8, <1>9, <1>10, <1>11, <1>12, <1>13, <1>14
       DEF CoreIInv, LemmaRight, AnswerRight

LEMMA BranchStep ==
  ASSUME SearchIInv, NEW l \in Lits, Branch(l)
  PROVE  SearchIInv'
  <1> USE DEF SearchIInv, Branch
  <1>1. /\ TrailIInv /\ StoreShape /\ DecisionsPlaced /\ EligibleRight /\ Implied /\ Kept
        /\ pc = "branch" /\ pc' = "resolve" /\ Decide(l)
        /\ Len(limits) >= 3 /\ limits[Len(limits)] = Len(assigned)
        /\ active' = active /\ limits' = limits /\ assumed' = assumed /\ facts' = facts
        /\ eligible' = eligible /\ OnTrail(facts, 0) /\ OnTrail(LitSet(assumed), 1)
    BY DEF CoreIInv, ControlShape, Decide, FactsOnTrail, AssumptionsOnTrail, clauseStore, call
  <1>2. VarOf(l) <= maxVar
    BY <1>1, NumVarsAssumption DEF EligibleRight, StoreShape, Vars
  <1>3. Grows(l, {})
    BY <1>1 DEF Decide, Grows
  <1>4. TrailIInv'
    BY <1>1, DecideStep
  <1>5. StoreShape'
    <2>1. db \cup lemmas \subseteq active
      BY <1>1 DEF StoreShape
    <2> QED
      BY <1>1, <1>2, <1>3, <2>1, GrowingStore
  <1>6. DecisionsPlaced'
    BY <1>1, <1>3, GrowingDecisions
  <1>7. Implied'
    <2>1. ~(Len(limits) <= 1) /\ ~(Len(limits) <= 2)
      BY <1>1, TrailTypes DEF TrailIInv
    <2> QED
      BY <1>1, <1>3, <2>1, GrowingImplied
  <1>8. EligibleRight'
    BY <1>1 DEF EligibleRight, input
  <1>9. Kept'
    BY <1>1 DEF Kept, clauseStore, input
  <1>10. ControlTypes'
    BY <1>1 DEF ControlTypes, input, derived, policy, outcome
  <1>11. ControlShape'
    BY <1>1 DEF ControlShape, Decide, input, outcome
  <1>12. FactsOnTrail' /\ AssumptionsOnTrail'
    <2>1. \A F : \A k \in Nat : OnTrail(F, k) => OnTrail(F, k)'
      BY <1>3, <1>1, GrowingOnTrail
    <2>2. OnTrail(facts, 0)' /\ OnTrail(LitSet(assumed), 1)'
      BY <1>1, <2>1
    <2> QED
      BY <1>1, <2>2 DEF FactsOnTrail, AssumptionsOnTrail
  <1> QED
    BY <1>1, <1>4, <1>5, <1>6, <1>7, <1>8, <1>9, <1>10, <1>11, <1>12
       DEF CoreIInv, LemmaRight, AnswerRight

(* The lemma is registered: with its literals false, the asserting one     *)
(* follows.                                                                *)
LEMMA RegisterLemmaStep ==
  ASSUME SearchIInv, RegisterLemma
  PROVE  SearchIInv'
  <1> USE DEF SearchIInv, RegisterLemma
  <1>1. /\ TrailIInv /\ StoreShape /\ DecisionsPlaced /\ EligibleRight /\ Implied /\ Kept
        /\ pc = "assert" /\ pc' = "resolve" /\ Learn(lemma, uip)
        /\ active' = active \cup {lemma} /\ limits' = limits /\ assumed' = assumed
        /\ facts' = facts /\ eligible' = eligible /\ OnTrail(facts, 0)
        /\ Len(limits) >= 2 => OnTrail(LitSet(assumed), 1)
    BY DEF CoreIInv, ControlShape, Learn, FactsOnTrail, AssumptionsOnTrail, clauseStore, call
  <1>2. /\ lemma \in db \cup lemmas /\ db \cup lemmas \subseteq active \cup {lemma}
        /\ lemma \in Stored /\ Proper(lemma) /\ Known(lemma)
    BY <1>1 DEF LemmaRight, StoreShape, Stored
  <1>3. /\ lemma \in SUBSET Lits /\ lemma # {} /\ uip \in lemma /\ uip \in Lits
        /\ VarOf(uip) <= maxVar /\ \A m \in lemma \ {uip} : False(m)
    BY <1>1, <1>2 DEF Proper, Known, Learn, Forces
  <1>4. Grows(uip, lemma)
    BY <1>1 DEF Learn, Grows, Forces
  <1>5. TrailIInv'
    <2>1. Open(lemma, uip, limits[Len(limits)])
      BY <1>1 DEF LemmaRight, Open
    <2> QED
      BY <1>1, <1>2, <2>1, LearnStep
  <1>6. StoreShape'
    BY <1>1, <1>2, <1>3, <1>4, GrowingStore
  <1>7. DecisionsPlaced'
    BY <1>1, <1>3, <1>4, GrowingDecisions
  <1>8. Entails(problem, lemma)
    BY <1>1, <1>2 DEF Implied
  <1>9. /\ Len(limits) <= 1 => Entails(problem, {uip})
        /\ Len(limits) <= 2 /\ pc # "idle" => Entails(Assuming, {uip})
    BY <1>1, <1>3, <1>8, ForcedFollows
  <1>10. Implied'
    BY <1>1, <1>2, <1>3, <1>4, <1>9, GrowingImplied
  <1>11. EligibleRight'
    BY <1>1 DEF EligibleRight, input
  <1>12. Kept'
    BY <1>1 DEF Kept, clauseStore, input
  <1>13. ControlTypes'
    BY <1>1 DEF ControlTypes, LemmaUsed, input, policy, outcome
  <1>14. ControlShape'
    BY <1>1 DEF ControlShape, input, outcome
  <1>15. FactsOnTrail' /\ AssumptionsOnTrail'
    <2>1. \A F : \A k \in Nat : OnTrail(F, k) => OnTrail(F, k)'
      BY <1>1, <1>3, <1>4, GrowingOnTrail
    <2>2. OnTrail(facts, 0)' /\ (Len(limits)' >= 2 => OnTrail(LitSet(assumed), 1)')
      BY <1>1, <2>1
    <2> QED
      BY <1>1, <2>2 DEF FactsOnTrail, AssumptionsOnTrail
  <1> QED
    BY <1>1, <1>5, <1>6, <1>7, <1>10, <1>11, <1>12, <1>13, <1>14, <1>15
       DEF CoreIInv, LemmaRight, AnswerRight

LEMMA ForceUnitStep ==
  ASSUME SearchIInv, Propagate, NEW C \in active, NEW l \in Lits, ForceUnit(C, l)
  PROVE  SearchIInv'
  <1> USE DEF SearchIInv
  <1>1. /\ TrailIInv /\ StoreShape /\ DecisionsPlaced /\ EligibleRight /\ Implied /\ Kept
        /\ busy /\ busy' /\ falsified = {} /\ falsified' = {} /\ pc' = pc
        /\ active' = active /\ limits' = limits /\ UNCHANGED <<input, clauseStore>>
        /\ UNCHANGED <<assumed, facts, eligible, next, hadError, stopRequested>>
        /\ UNCHANGED <<derived, policy, outcome>>
    BY DEF CoreIInv, Propagate, TrailIInv, ConflictRight, ForceUnit, clauseStore, call
  <1>2. pc \in {"idle", "facts", "assume", "resolve"} /\ (pc = "idle" => hadError)
    BY <1>1 DEF ControlTypes, ControlShape, Fresh, Ready
  <1>3. /\ C \in SUBSET Lits /\ C # {} /\ l \in C /\ VarOf(l) <= maxVar
        /\ \A m \in C \ {l} : False(m)
    BY <1>1 DEF TrailIInv, ActiveProper, Proper, ForceUnit, Forces, StoreShape, Stored, Known
  <1>4. Grows(l, C)
    BY DEF ForceUnit, Forces, Grows
  <1>5. TrailIInv'
    BY <1>1, ForceStep
  <1>6. StoreShape'
    <2>1. pc # "idle" => db \cup lemmas \subseteq active
      BY <1>1, <1>2 DEF StoreShape
    <2> QED
      BY <1>1, <1>2, <1>3, <1>4, <2>1, GrowingStore
  <1>7. DecisionsPlaced'
    BY <1>1, <1>3, <1>4, GrowingDecisions
  <1>8. Implied'
    <2>1. Entails(problem, C)
      BY <1>1 DEF Implied, Stored
    <2>2. /\ Len(limits) <= 1 => Entails(problem, {l})
          /\ Len(limits) <= 2 /\ pc # "idle" => Entails(Assuming, {l})
      BY <1>1, <1>3, <2>1, ForcedFollows
    <2> QED
      BY <1>1, <1>3, <1>4, <2>2, GrowingImplied
  <1>9. EligibleRight' /\ Kept'
    BY <1>1 DEF EligibleRight, Kept, clauseStore, input
  <1>10. ControlTypes'
    BY <1>1 DEF ControlTypes, input, derived, policy, outcome
  <1>11. ControlShape'
    BY <1>1, <1>2 DEF ControlShape, input, outcome
  <1>12. FactsOnTrail' /\ AssumptionsOnTrail'
    <2>1. \A F : \A k \in Nat : OnTrail(F, k) => OnTrail(F, k)'
      BY <1>1, <1>3, <1>4, GrowingOnTrail
    <2>2. \A m : True(m) => True(m)'
      BY <1>1, <1>3, <1>4, GrowingOnTrail
    <2>3. OnTrail(facts, 0) => OnTrail(facts, 0)'
      BY <1>1, <2>1
    <2>4. OnTrail(LitSet(assumed), 1) => OnTrail(LitSet(assumed), 1)'
      BY <1>1, <2>1
    <2> QED
      BY <1>1, <2>2, <2>3, <2>4 DEF FactsOnTrail, AssumptionsOnTrail
  <1>13. LemmaRight'
    BY <1>1, <1>2 DEF LemmaRight
  <1>14. AnswerRight'
    <2>1. verdict' = verdict /\ model' = model /\ failed' = failed /\ problem' = problem /\ maxVar' = maxVar
      BY <1>1 DEF outcome, input
    <2> QED
      BY <1>1, <1>2, <2>1 DEF AnswerRight, SatisfiedBy, Refuted, Assuming
  <1> QED
    BY <1>5, <1>6, <1>7, <1>8, <1>9, <1>10, <1>11, <1>12, <1>13, <1>14 DEF CoreIInv

LEMMA PropagateStep ==
  ASSUME SearchIInv, Propagate
  PROVE  SearchIInv'
  <1> USE DEF SearchIInv
  <1>1. /\ CoreIInv /\ TrailIInv /\ pc' = pc /\ UNCHANGED <<input, clauseStore, call>>
        /\ UNCHANGED <<next, hadError, stopRequested>> /\ UNCHANGED <<derived, policy, outcome>>
    BY DEF CoreIInv, Propagate
  <1>2. CASE \E C \in active, l \in Lits : ForceUnit(C, l)
    BY <1>2, ForceUnitStep
  <1>3. ASSUME TrailIInv', busy, ~busy', UNCHANGED <<active, assigned, because, limits>>
        PROVE  SearchIInv'
    <2>1. /\ UNCHANGED <<problem, maxVar, detectedUnsat, db, lemmas, scheduled, facts, assumed,
                         eligible, verdict, model, failed, lemma, uip>>
      BY <1>1 DEF input, clauseStore, call, outcome, derived
    <2>2. pc \in {"idle", "facts", "assume", "resolve"} /\ (pc = "idle" => hadError)
      BY <1>3 DEF ControlTypes, ControlShape, Fresh, Ready
    <2>3. StoreShape'
      BY <1>1, <1>3, <2>1 DEF CoreIInv, StoreShape, Stored, Known, LitSet
    <2>4. DecisionsPlaced' /\ EligibleRight'
      BY <1>1, <1>3, <2>1 DEF CoreIInv, DecisionsPlaced, EligibleRight, UpToLevel, LitSet
    <2>5. Implied' /\ Kept'
      BY <1>1, <1>3, <2>1 DEF CoreIInv, Implied, Kept, Stored, UpToLevel, Assuming
    <2>6. ControlTypes'
      BY <1>1, <2>1 DEF ControlTypes, policy
    <2>7. ControlShape'
      BY <1>1, <1>3, <2>1, <2>2 DEF ControlShape
    <2>8. FactsOnTrail' /\ AssumptionsOnTrail'
      BY <1>1, <1>3, <2>1 DEF FactsOnTrail, AssumptionsOnTrail, OnTrail, UpToLevel, True
    <2>9. LemmaRight'
      BY <1>1, <2>2 DEF LemmaRight
    <2>10. AnswerRight'
      BY <1>1, <2>1, <2>2 DEF AnswerRight, SatisfiedBy, Refuted, Assuming
    <2> QED
      BY <1>3, <2>3, <2>4, <2>5, <2>6, <2>7, <2>8, <2>9, <2>10 DEF CoreIInv
  <1>4. CASE \E C \in active : Fail(C)
    <2>1. TrailIInv'
      BY <1>1, <1>4, FailStep
    <2> QED
      BY <1>3, <1>4, <2>1 DEF Fail
  <1>5. CASE Succeed
    <2>1. TrailIInv'
      BY <1>1, <1>5, SucceedStep
    <2> QED
      BY <1>3, <1>5, <2>1 DEF Succeed
  <1> QED
    BY <1>2, <1>4, <1>5 DEF Propagate
----------------------------------------------------------------------------
(* Steps that open a level.                                                *)

LEMMA OpeningKeeps ==
  ASSUME CoreIInv, OpenLevel, assumed' = assumed, UNCHANGED input, pc # "idle"
  PROVE  /\ DecisionsPlaced'
         /\ \A F : OnTrail(F, 0) => OnTrail(F, 0)'
         /\ \A F : OnTrail(F, 1) => OnTrail(F, 1)'
         /\ \A i \in 1 .. Len(assigned) : UpToLevel(0, i)' => Entails(problem, {assigned[i]})
         /\ \A i \in 1 .. Len(assigned) : UpToLevel(1, i)' => Entails(Assuming, {assigned[i]})
  <1> USE DEF CoreIInv
  <1>1. /\ Len(limits') = Len(limits) + 1 /\ Len(limits) \in Nat
        /\ \A k \in 1 .. Len(limits) : limits'[k] = limits[k]
        /\ assigned' = assigned /\ because' = because
    BY OpenLevelStep, TrailTypes DEF OpenLevel, TrailIInv
  <1>2. \A i \in 1 .. Len(assigned) :
          (UpToLevel(0, i)' <=> UpToLevel(0, i)) /\ (UpToLevel(1, i)' <=> UpToLevel(1, i))
    BY OpeningUpTo, 0 \in Nat, 1 \in Nat
  <1>3. \A k \in 3 .. Len(limits) : k \in 3 .. Len(limits') /\ limits'[k] = limits[k]
    BY <1>1
  <1>4. DecisionsPlaced'
    BY <1>1, <1>2, <1>3 DEF DecisionsPlaced
  <1>5. \A F : OnTrail(F, 0) => OnTrail(F, 0)'
    BY <1>1, <1>2 DEF OnTrail
  <1>6. \A F : OnTrail(F, 1) => OnTrail(F, 1)'
    BY <1>1, <1>2 DEF OnTrail
  <1> QED
    BY <1>2, <1>4, <1>5, <1>6 DEF Implied

LEMMA FactsPropagatedStep ==
  ASSUME SearchIInv, FactsPropagated
  PROVE  SearchIInv'
  <1> USE DEF SearchIInv, FactsPropagated
  <1>1. /\ CoreIInv /\ TrailIInv /\ StoreShape /\ EligibleRight /\ Implied /\ Kept
        /\ pc = "facts" /\ pc' = "assume" /\ OpenLevel /\ Ready /\ Len(limits) = 1
        /\ facts' = TrueLits /\ next' = 1
        /\ UNCHANGED <<active, assigned, because, busy, falsified, problem, maxVar, detectedUnsat,
                       db, lemmas, scheduled, assumed, eligible>>
    BY DEF CoreIInv, OpenLevel, ControlShape, input, call
  <1>2. \A l : l \in TrueLits <=> \E i \in 1 .. Len(assigned) : assigned[i] = l
    BY DEF TrueLits, LitSet
  <1>3. TrailIInv' /\ Len(limits') = 2
    BY <1>1, OpenLevelStep
  <1>4. facts \subseteq facts'
    BY <1>1, <1>2 DEF True
  <1>5. facts' \subseteq Lits /\ \A l \in facts' : VarOf(l) <= maxVar
    BY <1>1, <1>2, TrailTypes DEF TrailIInv, StoreShape
  <1>6. StoreShape'
    BY <1>1, <1>5 DEF StoreShape, Known, Stored
  <1>7. DecisionsPlaced'
    BY <1>1, OpeningKeeps
  <1>8. EligibleRight'
    BY <1>1, <1>4 DEF EligibleRight
  <1>9. Implied'
    <2>1. Stored' = Stored /\ problem' = problem /\ Assuming' = Assuming
      BY <1>1 DEF Stored, Assuming
    <2>2. \A i \in 1 .. Len(assigned) : Entails(problem, {assigned[i]})
      <3>1. \A i : UpToLevel(0, i)
        BY <1>1 DEF UpToLevel
      <3> QED
        BY <1>1, <3>1 DEF Implied
    <2>3. \A C \in UnitsOf(facts') : Entails(problem, C)
      BY <1>1, <1>2, <2>2 DEF UnitsOf
    <2>4. \A i \in 1 .. Len(assigned) : Entails(Assuming, {assigned[i]})
      BY <2>2, EntailsMore DEF Assuming
    <2> QED
      BY <1>1, <2>1, <2>2, <2>3, <2>4 DEF Implied
  <1>10. Kept'
    BY <1>1, <1>4, KeptMore
  <1>11. ControlTypes'
    BY <1>1 DEF ControlTypes, derived, policy, outcome
  <1>12. ControlShape'
    BY <1>1, <1>3 DEF ControlShape, outcome
  <1>13. FactsOnTrail'
    <2>1. \A f \in facts' : \E i \in 1 .. Len(assigned') : assigned'[i] = f /\ UpToLevel(0, i)'
      <3>1. \A i \in 1 .. Len(assigned) : UpToLevel(0, i)' <=> UpToLevel(0, i)
        BY <1>1, OpeningUpTo, 0 \in Nat
      <3>2. \A i : UpToLevel(0, i)
        BY <1>1 DEF UpToLevel
      <3> QED
        BY <1>1, <1>2, <3>1, <3>2
    <2> QED
      BY <2>1 DEF FactsOnTrail, OnTrail
  <1>14. AssumptionsOnTrail'
    BY <1>1 DEF AssumptionsOnTrail, Ready
  <1> QED
    BY <1>1, <1>3, <1>6, <1>7, <1>8, <1>9, <1>10, <1>11, <1>12, <1>13, <1>14
       DEF CoreIInv, LemmaRight, AnswerRight

LEMMA NewDecisionLevelStep ==
  ASSUME SearchIInv, NewDecisionLevel
  PROVE  SearchIInv'
  <1> USE DEF SearchIInv, NewDecisionLevel
  <1>1. /\ CoreIInv /\ TrailIInv /\ StoreShape /\ EligibleRight /\ Implied /\ Kept
        /\ pc = "search" /\ pc' = "branch" /\ OpenLevel /\ Ready /\ Len(limits) >= 2
        /\ Len(assigned) # maxVar /\ OnTrail(facts, 0) /\ OnTrail(LitSet(assumed), 1)
        /\ UNCHANGED <<active, assigned, because, busy, falsified, problem, maxVar, detectedUnsat,
                       db, lemmas, scheduled, facts, assumed, eligible>>
        /\ UNCHANGED <<hadError, stopRequested>> /\ UNCHANGED <<derived, policy, outcome>>
        /\ next' = next
    BY DEF CoreIInv, OpenLevel, ControlShape, input, call, clauseStore, FactsOnTrail,
           AssumptionsOnTrail
  <1>2. /\ TrailIInv' /\ Len(limits') = Len(limits) + 1
        /\ limits'[Len(limits')] = Len(assigned) /\ Len(limits) \in Nat
    BY <1>1, OpenLevelStep, TrailTypes DEF TrailIInv
  <1>3. StoreShape'
    BY <1>1 DEF StoreShape, Known, Stored, LitSet
  <1>4. DecisionsPlaced'
    BY <1>1, OpeningKeeps
  <1>5. EligibleRight' /\ Kept'
    BY <1>1 DEF EligibleRight, Kept
  <1>6. Implied'
    <2>1. Stored' = Stored /\ problem' = problem /\ Assuming' = Assuming /\ facts' = facts
      BY <1>1 DEF Stored, Assuming
    <2>2. /\ \A i \in 1 .. Len(assigned) : UpToLevel(0, i)' => Entails(problem, {assigned[i]})
          /\ \A i \in 1 .. Len(assigned) : UpToLevel(1, i)' => Entails(Assuming, {assigned[i]})
      BY <1>1, OpeningKeeps
    <2> QED
      BY <1>1, <2>1, <2>2 DEF Implied
  <1>7. ControlTypes'
    BY <1>1 DEF ControlTypes, derived, policy, outcome
  <1>8. ControlShape'
    BY <1>1, <1>2 DEF ControlShape, Ready, outcome
  <1>9. FactsOnTrail' /\ AssumptionsOnTrail'
    <2>1. OnTrail(facts, 0)' /\ OnTrail(LitSet(assumed), 1)'
      BY <1>1, OpeningKeeps
    <2> QED
      BY <1>1, <2>1 DEF FactsOnTrail, AssumptionsOnTrail
  <1> QED
    BY <1>1, <1>2, <1>3, <1>4, <1>5, <1>6, <1>7, <1>8, <1>9 DEF CoreIInv, LemmaRight, AnswerRight
----------------------------------------------------------------------------
(* Steps that empty the trail.                                             *)

LEMMA ResetCore ==
  ASSUME CoreIInv, Reset, UNCHANGED <<input, db, lemmas, scheduled, call>>,
         facts \subseteq facts',
         \A f \in facts' \ facts : f \in Lits /\ VarOf(f) <= maxVar /\ Entails(problem, {f}),
         pc' # "idle" => pc # "idle", pc # "assert", pc' # "assert"
  PROVE  CoreIInv' /\ Fresh'
  <1> USE DEF CoreIInv
  <1>1. /\ UNCHANGED <<active, problem, maxVar, detectedUnsat, db, lemmas, scheduled, assumed,
                       eligible>>
        /\ assigned' = <<>> /\ because' = <<>> /\ limits' = <<0>>
        /\ busy' = busy /\ ~busy /\ falsified' = {}
    BY DEF Reset, input, call
  <1>2. TrailIInv'
    BY ResetStep
  <1>3. \A i : i \notin 1 .. Len(assigned')
    BY <1>1
  <1>4. StoreShape'
    <2>1. facts' \subseteq Lits /\ \A l \in facts' : VarOf(l) <= maxVar
      BY DEF StoreShape, Known
    <2> QED
      BY <1>1, <1>3, <2>1 DEF StoreShape, Stored, Known, LitSet
  <1>5. DecisionsPlaced'
    BY <1>3 DEF DecisionsPlaced
  <1>6. EligibleRight'
    BY <1>1 DEF EligibleRight
  <1>7. Implied'
    <2>1. Stored' = Stored
      BY <1>1 DEF Stored
    <2>2. \A C \in Stored : Entails(problem, C)
      BY DEF Implied
    <2>3. \A f \in facts' : Entails(problem, {f})
      BY DEF Implied, UnitsOf
    <2>4. \A C \in UnitsOf(facts') : Entails(problem, C)
      BY <2>3 DEF UnitsOf
    <2> QED
      BY <1>1, <1>3, <2>1, <2>2, <2>4 DEF Implied
  <1>8. Kept'
    BY <1>1, KeptMore
  <1>9. Fresh'
    BY <1>1 DEF Fresh, Ready
  <1> QED
    BY <1>2, <1>4, <1>5, <1>6, <1>7, <1>8, <1>9

LEMMA LearnFactStep ==
  ASSUME SearchIInv, LearnFact
  PROVE  SearchIInv'
  <1> USE DEF SearchIInv, LearnFact, Restart
  <1>1. pc = "lemma" /\ pc' = "restart" /\ lemma = {uip} /\ facts' = facts \cup {uip} /\ CoreIInv
    OBVIOUS
  <1>2. uip \in Lits /\ Entails(problem, {uip}) /\ False(uip)
    BY <1>1 DEF LemmaRight
  <1>3. VarOf(uip) <= maxVar
    BY <1>2, LitFacts DEF CoreIInv, StoreShape, False, True
  <1>4. CoreIInv' /\ Fresh'
    BY <1>1, <1>2, <1>3, ResetCore
  <1>5. ControlTypes'
    BY DEF ControlTypes, LemmaUsed, input, call, outcome
  <1>6. ControlShape'
    BY <1>4 DEF ControlShape, input, outcome
  <1> QED
    BY <1>1, <1>4, <1>5, <1>6 DEF FactsOnTrail, AssumptionsOnTrail, LemmaRight, AnswerRight

LEMMA RestartSearchStep ==
  ASSUME SearchIInv, RestartSearch
  PROVE  SearchIInv'
  <1> USE DEF SearchIInv, RestartSearch, Restart
  <1>1. CoreIInv' /\ Fresh'
    BY ResetCore DEF clauseStore
  <1>2. ControlTypes'
    BY DEF ControlTypes, input, call, derived, outcome
  <1>3. ControlShape'
    BY <1>1 DEF ControlShape, input, outcome
  <1> QED
    BY <1>1, <1>2, <1>3 DEF FactsOnTrail, AssumptionsOnTrail, LemmaRight, AnswerRight

LEMMA ReturnStep ==
  ASSUME SearchIInv, Return
  PROVE  SearchIInv'
  <1> USE DEF SearchIInv, Return
  <1>1. CoreIInv' /\ Fresh'
    BY ResetCore DEF clauseStore
  <1>2. ControlTypes'
    <2>1. TrueLits \subseteq Lits
      BY TrailTypes DEF TrueLits, LitSet, CoreIInv, TrailIInv
    <2> QED
      BY <2>1 DEF ControlTypes, ReportedModel, input, call, derived, policy
  <1>3. ControlShape'
    BY <1>1 DEF ControlShape
  <1>4. AnswerRight'
    <2>1. problem' = problem /\ maxVar' = maxVar /\ assumed' = assumed /\ verdict' = verdict
          /\ pc = "return" /\ pc' = "idle"
      BY DEF input, call
    <2>2. ASSUME verdict = "sat"
          PROVE  SatisfiedBy(model)'
      BY <2>1, <2>2 DEF AnswerRight, ReportedModel, SatisfiedBy
    <2>3. ASSUME verdict = "unsat"
          PROVE  Refuted'
      BY <2>1, <2>3 DEF AnswerRight, Refuted, Assuming
    <2> QED
      BY <2>1, <2>2, <2>3 DEF AnswerRight
  <1> QED
    BY <1>1, <1>2, <1>3, <1>4 DEF FactsOnTrail, AssumptionsOnTrail, LemmaRight
----------------------------------------------------------------------------
(* The backjump.                                                           *)

(* Undoing levels keeps what is on those that are left.                    *)
LEMMA UndoKeeps ==
  ASSUME CoreIInv, NEW k, Undo(k), pc # "idle", UNCHANGED <<problem, assumed>>
  PROVE  /\ DecisionsPlaced'
         /\ \A i \in 1 .. Len(assigned') : UpToLevel(0, i)' => Entails(problem, {assigned'[i]})
         /\ \A i \in 1 .. Len(assigned') : UpToLevel(1, i)' => Entails(Assuming, {assigned'[i]})
         /\ \A F : OnTrail(F, 0) => OnTrail(F, 0)'
         /\ k >= 1 => \A F : OnTrail(F, 1) => OnTrail(F, 1)'
  <1> USE DEF CoreIInv
  <1>1. /\ k \in 0 .. Len(limits) - 2
        /\ Len(assigned') = limits[k + 2] /\ limits[k + 2] \in 0 .. Len(assigned)
        /\ \A i \in 1 .. Len(assigned') : assigned'[i] = assigned[i] /\ because'[i] = because[i]
        /\ Len(limits') = k + 1 /\ \A j \in 1 .. k + 1 : limits'[j] = limits[j]
        /\ Len(assigned) \in Nat /\ Len(limits) \in Nat
    BY UndoStep, TrailTypes DEF TrailIInv
  <1>2. \A i \in 1 .. Len(assigned') : i \in 1 .. Len(assigned)
    BY <1>1
  <1>3. /\ \A i \in 1 .. Len(assigned') : UpToLevel(0, i)' <=> UpToLevel(0, i)
        /\ \A i \in 1 .. Len(assigned') : UpToLevel(1, i)' <=> UpToLevel(1, i)
    BY UndoUpTo, 0 \in Nat, 1 \in Nat
  <1>4. /\ \A i \in 1 .. Len(assigned) : UpToLevel(0, i) => i \in 1 .. Len(assigned')
        /\ k >= 1 => \A i \in 1 .. Len(assigned) : UpToLevel(1, i) => i \in 1 .. Len(assigned')
    <2>1. \A j \in Nat : \A i \in 1 .. Len(assigned) :
            UpToLevel(j, i) /\ j <= k => i \in 1 .. Len(assigned')
      BY UndoUpTo
    <2>2. 0 \in Nat /\ 1 \in Nat /\ 0 <= k
      BY <1>1
    <2> QED
      BY <2>1, <2>2
  <1>5. DecisionsPlaced'
    <2> SUFFICES ASSUME NEW i \in 1 .. Len(assigned'), because'[i] = {}
                 PROVE  \/ UpToLevel(0, i)'
                        \/ UpToLevel(1, i)' /\ assigned'[i] \in LitSet(assumed)
                        \/ \E j \in 3 .. Len(limits') : i = limits'[j] + 1
      BY DEF DecisionsPlaced
    <2>1. CASE UpToLevel(0, i) \/ (UpToLevel(1, i) /\ assigned[i] \in LitSet(assumed))
      BY <1>1, <1>3, <2>1
    <2>2. ASSUME NEW j \in 3 .. Len(limits), i = limits[j] + 1
          PROVE  \E m \in 3 .. Len(limits') : i = limits'[m] + 1
      <3>1. limits[j] \in Nat /\ j \in 1 .. Len(limits) /\ k + 2 \in 1 .. Len(limits)
        BY <1>1, TrailTypes DEF TrailIInv
      <3>2. j >= k + 2 => limits[k + 2] <= limits[j]
        BY <3>1 DEF TrailIInv, TrailShape
      <3>3. j <= k + 1
        BY <1>1, <2>2, <3>1, <3>2
      <3>4. j \in 3 .. Len(limits') /\ limits'[j] = limits[j]
        BY <1>1, <3>3
      <3> QED
        BY <2>2, <3>4
    <2>3. because[i] = {} /\ i \in 1 .. Len(assigned)
      BY <1>1, <1>2
    <2>4. \/ UpToLevel(0, i)
          \/ UpToLevel(1, i) /\ assigned[i] \in LitSet(assumed)
          \/ \E j \in 3 .. Len(limits) : i = limits[j] + 1
      BY <2>3 DEF DecisionsPlaced
    <2> QED
      BY <2>1, <2>2, <2>4
  <1>6. \A i \in 1 .. Len(assigned') : UpToLevel(0, i)' => Entails(problem, {assigned'[i]})
    BY <1>1, <1>2, <1>3 DEF Implied
  <1>7. \A i \in 1 .. Len(assigned') : UpToLevel(1, i)' => Entails(Assuming, {assigned'[i]})
    BY <1>1, <1>2, <1>3 DEF Implied
  <1>8. \A F : OnTrail(F, 0) => OnTrail(F, 0)'
    BY <1>1, <1>3, <1>4 DEF OnTrail
  <1>9. ASSUME k >= 1, NEW F, OnTrail(F, 1)
        PROVE  OnTrail(F, 1)'
    BY <1>1, <1>3, <1>4, <1>9 DEF OnTrail
  <1> QED
    BY <1>5, <1>6, <1>7, <1>8, <1>9

(* The level jumped to is that of another literal of the lemma, and the    *)
(* greatest of these.                                                      *)
LEMMA BacktrackLevelRight ==
  ASSUME TrailShape, LemmaRight, pc = "lemma", lemma # {uip}
  PROVE  /\ uip \in lemma
         /\ \E l \in lemma \ {uip} : LevelOf(l) = BacktrackLevel
         /\ \A l \in lemma \ {uip} : LevelOf(l) <= BacktrackLevel
         /\ BacktrackLevel \in 0 .. CurrentLevel
         /\ BacktrackLevel # CurrentLevel
  <1> DEFINE T == LevelsOf(lemma \ {uip})
  <1>1. /\ lemma \subseteq Lits /\ (\A l \in lemma : False(l))
        /\ OnLevel(lemma, CurrentLevel) = {uip} /\ Len(assigned) \in Nat
        /\ CurrentLevel \in Nat
    BY TrailTypes DEF LemmaRight, CurrentLevel
  <1>2. \A l \in lemma : LevelOf(l) \in 0 .. CurrentLevel
    BY <1>1, FalseLiteral, Unassignable
  <1>3. \A l \in lemma \ {uip} : LevelOf(l) # CurrentLevel
    BY <1>1 DEF OnLevel
  <1>4. uip \in lemma /\ lemma \ {uip} # {}
    BY <1>1 DEF OnLevel
  <1>5. T \in SUBSET Nat /\ T # {} /\ \A k \in T : k <= CurrentLevel
    BY <1>1, <1>2, <1>4 DEF LevelsOf
  <1>6. \A l \in lemma \ {uip} : LevelOf(l) \in T
    BY DEF LevelsOf
  <1>7. \A k \in T : \E l \in lemma \ {uip} : LevelOf(l) = k
    BY DEF LevelsOf
  <1>8. BacktrackLevel = CHOOSE k \in T : \A m \in T : m <= k
    BY DEF BacktrackLevel
  <1> HIDE DEF T
  <1>9. \E k \in T : \A m \in T : m <= k
    BY <1>1, <1>5, Greatest
  <1>10. BacktrackLevel \in T /\ \A m \in T : m <= BacktrackLevel
    BY <1>8, <1>9
  <1> QED
    BY <1>2, <1>3, <1>4, <1>6, <1>7, <1>10

LEMMA BackjumpStep ==
  ASSUME SearchIInv, Backjump
  PROVE  SearchIInv'
  <1> USE DEF SearchIInv, Backjump
  <1> DEFINE k == BacktrackLevel
  <1>1. /\ CoreIInv /\ TrailIInv /\ TrailShape /\ StoreShape /\ EligibleRight /\ Implied /\ Kept
        /\ pc = "lemma" /\ pc' = "assert" /\ Undo(k) /\ lemma # {uip} /\ lemma' = lemma
        /\ uip' = uip /\ Len(limits) >= 3 /\ ~busy /\ active' = active
        /\ UNCHANGED <<problem, maxVar, detectedUnsat, scheduled, facts, assumed, eligible>>
        /\ OnTrail(facts, 0) /\ OnTrail(LitSet(assumed), 1)
    BY DEF CoreIInv, TrailIInv, ControlShape, Undo, input, call, derived, FactsOnTrail,
           AssumptionsOnTrail
  <1>2. /\ uip \in lemma
        /\ \E l \in lemma \ {uip} : LevelOf(l) = k
        /\ \A l \in lemma \ {uip} : LevelOf(l) <= k
        /\ k \in 0 .. CurrentLevel /\ k # CurrentLevel
    BY <1>1, BacktrackLevelRight
  <1> HIDE DEF k
  <1>3. /\ TrailIInv'
        /\ k \in 0 .. Len(limits) - 2
        /\ Len(assigned') = limits[k + 2] /\ limits[k + 2] \in 0 .. Len(assigned)
        /\ \A i \in 1 .. Len(assigned') : assigned'[i] = assigned[i] /\ because'[i] = because[i]
        /\ Len(limits') = k + 1 /\ \A j \in 1 .. k + 1 : limits'[j] = limits[j]
    BY <1>1, UndoStep
  <1>4. Len(assigned) \in Nat /\ Len(limits) \in Nat
    BY <1>1, TrailTypes
  <1>5. \A i \in 1 .. Len(assigned') : i \in 1 .. Len(assigned)
    BY <1>3, <1>4
  <1>6. /\ lemma \subseteq Lits /\ Entails(problem, lemma) /\ \A l \in lemma : False(l)
        /\ OnLevel(lemma, CurrentLevel) = {uip}
    BY <1>1 DEF LemmaRight
  <1>7. Proper(lemma) /\ lemma \in ClauseSets
    <2>1. ~Tautology(lemma)
      <3> SUFFICES ASSUME NEW l \in lemma, Neg(l) \in lemma
                   PROVE  FALSE
        BY DEF Tautology
      <3>1. l \in Lits /\ Neg(Neg(l)) = l /\ False(l) /\ False(Neg(l))
        BY <1>6, LitFacts
      <3> QED
        BY <1>1, <3>1, Consistent DEF False, True
    <2>2. ~(\E l : lemma = {l})
      BY <1>1, <1>2
    <2> QED
      BY <1>2, <1>6, <2>1, <2>2, ClauseKinds
  <1>8. \A l \in lemma : VarOf(l) <= maxVar
    BY <1>1, <1>6, LitFacts DEF StoreShape, False, True
  <1>9. /\ db \subseteq db' /\ db' \cup lemmas' = db \cup lemmas \cup {lemma}
        /\ Stored' = Stored \cup {lemma} /\ lemma \in db' \cup lemmas'
    BY <1>1 DEF Stored
  <1>10. StoreShape'
    <2>1. \A i \in 1 .. Len(assigned') : VarOf(assigned'[i]) <= maxVar
      BY <1>1, <1>3, <1>5 DEF StoreShape
    <2> QED
      BY <1>1, <1>7, <1>8, <1>9, <2>1 DEF StoreShape, Known, LitSet
  <1>11. DecisionsPlaced'
    BY <1>1, UndoKeeps
  <1>12. EligibleRight'
    BY <1>1 DEF EligibleRight
  <1>13. Kept'
    BY <1>1, <1>9, KeptMore
  <1>14. Implied'
    <2>1. problem' = problem /\ Assuming' = Assuming /\ facts' = facts
      BY <1>1 DEF Assuming
    <2>2. /\ \A i \in 1 .. Len(assigned') : UpToLevel(0, i)' => Entails(problem, {assigned'[i]})
          /\ \A i \in 1 .. Len(assigned') : UpToLevel(1, i)' => Entails(Assuming, {assigned'[i]})
      BY <1>1, UndoKeeps
    <2>3. \A C \in (Stored \cup UnitsOf(facts))' : Entails(problem, C)
      BY <1>1, <1>6, <1>9, <2>1 DEF Implied
    <2> QED
      BY <2>1, <2>2, <2>3 DEF Implied
  <1>15. ControlTypes'
    BY <1>1 DEF ControlTypes, input, outcome
  <1>16. ControlShape'
    BY <1>1 DEF ControlShape, Undo, Ready, outcome
  <1>17. FactsOnTrail' /\ AssumptionsOnTrail'
    <2>1. OnTrail(facts, 0)' /\ (k >= 1 => OnTrail(LitSet(assumed), 1)')
      BY <1>1, UndoKeeps
    <2>2. Len(limits') >= 2 => k >= 1
      BY <1>3
    <2> QED
      BY <1>1, <2>1, <2>2 DEF FactsOnTrail, AssumptionsOnTrail
  <1>18. \A l \in lemma : /\ Position(l) \in 1 .. Len(assigned)
                          /\ assigned[Position(l)] = Neg(l)
                          /\ LevelOf(l) = LevelAt(Position(l))
    BY <1>1, <1>4, <1>6, FalseLiteral, Unassignable
  <1>19. \A l \in lemma \ {uip} : False(l)'
    <2> TAKE l \in lemma \ {uip}
    <2>1. UpToLevel(k, Position(l))
      BY <1>1, <1>2, <1>3, <1>18, LevelsOfPrefixes
    <2>2. Position(l) \in 1 .. Len(assigned')
      <3>1. k \in Nat /\ k <= k
        BY <1>3
      <3> QED
        BY <1>1, <1>18, <2>1, <3>1, UndoUpTo
    <2> QED
      BY <1>3, <1>18, <2>2 DEF False, True
  <1>20. Unassigned(uip)'
    <2>1. ASSUME NEW i \in 1 .. Len(assigned'), assigned'[i] = uip \/ assigned'[i] = Neg(uip)
          PROVE  FALSE
      <3>1. i \in 1 .. Len(assigned) /\ assigned[i] = assigned'[i]
        BY <1>3, <1>5
      <3>2. VarOf(assigned[i]) = VarOf(assigned[Position(uip)])
        BY <1>2, <1>6, <1>18, <2>1, <3>1, LitFacts
      <3>3. i = Position(uip)
        BY <1>1, <1>2, <1>18, <3>1, <3>2 DEF TrailShape
      <3>4. LevelAt(i) = CurrentLevel
        BY <1>2, <1>6, <1>18, <3>3 DEF OnLevel
      <3>5. ~UpToLevel(k, i)
        BY <1>1, <1>2, <1>3, <3>1, <3>4, LevelsOfPrefixes, Levels DEF CurrentLevel
      <3>6. i <= limits[k + 2]
        BY <1>3, <1>4
      <3> QED
        BY <3>5, <3>6 DEF UpToLevel
    <2> QED
      BY <1>1, <2>1 DEF Unassigned, False, True
  <1>21. Forces(lemma, uip)'
    BY <1>1, <1>2, <1>19, <1>20 DEF Forces
  <1>22. \E l \in lemma \ {uip} : ~FalseBy(l, limits[Len(limits)])'
    <2>1. PICK l \in lemma \ {uip} : LevelOf(l) = k
      BY <1>2
    <2>2. limits'[Len(limits')] = limits[k + 1] /\ Len(assigned') >= limits[k + 1]
      <3>1. k + 1 \in 1 .. Len(limits) /\ k + 2 \in 1 .. Len(limits)
        BY <1>3, <1>4
      <3> QED
        BY <1>1, <1>3, <1>4, <3>1 DEF TrailShape
    <2>3. limits[k + 1] < Position(l)
      <3>1. CASE k = 0
        <4>1. limits[1] = 0 /\ Position(l) \in 1 .. Len(assigned)
          BY <1>1, <1>18 DEF TrailShape
        <4> QED
          BY <3>1, <4>1
      <3>2. CASE k # 0
        <4>1. k \in 1 .. CurrentLevel /\ LevelAt(Position(l)) >= k
          BY <1>2, <1>3, <1>18, <2>1, <3>2 DEF CurrentLevel
        <4> QED
          BY <1>1, <1>18, <4>1, Levels
      <3> QED
        BY <3>1, <3>2
    <2>4. \A p \in 1 .. limits[k + 1] : assigned'[p] # Neg(l)
      <3> SUFFICES ASSUME NEW p \in 1 .. limits[k + 1], assigned'[p] = Neg(l)
                   PROVE  FALSE
        OBVIOUS
      <3>1. limits[k + 1] \in Nat
        BY <1>1, <1>3, <1>4, TrailTypes
      <3>2. p \in 1 .. Len(assigned') /\ p \in 1 .. Len(assigned)
        BY <1>3, <1>4, <2>2, <3>1
      <3>3. assigned[p] = assigned[Position(l)]
        BY <1>3, <1>18, <3>2
      <3>4. p = Position(l)
        BY <1>1, <1>18, <3>2, <3>3, Consistent
      <3> QED
        BY <2>3, <3>1, <3>4
    <2> QED
      BY <2>2, <2>4 DEF FalseBy
  <1>23. LemmaRight'
    BY <1>1, <1>9, <1>21, <1>22 DEF LemmaRight
  <1> QED
    BY <1>1, <1>3, <1>10, <1>11, <1>12, <1>13, <1>14, <1>15, <1>16, <1>17, <1>23
       DEF CoreIInv, AnswerRight
----------------------------------------------------------------------------
(* Steps that change the clauses while the trail is empty.                 *)

LEMMA FreshCore ==
  ASSUME TrailIInv, Fresh, UNCHANGED <<assigned, because, limits, busy, falsified>>,
         ActiveProper'
  PROVE  /\ TrailIInv' /\ Fresh' /\ DecisionsPlaced'
         /\ \A i : i \notin 1 .. Len(assigned')
  <1>1. assigned = <<>> /\ limits = <<0>> /\ busy = FALSE /\ falsified = {} /\ because = <<>>
    <2>1. because \in Seq(SUBSET Lits) /\ Len(because) = Len(assigned) /\ Len(assigned) = 0
      BY DEF TrailIInv, TrailShape, Fresh
    <2>2. because = <<>>
      BY <2>1, EmptySeq
    <2> QED
      BY <2>2 DEF TrailIInv, ConflictRight, Fresh, Ready
  <1>2. EmptyTrail'
    BY <1>1 DEF EmptyTrail
  <1>3. EmptyTrail' => TrailIInv'
    BY EmptyTrailRight, PTL
  <1>4. \A i : i \notin 1 .. Len(assigned')
    BY <1>1
  <1>5. DecisionsPlaced'
    BY <1>4 DEF DecisionsPlaced
  <1>6. Fresh'
    BY <1>1 DEF Fresh, Ready
  <1> QED
    BY <1>2, <1>3, <1>4, <1>5, <1>6

LEMMA StartSolveStep ==
  ASSUME SearchIInv, NEW A \in Assumptions, StartSolve(A)
  PROVE  SearchIInv'
  <1> USE DEF SearchIInv, StartSolve
  <1>1. /\ TrailIInv /\ StoreShape /\ Implied /\ Kept /\ Fresh
        /\ pc = "idle" /\ pc' = "restart" /\ ~hadError /\ ~detectedUnsat /\ assumed' = A
        /\ active' = db \cup lemmas \cup scheduled
        /\ UNCHANGED <<assigned, because, limits, busy, falsified>>
        /\ UNCHANGED <<problem, detectedUnsat, db, lemmas, scheduled, facts, hadError>>
        /\ eligible' = EligibleFor(maxVar', A)
    BY DEF CoreIInv, ControlShape, Synchronize, clauseStore
  <1>2. A \in Seq(Lits) /\ LitSet(A) \subseteq Lits /\ (A # <<>> => LitSet(A) # {})
    <2>1. A \in Seq(Lits)
      BY AssumptionsAssumption
    <2>2. A # <<>> => 1 \in 1 .. Len(A)
      BY <2>1, EmptySeq
    <2> QED
      BY <2>1, <2>2 DEF LitSet
  <1>3. /\ maxVar' \in Vars /\ maxVar <= maxVar' /\ maxVar \in Vars
        /\ \A l \in LitSet(A) : VarOf(l) <= maxVar'
    <2>1. CASE A = <<>>
      <3>1. maxVar' = maxVar /\ maxVar \in Vars /\ LitSet(A) = {}
        BY <1>1, <2>1 DEF StoreShape, LitSet
      <3> QED
        BY <3>1, NumVarsAssumption DEF Vars
    <2>2. CASE A # <<>>
      <3>1. GreatestVar(LitSet(A)) \in Vars /\ \A l \in LitSet(A) : VarOf(l) <= GreatestVar(LitSet(A))
        BY <1>2, <2>2, GreatestVarRight
      <3>2. maxVar' = MaxOf(maxVar, GreatestVar(LitSet(A))) /\ maxVar \in Vars
        BY <1>1, <2>2 DEF StoreShape
      <3>3. maxVar' \in Vars /\ maxVar <= maxVar' /\ GreatestVar(LitSet(A)) <= maxVar'
        BY <3>1, <3>2, MaxOfRight
      <3> QED
        BY <1>2, <3>1, <3>2, <3>3, VarLeq
    <2> QED
      BY <2>1, <2>2
  <1>4. \A C \in SUBSET Lits : Known(C) => Known(C)'
    BY <1>3, VarLeq DEF Known
  <1>5. Stored' = db \cup lemmas \cup scheduled /\ Stored' \subseteq Stored
    BY <1>1 DEF Stored
  <1>6. /\ ActiveProper' /\ \A C \in Stored' : Proper(C) /\ Known(C) /\ C \in SUBSET Lits
    BY <1>1, <1>5 DEF StoreShape, ActiveProper, Proper, Stored
  <1>7. TrailIInv' /\ Fresh' /\ DecisionsPlaced' /\ \A i : i \notin 1 .. Len(assigned')
    BY <1>1, <1>6, FreshCore
  <1>8. StoreShape'
    <2>1. facts' \subseteq Lits /\ Known(facts)'
      BY <1>1, <1>4 DEF StoreShape
    <2>2. problem' \subseteq Inputs /\ \A C \in problem' : ~Tautology(C) => Known(C)'
      BY <1>1, <1>4, InputsAssumption DEF StoreShape
    <2>3. detectedUnsat' <=> {} \in problem'
      BY <1>1 DEF StoreShape
    <2>4. Known(LitSet(assumed))'
      BY <1>1, <1>3 DEF Known
    <2>5. db' \cup lemmas' \subseteq active'
      BY <1>1
    <2> QED
      BY <1>1, <1>3, <1>4, <1>6, <1>7, <2>1, <2>2, <2>3, <2>4, <2>5 DEF StoreShape
  <1>9. EligibleRight'
    <2>1. eligible' = (1 .. maxVar') \ {VarOf(l) : l \in LitSet(A)} /\ assumed' = A
      BY <1>1 DEF EligibleFor
    <2> QED
      BY <2>1 DEF EligibleRight
  <1>10. Implied'
    BY <1>1, <1>5, <1>7 DEF Implied
  <1>11. Kept'
    BY <1>1, KeptMore
  <1>12. ControlTypes'
    <2>1. eligible' \subseteq Vars
      BY <1>1, <1>3, NumVarsAssumption DEF EligibleFor, Vars
    <2> QED
      BY <1>1, <2>1 DEF ControlTypes, derived, policy
  <1>13. ControlShape'
    BY <1>1, <1>7 DEF ControlShape
  <1> QED
    BY <1>1, <1>7, <1>8, <1>9, <1>10, <1>11, <1>12, <1>13
       DEF CoreIInv, FactsOnTrail, AssumptionsOnTrail, LemmaRight, AnswerRight

LEMMA ReduceClauseDBStep ==
  ASSUME SearchIInv, NEW S, ReduceClauseDB(S)
  PROVE  SearchIInv'
  <1> USE DEF SearchIInv, ReduceClauseDB
  <1>1. /\ TrailIInv /\ StoreShape /\ EligibleRight /\ Implied /\ Kept /\ Fresh
        /\ pc = "reduce" /\ pc' = "facts"
        /\ lemmas' = lemmas \ S /\ scheduled' = {} /\ active' = db \cup lemmas'
        /\ UNCHANGED <<assigned, because, limits, busy, falsified>>
        /\ UNCHANGED <<problem, maxVar, detectedUnsat, db, facts, hadError, assumed, eligible>>
    BY DEF CoreIInv, ControlShape, Synchronize, input, call
  <1>2. Stored' \subseteq Stored
    BY <1>1 DEF Stored
  <1>3. ActiveProper'
    BY <1>1, <1>2 DEF StoreShape, ActiveProper, Stored
  <1>4. TrailIInv' /\ Fresh' /\ DecisionsPlaced' /\ \A i : i \notin 1 .. Len(assigned')
    BY <1>1, <1>3, FreshCore
  <1>5. StoreShape'
    BY <1>1, <1>2, <1>4 DEF StoreShape, Known, LitSet
  <1>6. EligibleRight'
    BY <1>1 DEF EligibleRight
  <1>7. Implied'
    BY <1>1, <1>2, <1>4 DEF Implied
  <1>8. Kept'
    BY <1>1, KeptMore
  <1>9. ControlTypes'
    <2>1. reductions' \in 0 .. MaxReductions
      BY CountersAssumption DEF ControlTypes
    <2> QED
      BY <1>1, <2>1 DEF ControlTypes, input, call, derived, outcome
  <1>10. ControlShape'
    <2>1. Len(limits') = 1
      BY <1>4 DEF Fresh
    <2> QED
      BY <1>1, <1>4, <2>1 DEF ControlShape, outcome
  <1> QED
    BY <1>1, <1>4, <1>5, <1>6, <1>7, <1>8, <1>9, <1>10
       DEF CoreIInv, FactsOnTrail, AssumptionsOnTrail, LemmaRight, AnswerRight

(* What propagating the facts adds is itself consistent and complete.      *)
LEMMA ConsequencesRight ==
  ASSUME TrailIInv, StoreShape, FactClosures # {}
  PROVE  /\ WithConsequences \in FactClosures
         /\ \A F \in FactClosures : WithConsequences \subseteq F
         /\ Known(WithConsequences)
  <1> DEFINE F == WithConsequences
  <1>1. \A G \in FactClosures : F \subseteq G
    BY DEF WithConsequences
  <1>2. \A l \in Lits : (\A G \in FactClosures : l \in G) => l \in F
    BY DEF WithConsequences
  <1>3. F \subseteq Lits
    BY DEF WithConsequences
  <1> HIDE DEF F
  <1>4. PICK G \in FactClosures : TRUE
    OBVIOUS
  <1>5. F \subseteq G /\ G \in SUBSET Lits /\ (\A l \in G : Neg(l) \notin G) /\ UnitClosed(G)
        /\ facts \subseteq G
    BY <1>1, <1>4 DEF FactClosures, PartialAssignments
  <1>6. facts \subseteq F
    BY <1>2 DEF FactClosures, StoreShape
  <1>7. UnitClosed(F)
    <2> SUFFICES ASSUME NEW C \in active
                 PROVE  /\ \E l \in C : Neg(l) \notin F
                        /\ \A l \in C : (\A m \in C \ {l} : Neg(m) \in F) => l \in F
      BY DEF UnitClosed
    <2>1. \E l \in C : Neg(l) \notin F
      BY <1>5 DEF UnitClosed
    <2>2. ASSUME NEW l \in C, \A m \in C \ {l} : Neg(m) \in F, NEW H \in FactClosures
          PROVE  l \in H
      <3>1. UnitClosed(H) /\ F \subseteq H
        BY <1>1 DEF FactClosures
      <3> QED
        BY <2>2, <3>1 DEF UnitClosed
    <2>3. C \subseteq Lits
      BY DEF TrailIInv, ActiveProper, Proper
    <2> QED
      BY <1>2, <2>1, <2>2, <2>3
  <1>8. F \in FactClosures
    BY <1>3, <1>5, <1>6, <1>7 DEF FactClosures, PartialAssignments
  <1>9. Known(F)
    <2> DEFINE H == {l \in G : VarOf(l) <= maxVar}
    <2>1. H \in SUBSET Lits /\ H \subseteq G /\ \A l \in H : Neg(l) \notin H
      BY <1>5
    <2>2. facts \subseteq H
      BY <1>5 DEF StoreShape, Known
    <2>3. \A l \in H : VarOf(l) <= maxVar
      OBVIOUS
    <2>4. \A l \in G : VarOf(l) <= maxVar => l \in H
      OBVIOUS
    <2> HIDE DEF H
    <2>5. UnitClosed(H)
      <3> SUFFICES ASSUME NEW C \in active
                   PROVE  /\ \E l \in C : Neg(l) \notin H
                          /\ \A l \in C : (\A m \in C \ {l} : Neg(m) \in H) => l \in H
        BY DEF UnitClosed
      <3>1. \E l \in C : Neg(l) \notin H
        BY <1>5, <2>1 DEF UnitClosed
      <3>2. ASSUME NEW l \in C, \A m \in C \ {l} : Neg(m) \in H
            PROVE  l \in H
        <4>1. l \in G
          BY <1>5, <2>1, <3>2 DEF UnitClosed
        <4>2. VarOf(l) <= maxVar
          BY DEF StoreShape, Stored, Known
        <4> QED
          BY <2>4, <4>1, <4>2
      <3> QED
        BY <3>1, <3>2
    <2>6. H \in FactClosures
      BY <2>1, <2>2, <2>5 DEF FactClosures, PartialAssignments
    <2> QED
      BY <1>1, <2>3, <2>6 DEF Known
  <1> QED
    BY <1>1, <1>8, <1>9 DEF F

(* Cleaning: a clause without a fact loses the literals a fact excludes,   *)
(* and is still one the solver stores.                                     *)
LEMMA ShortenedRight ==
  ASSUME TrailIInv, StoreShape, Implied, NEW F \in FactClosures,
         \A A \in TotalAssignments : Satisfies(A, problem) => F \subseteq A,
         NEW C \in active, C \cap F = {}
  PROVE  /\ Proper(C \ Contradicted(C, F)) /\ Known(C \ Contradicted(C, F))
         /\ Entails(problem, C \ Contradicted(C, F))
  <1> DEFINE D == C \ Contradicted(C, F)
  <1>1. /\ C \in SUBSET Lits /\ (\A l \in C : Neg(l) \notin C) /\ Known(C) /\ Entails(problem, C)
        /\ UnitClosed(F) /\ F \in SUBSET Lits
    BY DEF TrailIInv, ActiveProper, Proper, StoreShape, Stored, Implied, FactClosures,
           PartialAssignments
  <1>2. \A l : l \in D <=> l \in C /\ Neg(l) \notin F
    BY DEF Contradicted
  <1> HIDE DEF D
  <1>3. PICK l \in C : Neg(l) \notin F
    BY <1>1 DEF UnitClosed
  <1>4. l \notin F
    BY <1>3
  <1>5. PICK m \in C \ {l} : Neg(m) \notin F
    BY <1>1, <1>3, <1>4 DEF UnitClosed
  <1>6. Proper(D)
    BY <1>1, <1>2, <1>3, <1>5 DEF Proper
  <1>7. Known(D)
    BY <1>1, <1>2 DEF Known
  <1>8. Entails(problem, D)
    <2> SUFFICES ASSUME NEW A \in TotalAssignments, Satisfies(A, problem)
                 PROVE  A \cap D # {}
      BY DEF Entails
    <2>1. PICK x \in A : x \in C
      BY <1>1 DEF Entails
    <2>2. F \subseteq A /\ x \in Lits
      BY <1>1, <2>1
    <2>3. Neg(x) \notin A
      BY <2>1, <2>2, Opposites
    <2> QED
      BY <1>2, <2>1, <2>2, <2>3
  <1> QED
    BY <1>6, <1>7, <1>8 DEF D

LEMMA SimplifyStep ==
  ASSUME SearchIInv, Simplify
  PROVE  SearchIInv'
  <1> USE DEF SearchIInv
  <1> DEFINE F == WithConsequences
  <1>1. /\ TrailIInv /\ StoreShape /\ EligibleRight /\ Implied /\ Kept /\ Fresh
        /\ pc = "restart" /\ pc' = "reduce" /\ FactClosures # {} /\ ActiveProper
        /\ UNCHANGED <<assigned, because, limits, busy, falsified>>
        /\ UNCHANGED <<problem, maxVar, detectedUnsat, hadError, assumed, eligible>>
    BY DEF CoreIInv, ControlShape, Simplify, input, call, TrailIInv
  <1>2. /\ facts' = F
        /\ db' = Shortened(db, F)
        /\ lemmas' = Shortened(lemmas, F)
        /\ scheduled' = scheduled \cup Satisfied(db \cup lemmas, F)
        /\ active' = Shortened(active, F)
    BY DEF Simplify
  <1> HIDE DEF F
  <1>3. F \in FactClosures /\ (\A G \in FactClosures : F \subseteq G) /\ Known(F)
    BY <1>1, ConsequencesRight DEF F
  <1>4. F \subseteq Lits /\ facts \subseteq F
    BY <1>3 DEF FactClosures, PartialAssignments
  <1>5. \A A \in TotalAssignments : Satisfies(A, problem) => F \subseteq A
    BY <1>1, <1>3, ModelIsClosure
  <1>6. db \cup lemmas \subseteq active
    BY <1>1 DEF StoreShape
  <1>7. \A S : \A D \in Shortened(S, F) :
          \E C \in S : C \cap F = {} /\ D = C \ Contradicted(C, F)
    BY DEF Shortened, Satisfied
  <1>8. \A D \in db' \cup lemmas' \cup active' :
          \E C \in active : C \cap F = {} /\ D = C \ Contradicted(C, F)
    BY <1>2, <1>6, <1>7
  <1>9. \A D \in db' \cup lemmas' \cup active' : Proper(D) /\ Known(D) /\ Entails(problem, D)
    <2>1. \A C \in active : C \cap F = {} =>
            LET D == C \ Contradicted(C, F) IN Proper(D) /\ Known(D) /\ Entails(problem, D)
      BY <1>1, <1>3, <1>5, ShortenedRight
    <2> QED
      BY <1>8, <2>1
  <1>10. \A D \in scheduled' : Proper(D) /\ Known(D) /\ Entails(problem, D)
    <2>1. scheduled' \subseteq Stored
      BY <1>2 DEF Satisfied, Stored
    <2> QED
      BY <1>1, <2>1 DEF StoreShape, Implied
  <1>11. \A D \in Stored' : Proper(D) /\ Known(D) /\ Entails(problem, D)
    BY <1>9, <1>10 DEF Stored
  <1>12. TrailIInv' /\ Fresh' /\ DecisionsPlaced' /\ \A i : i \notin 1 .. Len(assigned')
    <2>1. ActiveProper'
      BY <1>9 DEF ActiveProper
    <2> QED
      BY <1>1, <2>1, FreshCore
  <1>13. StoreShape'
    <2>1. db' \cup lemmas' \subseteq active'
      BY <1>2, <1>6 DEF Shortened, Satisfied
    <2>2. Known(facts)' /\ facts' \subseteq Lits
      BY <1>1, <1>2, <1>3, <1>4 DEF Known
    <2> QED
      BY <1>1, <1>11, <1>12, <2>1, <2>2 DEF StoreShape, Known, LitSet
  <1>14. EligibleRight'
    BY <1>1, <1>2, <1>4 DEF EligibleRight
  <1>15. Implied'
    <2>1. \A C \in UnitsOf(F) : Entails(problem, C)
      BY <1>5, EntailsUnit DEF UnitsOf
    <2> QED
      BY <1>1, <1>2, <1>11, <1>12, <2>1 DEF Implied
  <1>16. Kept'
    <2>1. SUFFICES ASSUME {} \notin problem, NEW A \in TotalAssignments,
                          Satisfies(A, db' \cup UnitsOf(facts'))
                   PROVE  Satisfies(A, problem)
      BY <1>1 DEF Kept
    <2>2. Satisfies(A, db') /\ F \subseteq A
      <3>1. Satisfies(A, db') /\ Satisfies(A, UnitsOf(facts'))
        BY <2>1, SatisfiesBoth
      <3>2. facts' \subseteq A
        BY <3>1, SatisfiesUnits
      <3> QED
        BY <1>2, <3>1, <3>2
    <2>3. ASSUME NEW C \in db
          PROVE  A \cap C # {}
      <3>1. CASE C \cap F # {}
        BY <2>2, <3>1
      <3>2. CASE C \cap F = {}
        <4>1. C \ Contradicted(C, F) \in db'
          BY <1>2, <3>2 DEF Shortened, Satisfied
        <4> QED
          BY <2>2, <4>1 DEF Satisfies
      <3> QED
        BY <3>1, <3>2
    <2>4. Satisfies(A, db) /\ Satisfies(A, UnitsOf(facts))
      BY <1>4, <2>2, <2>3, SatisfiesUnits DEF Satisfies
    <2> QED
      BY <1>1, <2>1, <2>4, SatisfiesBoth DEF Kept
  <1>17. ControlTypes'
    BY <1>1 DEF ControlTypes, Simplify, input, call, derived, policy, outcome
  <1>18. ControlShape'
    BY <1>1, <1>12 DEF ControlShape, Simplify, outcome
  <1> QED
    BY <1>1, <1>12, <1>13, <1>14, <1>15, <1>16, <1>17, <1>18
       DEF CoreIInv, FactsOnTrail, AssumptionsOnTrail, LemmaRight, AnswerRight
----------------------------------------------------------------------------
(* Calls of the client that do not search.                                 *)

LEMMA AddClauseStep ==
  ASSUME SearchIInv, NEW C \in Inputs, AddClause(C)
  PROVE  SearchIInv'
  <1> USE DEF SearchIInv
  <1> DEFINE Dropped == C = {} \/ Tautology(C)
  <1>1. /\ CoreIInv /\ TrailIInv /\ StoreShape /\ Implied /\ Kept /\ pc = "idle" /\ pc' = "idle"
        /\ UNCHANGED absVars
        /\ UNCHANGED <<active, assigned, because, limits, busy, falsified, lemmas, scheduled,
                       hadError>>
        /\ problem' = problem \cup {C} /\ C \in SUBSET Lits
        /\ detectedUnsat' = (detectedUnsat \/ C = {}) /\ verdict' = "none"
    BY InputsAssumption DEF CoreIInv, AddClause, absVars
  <1>2. Dropped => UNCHANGED <<facts, db, maxVar>>
    BY DEF AddClause
  <1>3. ~Dropped => /\ facts' = IF Cardinality(C) = 1 THEN facts \cup C ELSE facts
                    /\ db' = IF Cardinality(C) = 1 THEN db ELSE db \cup {C}
                    /\ maxVar' = MaxOf(maxVar, GreatestVar(C))
    BY DEF AddClause
  <1>4. ~Dropped => /\ Cardinality(C) = 1 => \E l : C = {l}
                    /\ Cardinality(C) # 1 => Proper(C)
    BY <1>1, ClauseKinds
  <1>5. /\ maxVar' \in Vars /\ maxVar <= maxVar' /\ maxVar \in Vars
        /\ ~Dropped => \A l \in C : VarOf(l) <= maxVar'
    <2>1. CASE Dropped
      BY <1>1, <1>2, <2>1, NumVarsAssumption DEF StoreShape, Vars
    <2>2. CASE ~Dropped
      <3>1. GreatestVar(C) \in Vars /\ \A l \in C : VarOf(l) <= GreatestVar(C)
        BY <1>1, <2>2, GreatestVarRight
      <3>2. maxVar' = MaxOf(maxVar, GreatestVar(C)) /\ maxVar \in Vars
        BY <1>1, <1>3, <2>2 DEF StoreShape
      <3>3. maxVar' \in Vars /\ maxVar <= maxVar' /\ GreatestVar(C) <= maxVar'
        BY <3>1, <3>2, MaxOfRight
      <3> QED
        BY <1>1, <3>1, <3>2, <3>3, VarLeq
    <2> QED
      BY <2>1, <2>2
  <1>6. \A D \in SUBSET Lits : Known(D) => Known(D)'
    BY <1>5, VarLeq DEF Known
  <1>7. ~Dropped => Known(C)'
    BY <1>5 DEF Known
  <1>8. \A f \in facts' : f \in facts \/ (~Dropped /\ C = {f})
    BY <1>2, <1>3, <1>4
  <1>9. \A D \in Stored' : D \in Stored \/ (~Dropped /\ D = C /\ Proper(C))
    BY <1>1, <1>2, <1>3, <1>4 DEF Stored
  <1> HIDE DEF Dropped
  <1>10. TrailIInv'
    BY <1>1, SameTrail
  <1>11. StoreShape'
    <2>1. \A D \in Stored' : Proper(D) /\ Known(D)'
      <3>1. \A D \in Stored : Proper(D) /\ Known(D) /\ D \in SUBSET Lits
        BY <1>1 DEF StoreShape, Proper
      <3> QED
        BY <1>6, <1>7, <1>9, <3>1
    <2>2. facts' \subseteq Lits /\ Known(facts)'
      <3>1. facts \subseteq Lits
        BY <1>1 DEF StoreShape
      <3>2. \A f \in facts' : f \in Lits /\ VarOf(f) <= maxVar'
        <4>1. \A f \in facts : VarOf(f) <= maxVar'
          BY <1>1, <1>5, VarLeq DEF StoreShape, Known
        <4> QED
          BY <1>1, <1>5, <1>8, <3>1, <4>1
      <3> QED
        BY <3>2 DEF Known
    <2>3. \A i \in 1 .. Len(assigned') : VarOf(assigned'[i]) <= maxVar'
      BY <1>1, <1>5, VarLeq, TrailTypes DEF StoreShape, TrailIInv
    <2>4. problem' \subseteq Inputs /\ \A D \in problem' : ~Tautology(D) => Known(D)'
      <3>1. \A D \in problem : D \in SUBSET Lits /\ (~Tautology(D) => Known(D))
        BY <1>1, InputsAssumption DEF StoreShape
      <3>2. ~Tautology(C) => Known(C)'
        BY <1>7 DEF Dropped, Known
      <3> QED
        BY <1>1, <1>6, <3>1, <3>2 DEF StoreShape
    <2>5. detectedUnsat' <=> {} \in problem'
      BY <1>1 DEF StoreShape
    <2> QED
      BY <1>1, <1>5, <2>1, <2>2, <2>3, <2>4, <2>5 DEF StoreShape
  <1>12. DecisionsPlaced' /\ EligibleRight'
    BY <1>1 DEF DecisionsPlaced, EligibleRight
  <1>13. Implied'
    <2>1. \A D : Entails(problem, D) => Entails(problem', D)
      BY <1>1, EntailsMore
    <2>2. Entails(problem', C)
      BY <1>1 DEF Entails, Satisfies
    <2>3. \A D \in Stored' : Entails(problem', D)
      BY <1>1, <1>9, <2>1, <2>2 DEF Implied
    <2>4. \A f \in facts' : Entails(problem', {f})
      <3>1. \A f \in facts : Entails(problem', {f})
        BY <1>1, <2>1 DEF Implied, UnitsOf
      <3> QED
        BY <1>8, <2>2, <3>1
    <2>5. \A D \in UnitsOf(facts') : Entails(problem', D)
      BY <2>4 DEF UnitsOf
    <2>6. \A i \in 1 .. Len(assigned) : UpToLevel(0, i)' => Entails(problem', {assigned[i]})
      BY <1>1, <2>1 DEF Implied, UpToLevel
    <2> QED
      BY <1>1, <2>3, <2>5, <2>6 DEF Implied
  <1>14. Kept'
    <2>1. SUFFICES ASSUME {} \notin problem', NEW A \in TotalAssignments,
                          Satisfies(A, db' \cup UnitsOf(facts'))
                   PROVE  Satisfies(A, problem')
      BY DEF Kept
    <2>2. Satisfies(A, db') /\ facts' \subseteq A
      <3>1. Satisfies(A, db') /\ Satisfies(A, UnitsOf(facts'))
        BY <2>1, SatisfiesBoth
      <3> QED
        BY <3>1, SatisfiesUnits
    <2>3. db \subseteq db' /\ facts \subseteq facts'
      BY <1>2, <1>3
    <2>4. Satisfies(A, problem)
      <3>1. Satisfies(A, db) /\ Satisfies(A, UnitsOf(facts))
        BY <2>2, <2>3, SatisfiesUnits DEF Satisfies
      <3> QED
        BY <1>1, <2>1, <3>1, SatisfiesBoth DEF Kept
    <2>5. A \cap C # {}
      <3>1. CASE Dropped
        <4>1. PICK l \in C : Neg(l) \in C
          BY <1>1, <2>1, <3>1 DEF Dropped, Tautology
        <4> QED
          BY <1>1, <4>1, Opposites
      <3>2. CASE ~Dropped /\ Cardinality(C) = 1
        BY <1>3, <1>4, <2>2, <3>2
      <3>3. CASE ~Dropped /\ Cardinality(C) # 1
        BY <1>3, <2>2, <3>3 DEF Satisfies
      <3> QED
        BY <3>1, <3>2, <3>3
    <2> QED
      BY <1>1, <2>4, <2>5 DEF Satisfies
  <1>15. ControlTypes'
    BY <1>1 DEF ControlTypes, AddClause, call, derived, policy
  <1>16. ControlShape'
    BY <1>1 DEF ControlShape, Fresh, Ready
  <1> QED
    BY <1>1, <1>10, <1>11, <1>12, <1>13, <1>14, <1>15, <1>16
       DEF CoreIInv, FactsOnTrail, AssumptionsOnTrail, LemmaRight, AnswerRight

LEMMA SolveImmediatelyStep ==
  ASSUME SearchIInv, NEW A \in Assumptions, SolveImmediately(A)
  PROVE  SearchIInv'
  <1> USE DEF SearchIInv, SolveImmediately
  <1>1. /\ CoreIInv /\ TrailIInv /\ StoreShape /\ pc = "idle" /\ pc' = "idle" /\ assumed' = A
        /\ UNCHANGED <<active, assigned, because, limits, busy, falsified, problem, maxVar,
                       detectedUnsat, db, lemmas, scheduled, facts, hadError>>
    BY DEF CoreIInv, absVars, input, clauseStore
  <1>2. TrailIInv'
    BY <1>1, SameTrail DEF absVars
  <1>3. StoreShape'
    BY <1>1 DEF StoreShape, Stored, Known
  <1>4. DecisionsPlaced' /\ EligibleRight'
    BY <1>1 DEF DecisionsPlaced, EligibleRight
  <1>5. Implied' /\ Kept'
    BY <1>1 DEF CoreIInv, Implied, Kept, Stored, UpToLevel
  <1>6. ControlTypes'
    BY <1>1 DEF ControlTypes, input, derived, policy
  <1>7. ControlShape'
    BY <1>1 DEF ControlShape, Fresh, Ready
  <1>8. AnswerRight'
    <2>1. verdict' = "unsat" => {} \in problem
      BY <1>1 DEF StoreShape
    <2>2. \A F : {} \in F => ~Satisfiable(F)
      BY DEF Satisfiable, Satisfies
    <2>3. verdict' = "unsat" => ~Satisfiable(problem') /\ ~Satisfiable(Assuming')
      BY <1>1, <2>1, <2>2 DEF Assuming
    <2>4. verdict' # "sat"
      OBVIOUS
    <2> QED
      BY <1>1, <2>3, <2>4 DEF AnswerRight, Refuted
  <1> QED
    BY <1>1, <1>2, <1>3, <1>4, <1>5, <1>6, <1>7, <1>8
       DEF CoreIInv, FactsOnTrail, AssumptionsOnTrail, LemmaRight
----------------------------------------------------------------------------
(* The invariant.                                                          *)

LEMMA SearchInitRight ==
  ASSUME SearchInit
  PROVE  SearchIInv
  <1> USE DEF SearchInit
  <1>1. /\ assigned = <<>> /\ because = <<>> /\ limits = <<0>> /\ busy = FALSE /\ falsified = {}
        /\ active = {} /\ assumed = <<>> /\ {} \notin problem /\ Stored = {}
    BY DEF Init, Stored
  <1>2. TrailIInv
    BY <1>1, EmptyTrailRight DEF EmptyTrail, ActiveProper
  <1>3. \A i : i \notin 1 .. Len(assigned)
    BY <1>1
  <1>4. StoreShape
    BY <1>1, <1>3, NumVarsAssumption DEF StoreShape, Known, Vars
  <1>5. DecisionsPlaced /\ EligibleRight
    BY DEF DecisionsPlaced, EligibleRight
  <1>6. Implied
    BY <1>1, <1>3 DEF Implied, UnitsOf
  <1>7. Kept
    BY DEF Kept, Satisfies
  <1>8. ControlTypes
    <2>1. conflicts \in 0 .. CheckInterval - 1 /\ reductions \in 0 .. MaxReductions /\ next \in Nat \ {0}
      BY CountersAssumption
    <2>2. {detectedUnsat, hadError, stopRequested, mayRestart} \subseteq BOOLEAN
      OBVIOUS
    <2> QED
      BY <1>1, <2>1, <2>2 DEF ControlTypes
  <1>9. ControlShape
    BY <1>1 DEF ControlShape, Fresh, Ready
  <1>10. FactsOnTrail /\ AssumptionsOnTrail /\ LemmaRight /\ AnswerRight
    BY DEF FactsOnTrail, AssumptionsOnTrail, LemmaRight, AnswerRight
  <1> QED
    BY <1>2, <1>4, <1>5, <1>6, <1>7, <1>8, <1>9, <1>10 DEF SearchIInv, CoreIInv

LEMMA StutterStep ==
  ASSUME SearchIInv, UNCHANGED searchVars
  PROVE  SearchIInv'
  <1>1. UNCHANGED <<active, assigned, because, limits, busy, falsified, problem, maxVar,
                    detectedUnsat, db, lemmas, scheduled, facts, hadError, assumed, eligible, next,
                    pc, lemma, uip, conflicts, mayRestart, reductions, verdict, model, failed,
                    stopRequested>>
    BY DEF searchVars, absVars, input, clauseStore, call, derived, policy, outcome
  <1>2. CoreIInv'
    <2>1. CoreIInv /\ pc' = pc /\ lemma' = lemma
      BY <1>1 DEF SearchIInv
    <2>2. UNCHANGED <<absVars, input, clauseStore, call>>
      BY DEF searchVars
    <2> QED
      BY <2>1, <2>2, SteadyCore
  <1>3. ControlTypes'
    BY <1>1 DEF SearchIInv, ControlTypes
  <1>4. ControlShape' /\ FactsOnTrail' /\ AssumptionsOnTrail'
    BY <1>1 DEF SearchIInv, ControlShape, FactsOnTrail, AssumptionsOnTrail, OnTrail, Fresh, Ready,
                UpToLevel, True
  <1>5. LemmaRight'
    BY <1>1 DEF SearchIInv, LemmaRight, Entails, Satisfies, False, True, OnLevel, LevelOf, LevelAt,
                Position, CurrentLevel, Forces, Unassigned, FalseBy
  <1>6. AnswerRight'
    BY <1>1 DEF SearchIInv, AnswerRight, SatisfiedBy, Refuted, Assuming, TrueLits
  <1> QED
    BY <1>2, <1>3, <1>4, <1>5, <1>6 DEF SearchIInv

(* The invariant is inductive, and holds in every behaviour of the driver. *)
THEOREM SearchInvariant == SearchSpec => []SearchIInv
  <1>1. SearchInit => SearchIInv
    BY SearchInitRight
  <1>2. SearchIInv /\ [SearchNext]_searchVars => SearchIInv'
    <2> SUFFICES ASSUME SearchIInv, [SearchNext]_searchVars
                 PROVE  SearchIInv'
      OBVIOUS
    <2>1. CASE Client
      BY <2>1, AddClauseStep, SolveImmediatelyStep, StartSolveStep DEF Client
    <2>2. CASE Stop
      BY <2>2, StopStep
    <2>3. CASE Solver
      <3>1. CASE Propagate \/ LoopStopped \/ Simplify \/ FactsInconsistent \/ SkipSimplification
        BY <3>1, PropagateStep, LoopStoppedStep, SimplifyStep, FactsInconsistentStep,
           SkipSimplificationStep
      <3>2. CASE (\E S \in SUBSET lemmas : ReduceClauseDB(S)) \/ KeepClauseDB
        BY <3>2, ReduceClauseDBStep, KeepClauseDBStep
      <3>3. CASE (\E f \in facts : PropagateFact(f)) \/ FactFails \/ FactsPropagated
        BY <3>3, PropagateFactStep, FactFailsStep, FactsPropagatedStep
      <3>4. CASE PropagateAssumption \/ AssumptionHolds \/ AssumptionFails \/ AssumptionsPropagated
        BY <3>4, PropagateAssumptionStep, AssumptionHoldsStep, AssumptionFailsStep,
           AssumptionsPropagatedStep
      <3>5. CASE Complete \/ NewDecisionLevel \/ \E l \in Lits : Branch(l)
        BY <3>5, CompleteStep, NewDecisionLevelStep, BranchStep
      <3>6. CASE DeriveLemma \/ LearnFact \/ Backjump \/ RegisterLemma \/ OutOfMemory
        BY <3>6, DeriveLemmaStep, LearnFactStep, BackjumpStep, RegisterLemmaStep, OutOfMemoryStep
      <3>7. CASE RestartSearch \/ SearchStopped \/ ContinueSearch \/ Return
        BY <3>7, RestartSearchStep, SearchStoppedStep, ContinueSearchStep, ReturnStep
      <3> QED
        BY <2>3, <3>1, <3>2, <3>3, <3>4, <3>5, <3>6, <3>7 DEF Solver
    <2>4. CASE UNCHANGED searchVars
      BY <2>4, StutterStep
    <2> QED
      BY <2>1, <2>2, <2>3, <2>4 DEF SearchNext
  <1> QED
    BY <1>1, <1>2, PTL DEF SearchSpec
----------------------------------------------------------------------------
(* What the invariant says of the driver.                                  *)

(* Every variable has a value of its type: what is stored, propagated or   *)
(* derived is a clause of at least two literals without repeated variables.*)
THEOREM SearchTypes == SearchSpec => []SearchTypeOK
  <1>1. SearchIInv => SearchTypeOK
    <2> SUFFICES ASSUME SearchIInv
                 PROVE  SearchTypeOK
      OBVIOUS
    <2> USE DEF SearchIInv, CoreIInv, TrailIInv
    <2>1. active \subseteq ClauseSets
      BY ProperStored DEF ActiveProper
    <2>2. because \in Seq(ClauseSets \cup {{}})
      <3>1. because \in Seq(SUBSET Lits) /\ Len(because) = Len(assigned)
        BY DEF TrailShape
      <3>2. \A i \in 1 .. Len(because) : because[i] \in ClauseSets \cup {{}}
        BY <2>1, <3>1 DEF ReasonsRight
      <3> QED
        BY <3>1, <3>2, ElementOfSeq, SeqDef
    <2>3. PropagationTypes
      BY <2>1, <2>2 DEF PropagationTypes, TrailShape, ConflictRight
    <2>4. StoreTypes
      BY ProperStored DEF StoreShape, StoreTypes, Stored
    <2> QED
      BY <2>3, <2>4 DEF SearchTypeOK
  <1> QED
    BY <1>1, SearchInvariant, PTL

(* createSolvingResult(): a returned model satisfies all that was added    *)
(* and assumed, and "unsatisfiable" is never said of a satisfiable problem.*)
THEOREM SearchVerdictSound == SearchSpec => []VerdictSound
  <1>1. SearchIInv => VerdictSound
    BY DEF SearchIInv, AnswerRight, SatisfiedBy, Refuted, Assuming, VerdictSound
  <1> QED
    BY <1>1, SearchInvariant, PTL

(* Learning, cleaning, reducing and renewed solving lose no clause of the  *)
(* problem and add no restriction to it.                                   *)
THEOREM SearchProblemPreserved == SearchSpec => []ProblemPreserved
  <1>1. SearchIInv => ProblemPreserved
    <2> SUFFICES ASSUME SearchIInv, {} \notin problem
                 PROVE  ModelsOf(db \cup UnitsOf(facts)) = ModelsOf(problem)
      BY DEF ProblemPreserved
    <2>1. ASSUME NEW A \in TotalAssignments, Satisfies(A, db \cup UnitsOf(facts))
          PROVE  Satisfies(A, problem)
      BY <2>1 DEF SearchIInv, CoreIInv, Kept
    <2>2. ASSUME NEW A \in TotalAssignments, Satisfies(A, problem)
          PROVE  Satisfies(A, db \cup UnitsOf(facts))
      <3>1. facts \subseteq A /\ \A C \in db : A \cap C # {}
        BY <2>2, ModelsAgree DEF SearchIInv, CoreIInv, Stored
      <3>2. Satisfies(A, db) /\ Satisfies(A, UnitsOf(facts))
        BY <3>1, SatisfiesUnits DEF Satisfies
      <3> QED
        BY <3>2, SatisfiesBoth
    <2> QED
      BY <2>1, <2>2 DEF ModelsOf
  <1> QED
    BY <1>1, SearchInvariant, PTL

(* Whatever is stored or propagated follows from the problem, even what    *)
(* was learnt under assumptions.                                           *)
THEOREM SearchStoreImplied == SearchSpec => []StoreImplied
  <1>1. SearchIInv => StoreImplied
    BY ModelsAgree DEF SearchIInv, CoreIInv, StoreImplied, Stored, Satisfies, ModelsOf
  <1> QED
    BY <1>1, SearchInvariant, PTL

(* deriveLemma() and optimizeLemma() give an implied clause, false under   *)
(* the trail and with exactly one literal of the current level.            *)
THEOREM SearchLemmaAsserting == SearchSpec => []LemmaAsserting
  <1>1. SearchIInv => LemmaAsserting
    BY DEF SearchIInv, LemmaRight, LemmaAsserting
  <1> QED
    BY <1>1, SearchInvariant, PTL

(* A derived lemma is subsumed by no clause and has no fact.               *)
THEOREM SearchLemmaNew == SearchSpec => []LemmaNew
  <1>1. SearchIInv => LemmaNew
    <2> SUFFICES ASSUME SearchIInv, pc = "lemma"
                 PROVE  (\A C \in active : ~(C \subseteq lemma)) /\ lemma \cap facts = {}
      BY DEF LemmaNew
    <2> USE DEF SearchIInv, CoreIInv
    <2>1. /\ lemma \in SUBSET Lits /\ \A l \in lemma : False(l)
          /\ OnLevel(lemma, CurrentLevel) = {uip} /\ Len(limits) >= 3 /\ TrailIInv /\ TrailShape
      BY DEF LemmaRight, ControlShape, TrailIInv
    <2>2. Len(limits) >= 2
      BY <2>1, TrailTypes
    <2>3. \A C \in active : ~(C \subseteq lemma)
      BY <2>1, <2>2, LemmaIsNew
    <2>4. \A f \in facts : True(f) /\ f \in Lits
      BY DEF FactsOnTrail, OnTrail, True, StoreShape
    <2>5. \A l \in Lits : ~(True(l) /\ False(l))
      BY <2>1, Consistent DEF True, False
    <2> QED
      BY <2>1, <2>3, <2>4, <2>5
  <1> QED
    BY <1>1, SearchInvariant, PTL

(* After the backjump registerLemma() finds what it needs: the lemma       *)
(* forces its asserting literal, another literal of it is on the current   *)
(* level and nothing else is left to propagate.                            *)
THEOREM SearchBackjumpRight == SearchSpec => []BackjumpRight
  <1>1. SearchIInv => BackjumpRight
    <2> SUFFICES ASSUME SearchIInv, pc = "assert"
                 PROVE  /\ Forces(lemma, uip)
                        /\ OnLevel(lemma \ {uip}, CurrentLevel) # {}
                        /\ Quiescent
      BY DEF BackjumpRight
    <2> USE DEF SearchIInv, CoreIInv
    <2>1. /\ lemma \in Stored /\ Forces(lemma, uip) /\ Ready /\ TrailIInv /\ TrailShape
          /\ ActiveProper
      BY DEF LemmaRight, ControlShape, Stored, TrailIInv
    <2>2. PICK l \in lemma \ {uip} : ~FalseBy(l, limits[Len(limits)])
      BY DEF LemmaRight
    <2>3. l \in Lits /\ False(l)
      BY <2>1, <2>2 DEF StoreShape, Proper, Forces
    <2>4. LevelOf(l) = CurrentLevel
      BY <2>1, <2>2, <2>3, OnCurrentLevel
    <2>5. OnLevel(lemma \ {uip}, CurrentLevel) # {}
      BY <2>2, <2>4 DEF OnLevel
    <2>6. Quiescent
      <3> SUFFICES ASSUME NEW C \in active
                   PROVE  ~Falsified(C) /\ \A x \in C : ~Forces(C, x)
        BY DEF Quiescent
      <3>1. C \in SUBSET Lits /\ C # {}
        BY <2>1 DEF ActiveProper, Proper
      <3>2. \A x \in C : (\A m \in C \ {x} : False(m)) => True(x)
        <4>1. \A x \in C : (False(x) <=> FalseBy(x, Len(assigned)))
                           /\ (True(x) <=> TrueBy(x, Len(assigned)))
          BY <2>1, <3>1, Unassignable
        <4>2. QuietAt(Len(assigned))
          BY <2>1 DEF TrailIInv, LevelsQuiet
        <4> QED
          BY <4>1, <4>2 DEF QuietAt
      <3>3. \A x \in C : ~(True(x) /\ False(x))
        BY <2>1, <3>1, Consistent DEF True, False
      <3> QED
        BY <3>1, <3>2, <3>3 DEF Falsified, Forces, Unassigned
    <2> QED
      BY <2>1, <2>5, <2>6
  <1> QED
    BY <1>1, SearchInvariant, PTL

(* Conflict analysis starts with two literals of the current level, and no *)
(* reason above level 0 leaves its level.                                  *)
THEOREM SearchConflictsOnLevel == SearchSpec => []ConflictsOnLevel
  <1>1. SearchIInv => ConflictsOnLevel
    <2> SUFFICES ASSUME SearchIInv
                 PROVE  ConflictsOnLevel
      OBVIOUS
    <2> USE DEF SearchIInv, CoreIInv
    <2>1. TrailIInv /\ TrailShape /\ ReasonsRight /\ Len(limits) \in Nat /\ Len(limits) # 0
      BY TrailTypes DEF TrailIInv
    <2>2. ASSUME falsified # {}, ~RestartForced
          PROVE  Cardinality(OnLevel(falsified, CurrentLevel)) >= 2
      <3>1. Len(limits) - 1 # 0
        BY <2>2 DEF RestartForced, CurrentLevel
      <3>2. Len(limits) >= 2
        BY <2>1, <3>1
      <3>3. /\ falsified \in SUBSET Lits
            /\ \E x, y \in OnLevel(falsified, CurrentLevel) : x # y
        BY <2>1, <2>2, <3>2, ConflictOnLevel
      <3>4. OnLevel(falsified, CurrentLevel) \in SUBSET Lits
        BY <3>3 DEF OnLevel
      <3>5. /\ Cardinality(OnLevel(falsified, CurrentLevel)) \in Nat
            /\ ~(Cardinality(OnLevel(falsified, CurrentLevel)) <= 1)
        BY <3>3, <3>4, AtMostOne
      <3> QED
        BY <3>5
    <2>3. ASSUME NEW i \in 1 .. Len(assigned), because[i] # {}, LevelAt(i) > 0
          PROVE  \E l \in because[i] : l # assigned[i] /\ LevelOf(l) = LevelAt(i)
      <3> DEFINE k == LevelAt(i)
      <3>1. k \in 1 .. CurrentLevel /\ limits[k + 1] < i /\ k + 1 \in 2 .. Len(limits)
        <4>1. LevelAt(i) \in 0 .. CurrentLevel
          BY <2>1, Levels
        <4>2. k \in 1 .. CurrentLevel /\ k + 1 \in 2 .. Len(limits)
          BY <2>1, <2>3, <4>1 DEF CurrentLevel
        <4>3. LevelAt(i) >= k <=> limits[k + 1] < i
          BY <2>1, <4>2, Levels
        <4> QED
          BY <4>1, <4>2, <4>3
      <3> HIDE DEF k
      <3>2. PICK m \in because[i] \ {assigned[i]} : ~FalseBy(m, limits[k + 1])
        BY <2>1, <2>3, <3>1 DEF ReasonsRight
      <3>3. /\ Position(m) \in 1 .. Len(assigned) /\ Position(m) < i
            /\ assigned[Position(m)] = Neg(m)
            /\ LevelOf(m) = LevelAt(Position(m))
        BY <2>1, <2>3, <3>2, ReasonPositions
      <3>4. limits[k + 1] \in Nat /\ limits[k + 1] < Position(m)
        <4>1. limits[k + 1] \in Nat
          BY <2>1, <3>1, TrailTypes
        <4>2. ~(Position(m) \in 1 .. limits[k + 1])
          BY <3>2, <3>3 DEF FalseBy
        <4> QED
          BY <3>3, <4>1, <4>2
      <3>5. LevelAt(Position(m)) >= k /\ LevelAt(Position(m)) \in 0 .. CurrentLevel
        BY <2>1, <3>1, <3>3, <3>4, Levels
      <3>6. LevelAt(Position(m)) <= k
        <4>1. ASSUME LevelAt(Position(m)) >= k + 1
              PROVE  FALSE
          <5>1. k + 1 \in 1 .. CurrentLevel /\ k + 1 + 1 \in 1 .. Len(limits)
            BY <2>1, <3>1, <3>5, <4>1 DEF CurrentLevel
          <5>2. limits[k + 1 + 1] < Position(m)
            BY <2>1, <3>3, <4>1, <5>1, Levels
          <5>3. limits[k + 1 + 1] < i
            BY <2>1, <3>3, <5>1, <5>2, TrailTypes
          <5>4. LevelAt(i) >= k + 1
            BY <2>1, <5>1, <5>3, Levels
          <5> QED
            BY <3>1, <5>4 DEF k
        <4> QED
          BY <3>1, <3>5, <4>1
      <3>7. LevelOf(m) = LevelAt(i)
        BY <3>1, <3>3, <3>5, <3>6 DEF k
      <3> QED
        BY <3>2, <3>7
    <2> QED
      BY <2>2, <2>3 DEF ConflictsOnLevel
  <1> QED
    BY <1>1, SearchInvariant, PTL

(* When a branching literal is asked for, an unassigned variable exists    *)
(* and all of them are eligible.                                           *)
THEOREM SearchDecisionPossible == SearchSpec => []DecisionPossible
  <1>1. SearchIInv => DecisionPossible
    <2> SUFFICES ASSUME SearchIInv, pc = "branch"
                 PROVE  /\ Len(assigned) < maxVar
                        /\ \A v \in 1 .. maxVar : Unassigned(v) => v \in eligible
      BY DEF DecisionPossible
    <2> USE DEF SearchIInv, CoreIInv
    <2>1. /\ TrailShape /\ StoreShape /\ Len(assigned) # maxVar /\ Len(limits) >= 3
          /\ Len(assigned) \in Nat /\ Len(limits) \in Nat /\ maxVar \in Nat /\ maxVar \in Vars
      BY TrailTypes, NumVarsAssumption DEF TrailIInv, ControlShape, StoreShape, Vars
    <2>2. Len(assigned) < maxVar
      BY <2>1, TrailVars
    <2>3. \A l \in facts \cup LitSet(assumed) : \E i \in 1 .. Len(assigned) : assigned[i] = l
      BY <2>1 DEF FactsOnTrail, AssumptionsOnTrail, OnTrail
    <2>4. ASSUME NEW v \in 1 .. maxVar, Unassigned(v)
          PROVE  v \in eligible
      <3>1. v \in Lits /\ VarOf(v) = v
        BY <2>1, LitFacts, NumVarsAssumption DEF Vars
      <3>2. \A i \in 1 .. Len(assigned) : VarOf(assigned[i]) # v
        BY <2>1, <2>4, <3>1, Unassignable
      <3> QED
        BY <2>3, <3>2 DEF EligibleRight
    <2> QED
      BY <2>2, <2>4
  <1> QED
    BY <1>1, SearchInvariant, PTL

(* getFailedAssumptions(): they are assumptions, and there are none only   *)
(* when the problem is unsatisfiable by itself.                            *)
THEOREM SearchFailedAssumptionsValid == SearchSpec => []FailedAssumptionsValid
  <1>1. SearchIInv => FailedAssumptionsValid
    BY DEF SearchIInv, AnswerRight, Refuted, FailedAssumptionsValid
  <1> QED
    BY <1>1, SearchInvariant, PTL
=====
