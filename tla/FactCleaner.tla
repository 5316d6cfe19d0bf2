---------------------------- MODULE FactCleaner ----------------------------
(***************************************************************************)
(* The optimizer that clears facts out of the problem                      *)
(* (libjamsat/simplification/optimizers/FactCleaner.cpp), one clause at a  *)
(* time, with the occurrence map it walks over and the certificate it      *)
(* writes to, as the driver calls it between restarts                      *)
(* (trySimplify() in drivers/CDCLSatSolver.cpp).                           *)
(*                                                                         *)
(* The certificate is what a checker of the proof has read: a bag of       *)
(* clauses, since a deletion takes away one copy.  What the solver learns  *)
(* between two calls is left open.  What the assignment does with a clause *)
(* reported to it is the subject of module Assignment.                     *)
(*                                                                         *)
(* Instead of the FactCleaner another optimizer may use the map, of which  *)
(* nothing is said except that it respects the preconditions of the map.   *)
(***************************************************************************)
EXTENDS OccurrenceMap

CONSTANTS
  Problems,         \* the problems: clauses, facts, and the optimizer that works on them
  TouchedClauses,   \* bound: the clauses another optimizer works on
  TouchedLits       \* bound: the literals another optimizer adds and drops

ASSUME ProblemsAssumption ==
  \A p \in Problems :
    /\ p.clauses \in [Clauses -> {C \in SUBSET Lits : Cardinality(C) >= 2}]
    /\ p.facts \subseteq Lits
    /\ p.optimizer \in {"FactCleaner", "other"}

ASSUME TouchedAssumption == TouchedClauses \subseteq Clauses /\ TouchedLits \subseteq Lits

VARIABLES
  problem,      \* the clauses and units the certificate starts with
  facts,        \* m_facts
  proof,        \* the clauses of the certificate
  unsat,        \* inconsistent facts have been detected
  conflicts,    \* m_conflictCount of the statistics is not 0
  unitLemmas,   \* m_unitLemmas of the statistics
  learntFacts,  \* m_learntFactsAfterLastCall
  factsCleaned, \* m_factsAfterLastCall
  pc,           \* "idle", which loop of optimize() runs, or "other" (optimizer)
  next,         \* index of the loop's next fact
  todo          \* what is left of the range the loop over clauses is in

statVars    == <<conflicts, unitLemmas, learntFacts, factsCleaned>>
loopVars    == <<pc, next, todo>>
cleanerVars == <<occVars, problem, facts, proof, unsat, statVars, loopVars>>

UnitsOf(F) == {{l} : l \in F}
Live       == {content[c] : c \in Clauses \ deleted}

(* What the certificate starts with: facts and clauses as they are added.  *)
FirstLines(p) ==
  SetToBag(UnitsOf(p.facts))
    (+) [C \in ToSet(p.clauses) |-> Cardinality({c \in Clauses : p.clauses[c] = C})]

Init ==
  /\ \E p \in Problems :
       /\ content = p.clauses
       /\ pc = IF p.optimizer = "other" THEN "other" ELSE "idle"
       /\ facts \in SetToSeqs(p.facts)
       /\ problem = ToSet(content) \cup UnitsOf(p.facts)
       /\ proof = FirstLines(p)
  /\ deleted = {} /\ modified = {}
  /\ EmptyMap
  /\ unsat = FALSE
  /\ conflicts = FALSE
  /\ unitLemmas = 0 /\ learntFacts = 0 /\ factsCleaned = 0
  /\ next = 1
  /\ todo = <<>>

----------------------------------------------------------------------------
(* Unit propagation of the literals in F over the clauses in S: the least  *)
(* consistent set of literals that has no unit or falsified clause, or     *)
(* none.                                                                   *)
PartialAssignments == {A \in SUBSET Lits : \A l \in A : Neg(l) \notin A}
Closed(A, S) ==
  \A C \in S : /\ \E l \in C : Neg(l) \notin A
               /\ \A l \in C : (\A m \in C \ {l} : Neg(m) \in A) => l \in A
Closures(F, S)     == {A \in PartialAssignments : F \subseteq A /\ Closed(A, S)}
PropagatedNothing(F, S) == F                                    \* faulty variant
Propagated(F, S)   == {l \in Lits : \A A \in Closures(F, S) : l \in A}

(* The trails that appending the literals of the sequence F can give: a    *)
(* literal on them is forced by those before, or the next of F when there  *)
(* is nothing to propagate.                                                *)
Forced(l, A, S) == \E C \in S : l \in C /\ \A m \in C \ {l} : Neg(m) \in A
Trails(F, S) ==
  {s \in SetToSeqs(Propagated(ToSet(F), S)) :
     \A i \in 1 .. Len(s) :
       LET before == {s[j] : j \in 1 .. i - 1}
       IN  \/ Forced(s[i], before, S)
           \/ /\ Closed(before, S)
              /\ \E k \in 1 .. Len(F) : F[k] = s[i] /\ \A j \in 1 .. k - 1 : F[j] \in before}

(* What a checker accepts as an asymmetric tautology: assuming that C is   *)
(* false leads to a conflict by propagation.                               *)
IsAT(C, S) == Closures({Neg(l) : l \in C}, S) = {}

(* deleteClause() of the optimizer: certificate, flag, occurrence map.     *)
DeleteClause(c) ==
  /\ proof' = proof (-) SetToBag({content[c]})
  /\ RemoveClause(c)

(* A clause loses the literal l: the certificate gets the new clause, then *)
(* the deletion of the old one.  The faulty variant deletes the new one.   *)
ShortenMislogged(c, l) ==
  /\ proof' = (proof (+) SetToBag({content[c] \ {l}})) (-) SetToBag({content[c] \ {l}})
  /\ SetModified(c, {}, {l})

Shorten(c, l) ==
  /\ proof' = (proof (+) SetToBag({content[c] \ {l}})) (-) SetToBag({content[c]})
  /\ SetModified(c, {}, {l})

----------------------------------------------------------------------------
(* trySimplify() and the beginning of optimize().                          *)
WantsExecution == ~conflicts \/ unitLemmas > learntFacts

NothingToDo ==
  /\ pc = "idle"
  /\ WantsExecution
  /\ Len(facts) = factsCleaned
  /\ learntFacts' = unitLemmas
  /\ UNCHANGED <<occVars, problem, facts, proof, unsat, conflicts, unitLemmas, factsCleaned, loopVars>>

InconsistentFacts ==
  /\ pc = "idle"
  /\ WantsExecution
  /\ Len(facts) # factsCleaned
  /\ Closures(ToSet(facts), Live) = {}
  /\ unsat' = TRUE
  /\ learntFacts' = unitLemmas
  /\ pc' = "unsat"
  /\ UNCHANGED <<occVars, problem, facts, proof, conflicts, unitLemmas, factsCleaned, next, todo>>

(* withConsequences(), and the map is filled with the clauses of the       *)
(* database (precomputeOccurrenceMap).                                     *)
Begin ==
  /\ pc = "idle"
  /\ WantsExecution
  /\ Len(facts) # factsCleaned
  /\ Closures(ToSet(facts), Live) # {}
  /\ facts' \in Trails(facts, Live)
  /\ learntFacts' = unitLemmas + (Len(facts') - Len(facts))
  /\ factsCleaned' = Len(facts')
  /\ InsertAll(Clauses)
  /\ pc' = "delete"
  /\ next' = 1
  /\ UNCHANGED <<problem, proof, unsat, conflicts, unitLemmas, todo>>

(* The first loop: clauses with a fact are deleted, "to avoid              *)
(* strengthening operations later on".                                     *)
LookUp(l) ==
  /\ Lookup(l)
  /\ todo' = occList'[l]
  /\ next' = next + 1
  /\ UNCHANGED <<problem, facts, proof, unsat, statVars, pc>>

LookUpSatisfied ==
  /\ pc = "delete"
  /\ todo = <<>>
  /\ next <= Len(facts)
  /\ LookUp(facts[next])

DeleteSatisfied ==
  /\ pc = "delete"
  /\ todo # <<>>
  /\ DeleteClause(Head(todo))
  /\ todo' = Tail(todo)
  /\ UNCHANGED <<problem, facts, unsat, statVars, pc, next>>

BeginStrengthening ==
  /\ pc = "delete"
  /\ todo = <<>>
  /\ next > Len(facts)
  /\ pc' = "strengthen"
  /\ next' = 1
  /\ UNCHANGED <<occVars, problem, facts, proof, unsat, statVars, todo>>

(* The second loop: the other clauses lose the literals that contradict a  *)
(* fact.  A clause of two literals would be left with a fact alone and is  *)
(* deleted.                                                                *)
LookUpContradicted ==
  /\ pc = "strengthen"
  /\ todo = <<>>
  /\ next <= Len(facts)
  /\ LookUp(Neg(facts[next]))

Strengthen ==
  /\ pc = "strengthen"
  /\ todo # <<>>
  /\ LET c == Head(todo)
     IN  IF c \in deleted THEN UNCHANGED <<occVars, proof>>
         ELSE IF Cardinality(content[c]) = 2 THEN DeleteClause(c)
         ELSE Shorten(c, Neg(facts[next - 1]))
  /\ todo' = Tail(todo)
  /\ UNCHANGED <<problem, facts, unsat, statVars, pc, next>>

(* The optimizer returns, and trySimplify() lets go of the shared state    *)
(* and the map in it.                                                      *)
Finish ==
  /\ pc = "strengthen"
  /\ todo = <<>>
  /\ next > Len(facts)
  /\ Destroy
  /\ pc' = "idle"
  /\ UNCHANGED <<problem, facts, proof, unsat, statVars, next, todo>>

----------------------------------------------------------------------------
(* The driver between two calls: a conflict yields a lemma of one literal, *)
(* which the certificate gets (deriveLemma), and propagating the facts     *)
(* finds more of them, which it does not get (propagateHardFacts).         *)
LearnFact(l) ==
  /\ pc = "idle"
  /\ l \notin ToSet(facts) /\ Neg(l) \notin ToSet(facts)
  /\ IsAT({l}, Live \cup UnitsOf(ToSet(facts)))
  /\ facts' = Append(facts, l)
  /\ proof' = proof (+) SetToBag({{l}})
  /\ conflicts' = TRUE
  /\ unitLemmas' = unitLemmas + 1
  /\ UNCHANGED <<occVars, problem, unsat, learntFacts, factsCleaned, loopVars>>

PropagateHardFacts ==
  /\ pc = "idle"
  /\ Closures(ToSet(facts), Live) # {}
  /\ LET found == Propagated(ToSet(facts), Live) \ ToSet(facts)
     IN  /\ found # {}
         /\ facts' \in Trails(facts, Live)
         /\ unitLemmas' = unitLemmas + Cardinality(found)
  /\ UNCHANGED <<occVars, problem, proof, unsat, conflicts, learntFacts, factsCleaned, loopVars>>

OtherOptimizer ==
  /\ pc = "other"
  /\ AnyOptimizer(TouchedClauses, TouchedLits)
  /\ UNCHANGED <<problem, facts, proof, unsat, statVars, loopVars>>

Next ==
  \/ OtherOptimizer
  \/ NothingToDo
  \/ InconsistentFacts
  \/ Begin
  \/ LookUpSatisfied
  \/ DeleteSatisfied
  \/ BeginStrengthening
  \/ LookUpContradicted
  \/ Strengthen
  \/ Finish
  \/ \E l \in Lits : LearnFact(l)
  \/ PropagateHardFacts

Spec == Init /\ [][Next]_cleanerVars

----------------------------------------------------------------------------
(* The range of clauses a loop iterates over does not change under it,     *)
(* although the loop deletes and shortens the clauses in it: removals from *)
(* the map are lazy (optimize(), OccurrenceMap::remove, setModified).      *)
RangeStable == [][todo # <<>> => occList' = occList]_cleanerVars

(* When the optimizer is done, no variable of a fact is left in any        *)
(* clause, no clause has become a unit, none is marked as modified, and    *)
(* clauses and facts have exactly the models they had before (optimize()). *)
ProblemCleaned ==
  /\ pc # "other" => ModelsOf(Live \cup UnitsOf(ToSet(facts))) = ModelsOf(problem)
  /\ pc = "idle" => modified = {}
  /\ (pc = "idle" /\ Len(facts) = factsCleaned) =>
       \A C \in Live : /\ Cardinality(C) >= 2
                       /\ \A f \in ToSet(facts) : f \notin C /\ Neg(f) \notin C

Copies(C, lines) == IF C \in BagToSet(lines) THEN lines[C] ELSE 0

(* A checker that follows the certificate keeps a copy of every clause the *)
(* solver goes on to use: no clause is deleted twice and none is deleted   *)
(* for another (deleteClause, optimize()).                                 *)
ProofKeepsClauses ==
  pc # "other" => \A C \in Live : Copies(C, proof) >= Cardinality({c \in Clauses \ deleted : content[c] = C})

(* A clause added to the certificate is an asymmetric tautology with       *)
(* regard to the clauses in it ("Adds an asymmetric tautology clause to    *)
(* the proof", DRATCertificate::addATClause).                              *)
AddedLinesAreAT ==
  [][\A C \in BagToSet(proof') : Copies(C, proof') > Copies(C, proof) => IsAT(C, BagToSet(proof))]_cleanerVars
=============================================================================
