# JamSAT in TLA+

JamSAT is an incremental SAT solver: conflict-driven clause learning (CDCL) with two
watched literals per clause, behind a C++ class and the IPASIR interface. This directory
models its core, checks it with TLC and proves its safety properties with TLAPS.

1. [Inventory](#inventory): what the system consists of, and what is hard about it
2. [The modules](#the-modules): which one models what, and how it corresponds to the code
3. [The runs](#the-runs): what each of them shows, bounds, fairness
4. [The proofs](#the-proofs)
5. [Findings](#findings)
6. [What is not modelled](#what-is-not-modelled), and the [plan](#plan)

Paths below are relative to `src/lib/libjamsat/`, the library.

## Inventory

| Component | State | Operations | Correct when |
|---|---|---|---|
| `cnfproblem/CNFLiteral.h` | none | negation, variable, sign of a literal | - |
| `solver/Assignment.*`, `solver/Watcher.h` | trail, level limits, values, phases, reasons and levels of variables, watcher lists of long and of binary clauses, literals whose watchers are dirty | `append`, `registerClause`, `registerLemma`, `registerClauseModification`, `newLevel`, `undoToLevel`, `undoAll`, `clearClauses`, `increaseMaxVar`, `isReason`, propagation | every clause has its two watchers; nothing is left to propagate when a call returns; reasons precede what they force; conflicts are conflicts |
| `solver/FirstUIPLearning.h` | stamps per variable | `computeConflictClause` | the clause follows from the problem, is false, and has one literal of the current level; the stamps are clear afterwards |
| `simplification/ClauseMinimization.h`, `solver/LiteralBlockDistance.h` | a borrowed stamp map | `eraseRedundantLiterals`, `resolveWithBinaries`, `getLBD` | what is left follows from the problem and keeps the asserting literal |
| `solver/AssignmentAnalysis.h` | a borrowed stamp map | `analyzeAssignment` | returns assumptions that are behind an assignment |
| `drivers/CDCLSatSolver.cpp` | clause database, facts, lemmas, maximum variable, flags for "unsatisfiable" and "out of memory", stop request | `addClause`, `solve`, `stop` | right answers, models and failed assumptions, in every call of an incremental use; `solve` returns |
| `simplification/ProblemOptimizer.*`, `optimizers/FactCleaner.cpp` | number of facts at its last run, counters of facts learnt | `wantsExecution`, `optimize` | the problem keeps its models; no clause shrinks below two literals |
| `solver/RestartPolicies.*`, `solver/ClauseDBReductionPolicies.h` | counters, moving averages, intervals | `registerConflict`, `shouldRestart`, `shouldReduceDB`, `getClausesMarkedForDeletion` | intervals grow; never more than half of the lemmas goes, binary ones never |
| `branching/VSIDSBranchingHeuristic.h`, `utils/BinaryHeap.h` | heap with index map, activities, phases, eligibility | `pickBranchLiteral`, `reset`, `seenInConflict`, `setEligibleForDecisions` | an unassigned eligible variable is always in the heap |
| `clausedb/IterableClauseDB.h`, `clausedb/Clause.h` | memory regions | `createClause`, `compress`, iteration | `compress` keeps exactly the clauses not scheduled for deletion |
| `utils/OccurrenceMap.h` | occurrence lists, modified clauses | lookup, `setModified`, `remove` | a lookup returns exactly the clauses that have the literal |
| `utils/StampMap.h` | a stamp per key, the current generation | `createContext`, stamp lookup | only stamps of the current context count |
| `proof/` | output file, buffer | `addATClause`, `deleteClause`, `flush` | each line is checkable at its place |
| `api/ipasir/JamSatIpasir.cpp` | clause, assumption and failed buffers, solver, termination thread | the IPASIR functions | assumptions hold for one call; the thread never touches a solver that is gone |
| `lib/libjamfrontend/` | parser's chunk buffer, options, alarm | `jamsat` command line | a DIMACS file is read as written |

How they interact: the driver owns all of the others and calls them in one thread.
`Assignment` keeps references to the clauses in the clause database and exchanges their
literals while it propagates. Conflict analysis and minimization read trail, levels and
reasons of the assignment. When nothing is assigned, the driver moves clause database,
facts and assignment to the optimizer and back. The only concurrency is `stop()`, which
sets an atomic flag from another thread, and, in the IPASIR layer, the thread that polls
the client's termination callback and calls `stop()`.

What is hard here is less concurrency than long sequences of calls over lazily maintained
data: watchers that survive backtracking, blockers that name a literal watched long ago,
reasons that are never cleared, lemmas learnt under assumptions that are gone, clauses
that are marked for deletion and registered once more, stamps that wrap around, clauses moved
over others while they are iterated over, occurrence lists purged when they are looked up.
`PROJECT.json` lists these hazards
at their lines with the properties that cover them.

## The modules

```
CNF                      literals, clauses, propositional semantics
 |- UnitPropagation      what Assignment promises
 |   `- ConflictAnalysis first-UIP learning, minimization, LBD, failed assumptions
 |       |                                                     <- TrailProofs
 |       |- CDCLSearch   the driver, with stop() and the FactCleaner in one step
 |       |   |                                                 <- SearchProofs
 |       |   `- MCSearch instances: scripts of clauses and assumptions
 |       `- ConflictWalk how a lemma is derived, step by step (with StampMap)
 |           |                                                 <- WalkProofs
 |           `- MCWalk   instances
 |- Assignment           trail, levels, two-watched-literal propagation, step by step;
 |   |                   implements UnitPropagation            <- AssignmentProofs
 |   |- MCAssignment     instance: any client
 |   |- MCPropagation    instance: the solver
 |   `- MCStrengthening  instance: clauses shortened
 `- OccurrenceMap        occurrence lists with lazy updates
     `- FactCleaner      the optimizer's loops, with map, certificate and counters
         |                                                     <- SimplifyProofs
         `- MCSimplify   instances

BinaryHeap               the heap and its index map, one cell per step
 `- VSIDS                the heuristic, and the driver's calls of it
     |                                                         <- VSIDSProofs
     `- MCBranching      instance
StampMap                 generations of stamps that wrap around, in WalkProofs
ClauseStore              what the clause database promises
 `- ClauseDB             regions and their compaction; implements ClauseStore
     |                                                         <- ClauseDBProofs
     `- MCClauseDB       instance
IpasirContext            one IPASIR instance and its kill-thread <- IpasirProofs
```

**Assignment** has one action per public operation and one per visit of a watcher during
`propagateUntilFixpoint`, so its invariants hold in the middle of a propagation too. The
variables carry the names of the members (`trail` is `m_trail`, `dirty` is
`m_litsRequiringWatcherUpdate`); `pc`, `cur`, `todo`, `qhead` and `qend` are the local
variables of the propagation in progress. Guards of the operations are the documented
preconditions. A watcher list is a set, traversed in any order: the code's order depends
on the history of `removeCurrent()`, and no property should depend on it. Three clients
are specified: `Spec` does what the documented preconditions allow, `exclude_lemmas` included
(which the solver never uses), with two readings of them named below; `ClientSpec` is the solver
within one call of `solve`, where lemmas are always propagated and registered on the level of
their second literal; `OptimizingClientSpec` adds an optimizer that modifies clauses.
`ClearClauses` occurs in `Spec` only, since the solver registers all clauses anew after it,
those that it has deleted included: these contain a fact, and `ClientSpec` leaves them out.

Clients modify clauses in two steps, as the unit tests do
(`testsrc/libjamsat/unit/solver/AssignmentUnitTests.cpp:718-735`, `823-840`):
`RegisterClauseModification` marks the lists of the first two literals as dirty, on any
trail, and until the next propagation any two literals of the clause may change places and
its last one may go (`ExchangeLiterals`, `DropLastLiteral`). The history variable `announced`
has the clauses reported since the last clean-up. Meanwhile watchers are in lists of literals
they no longer watch (`Misplaced`), or among those of long clauses while theirs is binary
(`NowBinary`). The documentation leaves two things open, on which the code depends:
a binary clause may be deleted but not changed (a comment of `cleanupWatchers`,
`solver/Assignment.cpp:424-428`), and watched literals must be reported before
they change, since the report marks those that it finds. The FactCleaner reports after the change,
but only what is not watched goes: when `withConsequences` has propagated all facts, a clause
that still watches a false literal has a true one and has been deleted by the first loop. Then
the order does not matter: reporting first has the same effect.

**UnitPropagation** is the abstract specification: clauses as sets, no watchers, no queue.
A call makes a literal true, then any clause that has become unit may force its last
literal, with that clause recorded as the cause (`because`), and the call ends with a
falsified clause or when none is unit or falsified.

**ConflictAnalysis** gives what the code computes on such a state, as recursive functions
along the trail: the first-UIP clause, the literals that `isRedundant` finds (with its early
"no" for levels without a literal of the lemma), the resolution with binary clauses within
the size and LBD bounds, and `analyzeAssignment`. Stamps are membership in a set.

**CDCLSearch** is the driver. `append()` and `registerLemma()` are the actions `Decide` and
`Learn` of UnitPropagation, followed by propagation in any order; that is sound because
Assignment implements UnitPropagation. `pc` names the place in `solve`: `restart` (the loop
and `trySimplify`), `reduce` (`tryReduceClauseDB`), `facts` and `assume`
(`propagateFactsOnSystemLevels`), `search`, `branch`, `resolve`, `lemma`, `assert`
(`solveUntilRestart`, `resolveDecision`, `deriveLemma`) and `return`. The clauses of the
database are three sets by flag: `db`, `lemmas`, `scheduled`. Abstractions:

- Heuristics are left open: any eligible unassigned literal may be picked, the policy may
  ask for a restart after any conflict reported to it since the last restart, at each
  restart the optimizer and the reduction may run or not, a reduction takes any lemmas up
  to half of them.
- The facts are a set. The code has a vector without repetitions, which relies on
  `LemmaNew`.
- The FactCleaner runs in one step; module FactCleaner has its loops. It is not concerned by
  the first finding below: what it drops from clauses are literals that are false on level 0.
- Variables of tautologies do not count for the maximum variable, as in the code.
- Running out of memory is modelled where a lemma is created, the one place in the search
  that allocates a clause. In `addClause` it leaves the state as it was.
- One call of `addClause` per clause; adding a clause twice only adds a copy.

The first alternative of `RestartForced` (a backjump to level 0) stands for a test the
code makes; it never happens, since assumptions have a level of their own, above the
facts, and literals of level 0 do not stay in lemmas.

**ConflictWalk** runs a search over UnitPropagation and derives each lemma the way the code
does: the walk down the trail with its marks and `unresolvedCount` (`InitializeResult`,
`ResolveAtCursor`, `PassOver`, `FindUIP`), one literal of the lemma or one variable of the work
list of `isRedundant` per step (`CheckLiteral`, `Descend`, `GiveUp`, `EraseLiteral`), then the
resolution with binary clauses, the LBDs and the LBD updates of `prepareBacktrack`, all of
them contexts of the one stamp map of the driver, which is indexed by variables, by literals and
by levels in turn. A decision is a new level, then a literal (`NewDecisionLevel`, `Decision`); a
lemma is learnt after the backjump (`Backtrack`, `LearnLemma`), as in `solveUntilRestart` and
`resolveDecision`. `OutOfMemory` is the handler of `computeConflictClause`. The result is compared
with the functions of ConflictAnalysis. The order of literals within clauses and of the work
list is left open. **StampMap** is that map: a context ends by moving on to the next
stamp, and when the largest has been used, the cells are zeroed. `marked` is auxiliary: what a
map without generations would hold.

**BinaryHeap** is the heap as an array with an index map; `SiftUp`, `SiftDown` and `Place` move
by one cell, as the loops of `increasingUpdate` and `decreasingUpdate` do, so that what holds in
the middle of an update can be stated: `HeapNow` and `IndicesNow` are the arrays with the
element put where the cursor is. **VSIDS** is the heuristic over it with the calls the driver
makes: variables inserted when the maximum grows, eligibility of facts and assumptions,
`pickBranchLiteral`, the bumps of a conflict with their scaling, and `prepareBacktrack` before
every way of undoing assignments. What is assigned and where conflicts are is left open.
Activities are natural numbers, divided by `Factor` when one reaches `Limit` and rounded down,
as floating-point numbers are rounded; the bump stays positive. Signs of decisions and the
changing decay rate are left out.

**ClauseDB** keeps regions as functions from offsets to clause objects. A clause is its
number, its current size, its size at allocation and its flag; literals do not matter. Sizes are
rounded up to the alignment; iteration adds up the sizes at allocation. `compress` is one step per
clause or region: the copy goes to the spare region and, when that is full, the spare
is exchanged for a region that has been read. A second allocation that failed would be a use of a
null pointer (`pc = "crash"`). Allocation may fail at each place where
`createActiveRegion` can throw. **ClauseStore**
is the promise: a sequence of clauses that grows at its end and loses what is scheduled for
deletion, all at once. From the beginning of `compress` on, what is stored counts as
compressed.

**OccurrenceMap** has the operations of the map with its two lazy mechanisms, lists that need an
update and notes of which lists hold a clause wrongly; `AnyOptimizer` uses it in any order
within preconditions that the model adds to `clear` and `resolveModifications`, which nothing in
the library calls: the former is called with nothing pending, since it keeps what is
pending and a later `setModified` would skip a list, the latter with no clause both modified and
deleted, since its final assertion would fail. The documentation names neither. **FactCleaner** has both loops of `optimize` clause by clause, the
counters of `wantsExecution`, and the certificate as the bag of clauses a checker has after the
lines written so far. What the solver learns between two runs is left open up to its being
derivable by propagation.

**IpasirContext** has the client's thread and the kill-thread. The client enters a call, creates
the solver if there is none, and does what the call does; critical sections of the client are
single steps, the kill-thread holds the lock from its first test to the end of its round.
`solve` is its two tests of the stop request, the loop between them and its results, so that it
may search for ever. Exceptions may be thrown at each step outside of critical sections. `meant`
is a history variable: what the client has passed, whatever the code kept of it.

Definitions marked *faulty variant* are not part of the model: each is what a plausible
mistake in the code would make of the definition that follows it, and serves to show that
a property detects it.

## The runs

`tlc -workers 2 -config X.cfg M` for the configuration and module named.

| Run | Module, cfg | What it shows |
|---|---|---|
| up_safety | MCAssignment, `up_safety.cfg` | `TypeOK`, `TrailInv`, `TwoWatchers`, `ReasonInv`, `ConflictInv`, `ReasonsRecognised` for any client that reports a clause before it changes it |
| up_fixpoint | MCPropagation, `up_fixpoint.cfg` | with the solver as client: `FixpointInv`, and Assignment implements UnitPropagation |
| up_strengthened | MCStrengthening, `up_strengthened.cfg` | `FixpointInv` fails when a clause is shortened: finding 1 |
| search_safety | MCSearch, `search_safety.cfg` | answers are sound (`VerdictSound`), the problem keeps its models (`ProblemPreserved`), everything stored follows from it (`StoreImplied`), lemmas are right (`LemmaAsserting`, `LemmaNew`), backjumps leave nothing to propagate (`BackjumpRight`), the assumptions conflict analysis makes (`ConflictsOnLevel`), there is always a decision (`DecisionPossible`), failed assumptions (`FailedAssumptionsValid`) |
| search_liveness | MCSearch, `search_liveness.cfg` | every call of `solve` returns (`SolveReturns`) |
| search_core | MCSearch, `search_core.cfg` | the failed assumptions need not be a core: finding 2 |
| walk | MCWalk, `walk.cfg` | marks, counter, work list and shared stamps yield the lemma that ConflictAnalysis defines (`LemmaAsDefined`); `CounterExact`, `StampsFresh` |
| branching | MCBranching, `branching.cfg` | no variable gets lost (`NothingLost`), there is a decision when one is needed (`DecisionFound`) and it is the best (`PickIsBest`); the heap between any two moves (`IndexInv`, `HeapOrder`, `VSIDSTypeOK`) |
| clausedb | MCClauseDB, `clausedb.cfg` | ClauseDB implements ClauseStore (`ImplementsStore`); iteration meets clause boundaries (`IterationExact`), copies always find room (`CopiesFit`), there is a spare region (`SpareAvailable`), `DBTypeOK` |
| simplify | MCSimplify, `simplify.cfg` | the FactCleaner clears facts out of all clauses and keeps the models (`ProblemCleaned`), its certificate keeps each clause in use (`ProofKeepsClauses`), ranges do not change under its loops (`RangeStable`), lookups are exact for any optimizer (`LookupExact`) |
| certificate | MCSimplify, `certificate.cfg` | lines added to the certificate need not be asymmetric tautologies: finding 3 |
| ipasir | IpasirContext, `ipasir.cfg` | the kill-thread touches nothing that is gone (`KillThreadSafe`) and does its work (`KillThreadServes`), buffers are those of the call (`BuffersOfThisCall`) |

**Bounds.** *up_safety*: three variables, a ternary clause and two binary ones that chain
to a conflict with it, one flagged as a lemma; two levels above level 0 (`MaxLevel`) and one
report, deletion or call of `clearClauses` (`MaxEdits`; the deletion of a clause that has been
reported is not counted) are enough for watches to be moved, undone
and met again, for conflicts on each level with queued literals, and for a ternary clause to
exchange watched literals any number of times, become binary and change lists, or be deleted
while its watchers are misplaced, also while some of its literals are assigned. That a clause may
be modified again after a clean-up is beyond the run and covered by the theorem `TwoWatchersCorrect`.
*up_fixpoint*: three variables with two ternary clauses and a binary one, so that
a clause has a watch to move to and blockers go stale, or with a ternary clause and two
binary ones that conflict. The views of both
leave out the saved phases, which nothing reads, and reasons and levels of unassigned
variables, which no guard reads but `IsReason` does: two states that TLC takes for one can
differ in what a stale entry makes it answer, so the run alone does not settle
`ReasonsRecognised` for these. Its proof does; it has no view.
*search_safety*: four variables and five scripts, each a sequence of clauses with the
assumptions a client may use between any two of them; a comment in MCSearch says what each
is for. It was checked with probes, not kept, that redundant literals, resolution with
binaries, lemmas above the LBD bound, conflicts on the level of the assumptions after a
backjump, several failed assumptions, and clauses registered anew although scheduled for
deletion all occur. `CheckInterval` is 2 so that the flag is read after some conflicts and not
after others. `MaxReductions` is 1: one clause database reduction per history.
*walk*: six variables and three sets of clauses made for redundant literals, for failed
redundancy checks that share literals with later ones, and for resolution with a binary
clause. Stamps are of two bits (`MaxStamp` 3), so that they wrap around within one conflict;
the set of levels has two cells (`ApproxSize`), so that it answers "perhaps" wrongly; two
conflicts, so that what the first leaves behind meets the second.
*branching*: four variables make a heap of three levels with a left and a right child; two levels
above the facts let a backjump stop between them; `Limit` 2 makes activities scale
at almost every conflict. Its view leaves out what `removeMax` returned when it is no decision, and
cells beyond the heap's size, which are written before they are read.
*clausedb*: clauses fill a third, two thirds or all of a region, four of them spread over up to four
regions, and shortened ones leave gaps that the copies close.
*simplify*: three clauses of four variables from a pool that has chains of consequences, clauses that
become copies of others, and clauses shortened twice; a fact at the beginning, others learnt
on the way; for the map alone, three clauses two of which any optimizer changes.
*ipasir*: two literals, so that a wrong buffer shows; two calls of `ipasir_set_terminate`, so that
a callback is replaced.

**Fairness.** `SolveReturns` assumes weak fairness of the actions of the thread in `solve`
and nothing of clients or `stop()`: that thread runs until it is done. The bound on
reductions is a fairness assumption in disguise: the code lets the interval between
reductions grow, so that on a given problem only finitely many happen before
the search ends, while a model that may reduce at each restart could forget each lemma.
Restarts are not bounded: a restart needs a new conflict, as in both policies of the code,
or a new fact.

`KillThreadServes` assumes weak fairness of the client within a call, since a call that has
been entered runs on, and of the kill-thread, which wakes up again after 100 ms. It
assumes strong fairness of the client's steps that need the lock: the kill-thread sleeps without
the lock between two rounds, so a client that waits for it gets it. Nothing is assumed of
entering calls or of what the callback returns, except what the property itself says
(it returns 1 from some time on).

The deadlock check is off in *walk* (a search ends with a model, without memory or with the last
conflict allowed), *simplify* and *certificate* (there may be nothing left to learn or to clear)
and *ipasir* (a released instance does nothing more). In the other runs the system never stops:
a client may always go on.

## The proofs

| Module | Theorem | States |
|---|---|---|
| AssignmentProofs | `TypeCorrect` | `Spec => []TypeOK` |
| | `TrailCorrect` | `Spec => []TrailInv` |
| | `TwoWatchersCorrect` | `Spec => []TwoWatchers` |
| | `ReasonsCorrect` | `Spec => []ReasonInv` |
| | `ConflictsCorrect` | `Spec => []ConflictInv` |
| | `ReasonsRecognisedCorrect` | `Spec => []ReasonsRecognised` |
| | `FixpointCorrect` | `ClientSpec => []FixpointInv` |
| | `UnitPropagationImplemented` | `ClientSpec => ImplementsUnitPropagation` |
| SearchProofs | `SearchTypes` | `SearchSpec => []SearchTypeOK` |
| | `SearchVerdictSound` | `SearchSpec => []VerdictSound` |
| | `SearchProblemPreserved` | `SearchSpec => []ProblemPreserved` |
| | `SearchStoreImplied` | `SearchSpec => []StoreImplied` |
| | `SearchLemmaAsserting` | `SearchSpec => []LemmaAsserting` |
| | `SearchLemmaNew` | `SearchSpec => []LemmaNew` |
| | `SearchBackjumpRight` | `SearchSpec => []BackjumpRight` |
| | `SearchConflictsOnLevel` | `SearchSpec => []ConflictsOnLevel` |
| | `SearchDecisionPossible` | `SearchSpec => []DecisionPossible` |
| | `SearchFailedAssumptionsValid` | `SearchSpec => []FailedAssumptionsValid` |
| WalkProofs | `StampsAreFresh` | `StampSpec => []StampsFresh` |
| | `WalkStampsFresh` | `CWSpec => []StampsFresh` |
| | `WalkCounterExact` | `CWSpec => []CounterExact` |
| | `WalkLemmaAsDefined` | `CWSpec => []LemmaAsDefined` |
| ClauseDBProofs | `DBTypeCorrect` | `Spec => []DBTypeOK` |
| | `IterationIsExact` | `Spec => []IterationExact` |
| | `CopiesAlwaysFit` | `Spec => []CopiesFit` |
| | `SpareAlwaysAvailable` | `Spec => []SpareAvailable` |
| | `StoreImplemented` | `Spec => ImplementsStore` |
| SimplifyProofs | `LookupIsExact` | `Spec => []LookupExact` |
| | `ProblemIsCleaned` | `Spec => []ProblemCleaned` |
| | `CertificateKeepsClauses` | `Spec => []ProofKeepsClauses` |
| | `RangesAreStable` | `Spec => RangeStable` |
| VSIDSProofs | `VSIDSTypeCorrect` | `Spec => []VSIDSTypeOK` |
| | `HeapIndexed` | `Spec => []IndexInv` |
| | `HeapOrdered` | `Spec => []HeapOrder` |
| | `NoVariableLost` | `Spec => []NothingLost` |
| | `DecisionIsBest` | `Spec => []PickIsBest` |
| | `DecisionExists` | `Spec => []DecisionFound` |
| IpasirProofs | `KillThreadSafety` | `Spec => []KillThreadSafe` |
| | `BuffersCorrect` | `Spec => []BuffersOfThisCall` |

Each safety property and each refinement that a passing run checks on an instance is a theorem
here, for every value of the constants that their named assumptions allow. Most of these
invariants are not inductive; the paragraphs below name the strengthening and say why it is
needed. Each strengthening was checked by TLC on the instances of the runs before it was proved.

The first six are about `Assignment!Spec`, the most general client, for every number of
variables, every set of clauses with clauses of any length and every bound on levels, from
the assumptions on the constants named in CNF and Assignment.

*Types and trail.* `TrailIInv` is `TypeOK`, `TrailInv` and `QueueInv`: during a propagation
the queue is a window of the trail. `QueueInv` is needed since `NextLiteral` takes `cur`
from the trail, and a type invariant that does not know of the trail's length cannot tell
that there is one. The conjunct that links trail positions to recorded levels
is the one backtracking depends on: it makes "pop down to the limit" the same as "drop
what was assigned on higher levels".

*Watchers.* `TwoWatchers` is not inductive: it says nothing of watchers of deleted
clauses, nor of why a clause that is about to be changed has no watcher in a clean list. `WatchIInv`
says which watchers there can be: in the right list, or among those of long clauses in a dirty
one (`PlacementInv`), at most one per position over all lists (`UniqueInv`), those of the binary
lists for binary clauses with the right blocker (`BinaryInv`), those of a clause that has become
binary in dirty lists until they are moved (`LongInv`), at least one per position of a registered
clause (`ExistenceInv`), those of a reported clause in dirty lists only, of which none is left
when watchers are visited (`AnnouncedInv`), and what a traversal has still to visit in the list it
traverses (`TodoInv`). A clean-up moves a watcher to a list that may be dirty or have been
cleaned before; in either case it is right there, which is why the order of the dirty literals
does not matter. `TraversalPlaced` sums up what visits rely on. Each step is shown to preserve
each part.

*Reasons and conflicts.* `EdgeIInv` adds to these that the reason of a trail literal has
it among its first two literals and its others falsified earlier on the trail. That
propagation does not disturb it is the point: a watched literal of a reason is only
exchanged when it is false and its clause is not satisfied, while a reason is satisfied. Nor do
clients: `isReason` keeps reasons from being reported, and what has been reported becomes none
before the next clean-up (`AnnouncedEdges`).
`ReasonsRecognised` follows with `TrailInv`.

*Nothing left to propagate.* About `ClientSpec`, the solver. `FixpointInv` speaks of the end of a
call only, and says nothing of levels: it would not survive a backjump. `PropagationIInv` says
of each watched literal that is false why it hides nothing (`WitnessInv`): the
clause has a true literal on the same level or below, so that no backjump undoes it alone; or
it is on the current level and its visit is still to come, or a conflict has been found on that
level, which is undone next. With it go that a call assigns on its own level only (`QueueLevels`),
that a blocker, however old, is a literal of its clause (`BlockerInv`), that the lists with watchers of
deleted clauses are known as dirty and clean when a traversal begins (`DirtyInv`), and that clauses
only exchange their literals (`OriginInv`); `ClientInv` says that the solver registers no deleted
clause and modifies none. Traversals skip a clause for a true blocker of any
age; that its level is not above that of the false literal is the heart of the proof.

*Refinement of UnitPropagation.* The mapping takes the trail, the limits of the levels, the
sets of literals of the registered clauses and of the reasons. Each step of Assignment is shown
to be a step of UnitPropagation or to leave its state alone: a forced literal has
a unit clause, a conflict a falsified one, and the end of a call without a conflict is allowed by
the fixpoint. The theorem is about safety; UnitPropagation states no fairness.

*The search.* For every number of variables, all sequences of clauses and assumptions, every bound
and every behaviour of the policies. TrailProofs has what holds of the trail of
UnitPropagation (`TrailIInv`: literals are forced by clauses falsified before them, and below the
current level nothing is left to propagate), and what ConflictAnalysis computes on it: the
first-UIP clause, minimized and resolved with binary clauses, follows from the clauses,
is false, and has one literal on the current level; failed assumptions refute what they are
said to. `SearchIInv` relates the driver's `pc` to it: facts lie on level 0 and assumptions
on level 1 when decisions are made (`FactsOnTrail`, `AssumptionsOnTrail`), a literal without a reason
is a fact, an assumption or the first of its level (`DecisionsPlaced`), only variables of facts and
assumptions are not eligible (`EligibleRight`), everything stored and everything on level 0
follows from the problem alone, level 1 from the problem with the assumptions (`Implied`), and
clauses and facts that are kept imply the problem (`Kept`). `Implied` is what makes lemmas learnt under
assumptions safe to keep. `LemmaNew` and `BackjumpRight` rest on the levels that are quiet:
a clause with all its literals false or all but one was propagated where it became so.
`StoredAssumption` of CDCLSearch says which clauses are sets of at least two literals with
distinct variables; ConflictAnalysis and the assumptions of CNF give the rest.

*Derivation of a lemma.* For every formula, search, order of the work list and width of stamps.
`WalkIInv` has the trail's invariant, that stamps are fresh (`StampsRight`), where levels
begin (`LevelsRight`), and for each phase of the derivation how its variables relate to the
function that ConflictAnalysis defines: during the walk, the marks and the unresolved counter are
those of the clause that the function has at the cursor (`WalkRight`); during minimization, the
literals removed so far are redundant by definition and every mark is in the lemma, implied, or
of the check in progress (`MinimizeRight`); a check in progress has, for each variable it
visited, either all the variables of its reason marked or the variable on its work list, and when
the literal checked is implied, so is all it visited (`RedundancyRight`). That a check which
fails leaves no mark that a later one could misread is what the last two are for. When a
check succeeds, all of its visited variables are implied: consider the earliest on the trail
that is not. Two consecutive uses of the shared map never see each other's stamps by
`WalkStampsFresh`.

*Heap.* For every number of keys and every history of activities. `HeapInv` is `HeapTypeOK`,
`IndexInv` and `HeapOrder`, and inductive as it is, because these speak of the array with
the element in progress at the cursor and, for the order, of the one exception an update
makes. There is one lemma per operation and per move; the order lemmas are
about a function on `0 .. n - 1` alone (`OrderUp`, `OrderDown`, `OrderBump`), and `RoomForKey`
counts: a heap that lacks a key has a free cell.

*Heuristic.* For every number of variables, levels and facts, every limit, factor and growth of
activities and every set of calls. `NothingLost` is not inductive: it does not say what a
backtrack in progress has still to put back, nor which variables are ineligible. `VSIDSInv`
adds that facts and assumptions lie on levels 0 and 1 while decisions are made
(`Levels`), that only these are ineligible (`Eligibles`), and that what a backtrack will unassign
is pending or stored (`Kept`). With them, `DecisionExists` follows from `NoVariableLost`: an
unassigned variable is eligible when facts and assumptions have been propagated. That scaling keeps
the order is `DivisionMonotone`.

*Stamps.* For every width of stamps, every size and any client. `StampInv` adds to
`StampsFresh` that no cell holds a stamp that is still to come, so that each stamp is new when its
context begins, and that nothing is stamped between contexts.

*Clause database.* For regions, headers, alignments and clauses of any size. `DBIInv` says of each
region that its clauses lie one after the other from 0 to the end of its used part, by their
sizes at allocation (`Chained`), and of `compress` that what lies between the region to be overwritten
next and the one that is read is empty, and that copies end before the clause that is read while
both are the same region (`CompressRight`). That copies are never larger is monotonicity of
`AllocationSize`, which rounds up. `CopiesFit` follows: `compress` needs no test of its second
allocation.

*Refinement of ClauseStore.* The mapping is `StoredClauses`: between compactions the clauses of all
regions, during one what has been copied to regions and to the spare region, followed by the unread
clauses that are not scheduled for deletion. `compress` thus takes effect when it begins
(`BeginCompressStored`), and each later step must leave the sequence alone: it moves a clause
from the unread part to the end of the copied one, skips one that does not count, or moves the
border between regions. Each needs `DBIInv`, to know that the walk from the place of a
clause is that clause followed by the walk from the next (`ClausesFromFacts`), that what is
overwritten is empty, and that a change in place leaves the other clauses of the region where they
are (`ModifiedClauses`). What walks over several regions yield, and which clauses
stay, are sequences joined one after the other (`Joined`); `JoinedConcat` says that they split
anywhere.

*Occurrence map.* For every number of clauses, any optimizer, and any bounds on what it touches.
`LookupExact` says what a lookup would return; `MapIInv` says what the lists hold meanwhile: each
clause in the map at the literals it has and at those it lost whose lists have not been purged
(`ListsRight`), where the latter are exactly the pending ones, none of them is in the clause again,
and their lists are known to be stale (`PendingRight`). Lists with deleted clauses are stale too.

*FactCleaner.* For every problem, from the assumptions that clauses have at least two literals and that
the bounds name clauses and literals. `CleanerIInv` adds to `MapIInv`: the facts are closed under
propagation while the loops run, so that a clause without a fact has two literals that stay
(`FactsRight`), which is why the loop never makes a unit; what has been looked up is cleared
but for the rest of the range, and each clause in the range exists and has the literal
(`RangeRight`); of every clause there are as many copies in the certificate as in the problem, and the
models are unchanged (`ClausesRight`), which rests on `PropagatedFacts`: what propagation finds is in
every model. The second alternative of the loop, deletion of a clause of two
literals, is shown never to be taken after the first loop.

*Kill-thread.* For every number of callbacks and all literals. `KillThreadInv` adds who owns the
context in which phase of the client (`Ownership`), that a context which names a solver means the
living one (`SolverNamed`), and what holds of a round in progress (`RoundInv`).

*Buffers.* `BuffersOfThisCall` speaks of the moments at which the client is back from a call.
`BuffersInv` says it of every step of a call, as long as the instance has not failed.

*Ranges.* The steps of a loop mark clauses as deleted or modified and note which lists are stale;
none of them writes a list, so the range that is iterated over stays as it was looked up.

*Induction over data.* The library's induction theorems cannot be instantiated by the provers, so
facts about functions that are defined by recursion are proved by way of their least
counterexample: `WFMin` of WellFoundedInduction gives a least number outside of a set
(lemmas `Least` and `Induction`), and an induction runs on the set of numbers for which the fact
holds. That a recursively defined function exists at all, and what it does at each argument, is a
lemma each time (`UpwardFunction`, `DownwardFunction`, `WalkExists`, `JoinedExists`, `FilterDefined`);
its values are sets or sequences of known sets, extended by one argument at a time.

Only model-checked, since they are beyond the prover: the liveness properties `SolveReturns` and
`KillThreadServes`.

## Findings

1. *Shortened clauses (up_strengthened).* `solver/Assignment.h:133-135` allows registered
   clauses to be modified when `registerClauseModification()` is called. When a literal that is
   not watched is dropped, the watchers stay where they are and keep their blockers
   (`solver/Assignment.cpp:467`), and a blocker may be the dropped literal. When it is
   made true, the clause counts as satisfied, and propagation overlooks that it is
   unit. The only optimizer drops literals that are false for good, so the solver is safe
   today; one that drops others, by subsumption for instance, would not be.
2. *Failed assumptions (search_core).* `drivers/CDCLSatSolver.cpp:217-220` promises that the
   failed assumptions activate an unsatisfiable core. When appending an assumption ends in a
   conflict, `propagateFactsOnSystemLevels` (line 842) analyses the assignment of that
   assumption, which has no reason: the result is the assumption alone. With the clauses
   (-1 2), (-2 -3 4), (-1 -3 -4) and the assumptions 1 and 3 it is {3}, and 3 alone is
   consistent with the clauses. When an assumption is already false when its turn comes,
   its reasons are followed and the result is right, unless it is false without a reason on
   level 1: for contradictory assumptions a and -a, the analysis returns -a alone
   (`solver/AssignmentAnalysis.h:98-100`). `FailedAssumptionsValid` states what holds in all cases.

3. *Certificate (certificate).* `proof/DRATCertificate.h:67` says that a line added is an
   asymmetric tautology. The FactCleaner takes consequences of the facts for facts without
   adding them to the certificate, and deletes the clauses that are their reasons from it
   (`simplification/optimizers/FactCleaner.cpp:44`, `66`). A clause it then shortens by such a
   fact need not be an asymmetric tautology any more: with the clauses (-1 2), (-2 3 4), (1 4) and the
   fact 1, (-1 2) is deleted, and then (3 4) is added. A checker that ignores the deletion
   of unit clauses and reasons accepts it, as does the one of the repository's tests, which ignores
   all deletions; a checker that follows the certificate to the letter does not.

Noted in passing, without a run: the comment on `solveUntilRestart` says that with the result
INDETERMINATE all assignments are undone, which is not so when it was stopped (lines
777-780); `solve` undoes them itself. `solve` clears the stop request when it starts, so a
`stop()` just before it is forgotten; the kill-thread asks again 100 ms later.
`BinaryHeap::clear` keeps the indices of the elements it removes, against its comment
(`utils/BinaryHeap.h:115-118`); the solver only clears empty heaps, so no model has it. `Clause::operator=` does not copy the
approximated clause. The heap test of the repository's `test_satisfiesHeapProperty` looks at the
left child twice (`utils/BinaryHeap.h:444-454`). The handler of
`computeConflictClause` clears marks up to a maximum variable that nothing increases
(`solver/FirstUIPLearning.h:477`), which is without effect since the driver makes the solver unusable
after running out of memory; `eraseRedundantLiterals` is `noexcept` but allocates. When the
kill-thread cannot be started, `ipasir_set_terminate` frees the context while it is locked
and keeps a pointer to it (`api/ipasir/JamSatIpasir.cpp:303-326`). After a run with consequences
`m_learntFactsAfterLastCall` may exceed the number of facts learnt
(`simplification/optimizers/FactCleaner.cpp:110`), which delays the next run. `solve` ends the
certificate with the empty clause also when the problem is only unsatisfiable under the
assumptions (`drivers/CDCLSatSolver.cpp:548-550`).

## What is not modelled

- Raw encodings of literals, BoundedMap, BoundedStack, iterators and range helpers: thin wrappers of
  arrays. No property here depends on them.
- The counters and averages that time restarts and reductions (Luby, Glucose, moving averages,
  the growing interval): they are arithmetic on one call's arguments, and no answer depends on
  them. CDCLSearch lets restarts and reductions happen at any time the policies may allow.
- `SharedOptimizerState`, which moves members there and back and builds the occurrence map on
  demand; the approximate clause sets that speed it up.
- The binary encoding of the certificate and file errors; Model, an array of truth values;
  CNFProblem and DIMACS output, which the solver does not use.
- `ipasir_val`, `ipasir_failed` and the conversion of literals, which change nothing;
  `ipasir_set_learn`, which is not implemented.
- The front end: options, the parser's chunks, output, and the wall-clock alarm, which ends the
  process. The parser's chunk boundaries are sequential string processing, which the
  repository tests directly.
- Statistics, logging, fault injection, traits.
- The repository's tests, more than a third of its lines, are read as documentation and not
  modelled; `map` in `PROJECT.json` names the lines of the library that are.

## Plan

Done: all modules above with their instances, and the proofs above. To come:

1. The policies' counters as functions of the conflicts they count.
2. The parser in chunks against a parser of the whole text.
