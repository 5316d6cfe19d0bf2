----------------------------- MODULE Assignment -----------------------------
(***************************************************************************)
(* The variable assignment of JamSAT: the trail, the assignment levels and *)
(* unit propagation with two watched literals per clause                   *)
(* (libjamsat/solver/Assignment.{h,cpp} and Watcher.h).                    *)
(*                                                                         *)
(* The public member functions are actions enabled when no call is in      *)
(* progress (pc = "idle").  propagateUntilFixpoint runs as a sequence of   *)
(* steps, one per watcher visited, so that the data structures can be      *)
(* inspected between any two visits.  A watcher list is a set and todo is  *)
(* the part of it not yet traversed: the order in which a traversal meets  *)
(* the watchers is left open, which includes the order the code has after  *)
(* any history of removeCurrent().                                         *)
(*                                                                         *)
(* Clause positions are counted from 1: C[0] and C[1] of the code are      *)
(* lits[c][1] and lits[c][2].                                              *)
(***************************************************************************)
EXTENDS CNF

CONSTANTS
  Clauses,        \* the addresses clause objects can have
  NoClause,       \* the null pointer
  Formulas,       \* the clause contents considered: functions on Clauses
  Lemmas,         \* the clauses created with flag REDUNDANT
  MaxLevel        \* bound: the number of levels a client opens

ASSUME ClausesAssumption == NoClause \notin Clauses /\ Lemmas \subseteq Clauses
ASSUME FormulasAssumption ==
  \A f \in Formulas : /\ f \in [Clauses -> Seq(Lits)]
                      /\ \A c \in Clauses : IsClause(f[c])
ASSUME MaxLevelAssumption == MaxLevel \in Nat

VARIABLES
  lits,           \* the literals of each clause, in their current order
  redundant,      \* the clauses with flag REDUNDANT
  scheduled,      \* the clauses with flag SCHEDULED_FOR_DELETION
  registered,     \* history: the clauses taking part in propagation
  announced,      \* history: those reported as modified since the last cleanup
  maxVar,         \* the current maximum variable
  trail,          \* m_trail
  levelLimits,    \* m_levelLimits: level k begins after trail position levelLimits[k+1]
  assignments,    \* m_assignments: 1 true, -1 false, 0 indeterminate
  phases,         \* m_phases: the last value of a variable
  reason,         \* m_reasonsAndALs[v].m_reason; not cleared by backtracking
  level,          \* m_reasonsAndALs[v].m_level; not cleared by backtracking
  binWatchers,    \* m_binaryWatchers
  watchers,       \* m_watchers
  dirty,          \* m_litsRequiringWatcherUpdate(AsVec)
  pc,             \* the part of propagateUntilFixpoint being executed
  cur,            \* to_propagate of the propagate() call in progress
  mode,           \* its up_mode
  todo,           \* the watchers its current traversal has not reached
  qhead, qend,    \* the propagation queue: trail positions qhead+1 .. qend
  conflict        \* the clause the last propagation returned

clauseVars  == <<lits, redundant, scheduled, registered, announced>>
trailVars   == <<trail, levelLimits, assignments, reason, level>>
watcherVars == <<binWatchers, watchers>>
callVars    == <<pc, cur, mode, todo, qhead, qend, conflict>>
vars == <<clauseVars, maxVar, trailVars, phases, watcherVars, dirty, callVars>>

----------------------------------------------------------------------------
(* Queries.                                                                *)

(* getAssignment(CNFLit): 1, -1 or 0.                                      *)
Value(l) == IF l > 0 THEN assignments[l] ELSE -assignments[-l]

CurrentLevel == Len(levelLimits) - 1

(* isComplete()                                                            *)
IsComplete == Len(trail) = maxVar

(* The watcher of clause c for position i, as registerClause makes it: its *)
(* blocker is the other watched literal.                                   *)
WatcherFor(c, i) ==
  [clause |-> c, idx |-> i, blocker |-> lits[c][3 - i], red |-> c \in redundant]

Watcher == [clause : Clauses, idx : {1, 2}, blocker : Lits, red : BOOLEAN]

(* Faulty variant: only the first literal is looked at.                    *)
IsReasonFirstOnly(c) ==
  /\ trail # <<>>
  /\ reason[VarOf(lits[c][1])] = c
  /\ level[VarOf(lits[c][1])] <= CurrentLevel

(* isReason(): recognises a reason by the two watched positions, and stale *)
(* entries of m_reasonsAndALs only by their level.                         *)
IsReason(c) ==
  /\ trail # <<>>
  /\ \E i \in {1, 2} : /\ reason[VarOf(lits[c][i])] = c
                       /\ level[VarOf(lits[c][i])] <= CurrentLevel

----------------------------------------------------------------------------
Init ==
  /\ lits \in Formulas
  /\ redundant = Lemmas
  /\ scheduled = {}
  /\ registered = {}
  /\ announced = {}
  /\ maxVar \in Vars
  /\ trail = <<>>
  /\ levelLimits = <<0>>
  /\ assignments = [v \in Vars |-> 0]
  /\ phases = [v \in Vars |-> -1]
  /\ reason = [v \in Vars |-> NoClause]
  /\ level = [v \in Vars |-> 0]
  /\ binWatchers = [l \in Lits |-> {}]
  /\ watchers = [l \in Lits |-> {}]
  /\ dirty = {}
  /\ pc = "idle"
  /\ cur = 0
  /\ mode = "include"
  /\ todo = {}
  /\ qhead = 0
  /\ qend = 0
  /\ conflict = NoClause

----------------------------------------------------------------------------
(* Building blocks.                                                        *)

Idle == pc = "idle" /\ conflict = NoClause

(* assign(): l becomes true on the current level, with reason r.           *)
Assign(l, r) ==
  /\ trail' = Append(trail, l)
  /\ assignments' = [assignments EXCEPT ![VarOf(l)] = SignOf(l)]
  /\ level' = [level EXCEPT ![VarOf(l)] = CurrentLevel]
  /\ reason' = [reason EXCEPT ![VarOf(l)] = r]
  /\ UNCHANGED levelLimits

(* The call propagateUntilFixpoint(l, m): its queue starts after l.        *)
StartPropagation(l, m) ==
  /\ pc' = "cleanup"
  /\ cur' = l
  /\ mode' = m
  /\ todo' = {}
  /\ qhead' = Len(trail) + 1
  /\ qend' = Len(trail) + 1
  /\ conflict' = NoClause

Return(c) ==
  /\ pc' = "idle"
  /\ cur' = 0
  /\ mode' = "include"
  /\ todo' = {}
  /\ qhead' = 0
  /\ qend' = 0
  /\ conflict' = c

(* addWatcher() for both watchers of c, in the lists of its first two      *)
(* literals.                                                               *)
WithWatchersOf(c, W) ==
  [W EXCEPT ![lits[c][1]] = @ \cup {WatcherFor(c, 1)},
            ![lits[c][2]] = @ \cup {WatcherFor(c, 2)}]

Attach(c) ==
  /\ registered' = registered \cup {c}
  /\ IF Len(lits[c]) <= 2
       THEN binWatchers' = WithWatchersOf(c, binWatchers) /\ UNCHANGED watchers
       ELSE watchers' = WithWatchersOf(c, watchers) /\ UNCHANGED binWatchers
  /\ UNCHANGED <<lits, redundant, scheduled, announced>>

(* No watcher list mentions c.  After clearClauses() this is so of deleted *)
(* clauses too, and the driver registers them anew with the others         *)
(* (synchronizeSubsystemsWithClauseDB).                                    *)
NotParticipating(c) ==
  /\ c \notin registered
  /\ \A l \in Lits : \A w \in watchers[l] \cup binWatchers[l] : w.clause # c

MarkFirstDirty(c) == dirty' = dirty \cup {lits[c][1]}      \* faulty variant
MarkDirty(c) == dirty' = dirty \cup {lits[c][1], lits[c][2]}

----------------------------------------------------------------------------
(* Public operations.  Guards are the documented preconditions.            *)

(* registerClause(): no literal of the clause is assigned.                 *)
RegisterClause(c) ==
  /\ Idle
  /\ NotParticipating(c)
  /\ \A i \in 1 .. Len(lits[c]) : Value(lits[c][i]) = 0 /\ VarOf(lits[c][i]) <= maxVar
  /\ Attach(c)
  /\ UNCHANGED <<maxVar, trailVars, phases, dirty, callVars>>

(* append(): l is unassigned.                                              *)
AppendLit(l, m) ==
  /\ Idle
  /\ VarOf(l) <= maxVar
  /\ Value(l) = 0
  /\ Assign(l, NoClause)
  /\ StartPropagation(l, m)
  /\ UNCHANGED <<clauseVars, maxVar, phases, watcherVars, dirty>>

(* registerLemma(): all literals but the first are false.                  *)
RegisterLemma(c) ==
  /\ Idle
  /\ NotParticipating(c)
  /\ VarOf(lits[c][1]) <= maxVar
  /\ Value(lits[c][1]) = 0
  /\ \A i \in 2 .. Len(lits[c]) : Value(lits[c][i]) = -1
  /\ Attach(c)
  /\ Assign(lits[c][1], c)
  /\ StartPropagation(lits[c][1], "include")
  /\ UNCHANGED <<maxVar, phases, dirty>>

NewLevel ==
  /\ Idle
  /\ levelLimits' = Append(levelLimits, Len(trail))
  /\ UNCHANGED <<clauseVars, maxVar, trail, assignments, reason, level, phases, watcherVars,
                 dirty, callVars>>

(* Faulty variant: the first popped assignment is overlooked.              *)
PopTrailToLate(n) ==
  LET popped == {VarOf(trail[i]) : i \in n + 2 .. Len(trail)}
  IN  /\ phases' = [v \in Vars |-> IF v \in popped THEN assignments[v] ELSE phases[v]]
      /\ assignments' = [v \in Vars |-> IF v \in popped THEN 0 ELSE assignments[v]]
      /\ trail' = SubSeq(trail, 1, n)

(* Clear the assignments at the trail positions after n and save them as   *)
(* phases.  The reason and level entries are left as they are.             *)
PopTrailTo(n) ==
  LET popped == {VarOf(trail[i]) : i \in n + 1 .. Len(trail)}
  IN  /\ phases' = [v \in Vars |-> IF v \in popped THEN assignments[v] ELSE phases[v]]
      /\ assignments' = [v \in Vars |-> IF v \in popped THEN 0 ELSE assignments[v]]
      /\ trail' = SubSeq(trail, 1, n)

UndoToLevel(k) ==
  /\ pc = "idle"
  /\ k \in 0 .. CurrentLevel - 1
  /\ PopTrailTo(levelLimits[k + 2])
  /\ levelLimits' = SubSeq(levelLimits, 1, k + 1)
  /\ conflict' = NoClause
  /\ UNCHANGED <<clauseVars, maxVar, reason, level, watcherVars, dirty, pc, cur, mode, todo,
                 qhead, qend>>

UndoAll ==
  /\ pc = "idle"
  /\ PopTrailTo(0)
  /\ levelLimits' = SubSeq(levelLimits, 1, 1)
  /\ conflict' = NoClause
  /\ UNCHANGED <<clauseVars, maxVar, reason, level, watcherVars, dirty, pc, cur, mode, todo,
                 qhead, qend>>

(* clearClauses(): the driver calls it with an empty trail, before it      *)
(* registers the clauses anew.  Dirty marks stay.                          *)
ClearClauses ==
  /\ Idle
  /\ trail = <<>>
  /\ registered' = {}
  /\ announced' = {}
  /\ binWatchers' = [l \in Lits |-> {}]
  /\ watchers' = [l \in Lits |-> {}]
  /\ UNCHANGED <<lits, redundant, scheduled, maxVar, trailVars, phases, dirty, callVars>>

IncreaseMaxVar(v) ==
  /\ Idle
  /\ v > maxVar
  /\ maxVar' = v
  /\ UNCHANGED <<clauseVars, trailVars, phases, watcherVars, dirty, callVars>>

----------------------------------------------------------------------------
(* Clause modifications.  The literals at the first two positions are      *)
(* reported before they are changed: until the next propagation cleans up, *)
(* watchers then are in lists of literals they no longer watch.            *)

(* registerClauseModification(): the clause is no reason.                  *)
RegisterClauseModification(c) ==
  /\ Idle
  /\ c \in registered
  /\ ~IsReason(c)
  /\ announced' = announced \cup {c}
  /\ MarkDirty(c)
  /\ UNCHANGED <<lits, redundant, scheduled, registered, maxVar, trailVars, phases, watcherVars,
                 callVars>>

(* Binary clauses may not be modified (but deleted), since cleanupWatchers *)
(* does not rewrite their watchers, and no clause may become a unit.       *)
ModifiableIfBinary(c) == Len(lits[c]) >= 2      \* faulty variant
Modifiable(c)         == Len(lits[c]) >= 3

(* Two literals of a reported clause change places.                        *)
ExchangeLiterals(c, i, j) ==
  /\ Idle
  /\ c \in announced
  /\ Modifiable(c)
  /\ i \in 1 .. Len(lits[c]) /\ j \in 1 .. Len(lits[c])
  /\ lits' = [lits EXCEPT ![c] = SwapAt(@, i, j)]
  /\ UNCHANGED <<redundant, scheduled, registered, announced, maxVar, trailVars, phases,
                 watcherVars, dirty, callVars>>

(* A reported clause loses its last literal: Clause::resize().             *)
DropLastLiteral(c) ==
  /\ Idle
  /\ c \in announced
  /\ Modifiable(c)
  /\ lits' = [lits EXCEPT ![c] = SubSeq(@, 1, Len(@) - 1)]
  /\ UNCHANGED <<redundant, scheduled, registered, announced, maxVar, trailVars, phases,
                 watcherVars, dirty, callVars>>

(* The clause is scheduled for deletion, and reported if it was not before.*)
DeleteClause(c) ==
  /\ Idle
  /\ c \in registered
  /\ ~IsReason(c)
  /\ scheduled' = scheduled \cup {c}
  /\ registered' = registered \ {c}
  /\ announced' = announced \ {c}
  /\ MarkDirty(c) \/ (c \in announced /\ UNCHANGED dirty)
  /\ UNCHANGED <<lits, redundant, maxVar, trailVars, phases, watcherVars, callVars>>

----------------------------------------------------------------------------
(* propagateUntilFixpoint().                                               *)

(* cleanupWatchers(l): drop the watchers of deleted clauses, move those of *)
(* clauses that became binary to the binary watchers and those that watch  *)
(* the wrong literal to the right list.                                    *)
Misplaced(l) ==
  {w \in watchers[l] : /\ w.clause \notin scheduled
                       /\ Len(lits[w.clause]) # 2
                       /\ lits[w.clause][w.idx] # l}
NowBinary(l) ==
  {w \in watchers[l] : w.clause \notin scheduled /\ Len(lits[w.clause]) = 2}
Kept(W) == {w \in W : w.clause \notin scheduled}

CleanupWatchers(l) ==
  /\ pc = "cleanup"
  /\ l \in dirty
  /\ watchers' =
       [k \in Lits |->
          (IF k = l THEN Kept(watchers[l]) \ (Misplaced(l) \cup NowBinary(l)) ELSE watchers[k])
          \cup {WatcherFor(w.clause, w.idx) : w \in {x \in Misplaced(l) : lits[x.clause][x.idx] = k}}]
  /\ binWatchers' =
       [k \in Lits |->
          (IF k = l THEN Kept(binWatchers[l]) ELSE binWatchers[k])
          \cup {[WatcherFor(w.clause, w.idx) EXCEPT !.red = FALSE] :
                  w \in {x \in NowBinary(l) : lits[x.clause][x.idx] = k}}]
  /\ dirty' = dirty \ {l}
  /\ UNCHANGED <<clauseVars, maxVar, trailVars, phases, callVars>>

CleanupDone ==
  /\ pc = "cleanup"
  /\ dirty = {}
  /\ pc' = "binaries"
  /\ announced' = {}
  /\ todo' = binWatchers[Neg(cur)]
  /\ UNCHANGED <<lits, redundant, scheduled, registered, maxVar, trailVars, phases, watcherVars,
                 dirty, cur, mode, qhead, qend, conflict>>

(* ++amnt_new_facts, which lengthens the queue by the literal just forced. *)
EnqueueNothing == UNCHANGED qend      \* faulty variant
Enqueue        == qend' = qend + 1

(* propagateBinaries(): one watcher w of a binary clause with literal ~cur.*)
BinaryConflict(w) ==
  /\ pc = "binaries"
  /\ w \in todo
  /\ Value(w.blocker) = -1
  /\ Return(w.clause)
  /\ UNCHANGED <<clauseVars, maxVar, trailVars, phases, watcherVars, dirty>>

BinaryForce(w) ==
  /\ pc = "binaries"
  /\ w \in todo
  /\ Value(w.blocker) = 0
  /\ Assign(w.blocker, w.clause)
  /\ Enqueue
  /\ todo' = todo \ {w}
  /\ UNCHANGED <<clauseVars, maxVar, phases, watcherVars, dirty, pc, cur, mode, qhead, conflict>>

BinarySkip(w) ==
  /\ pc = "binaries"
  /\ w \in todo
  /\ Value(w.blocker) = 1
  /\ todo' = todo \ {w}
  /\ UNCHANGED <<clauseVars, maxVar, trailVars, phases, watcherVars, dirty, pc, cur, mode,
                 qhead, qend, conflict>>

BinariesDone ==
  /\ pc = "binaries"
  /\ todo = {}
  /\ pc' = "long"
  /\ todo' = watchers[Neg(cur)]
  /\ UNCHANGED <<clauseVars, maxVar, trailVars, phases, watcherVars, dirty, cur, mode, qhead,
                 qend, conflict>>

(* propagate(): one watcher w of a longer clause, watching ~cur.           *)
OtherWatchedStale(w) == w.blocker      \* faulty variant: the swap is forgotten
OtherWatched(w)      == lits[w.clause][3 - w.idx]

LooksSatUnlessFalse(w) == Value(w.blocker) # -1      \* faulty variant
LooksSat(w) == Value(w.blocker) = 1 \/ Value(OtherWatched(w)) = 1

Excluded(w) == mode = "exclude" /\ w.red
Visiting(w) == pc = "long" /\ w \in todo
Examined(w) == Visiting(w) /\ ~Excluded(w) /\ ~LooksSat(w)

(* The position of the first literal beyond the watched ones that is not   *)
(* false.                                                                  *)
IsNewWatch(c, i) ==
  /\ i \in 3 .. Len(lits[c])
  /\ Value(lits[c][i]) # -1
  /\ \A j \in 3 .. i - 1 : Value(lits[c][j]) = -1

NoNewWatchAfterThird(c) ==      \* faulty variant: the search starts too late
  \A i \in 4 .. Len(lits[c]) : Value(lits[c][i]) = -1
NoNewWatch(c) == \A i \in 3 .. Len(lits[c]) : Value(lits[c][i]) = -1

(* removeCurrent() and addWatcher(l, w).  The watcher keeps its blocker.   *)
Relocate(w, l) ==
  watchers' = [watchers EXCEPT ![Neg(cur)] = @ \ {w}, ![l] = @ \cup {w}]

SkipWatcher(w) ==
  /\ Visiting(w)
  /\ Excluded(w) \/ LooksSat(w)
  /\ todo' = todo \ {w}
  /\ UNCHANGED <<clauseVars, maxVar, trailVars, phases, watcherVars, dirty, pc, cur, mode,
                 qhead, qend, conflict>>

MoveWatcher(w) ==
  /\ Examined(w)
  /\ \E i \in 3 .. Len(lits[w.clause]) :
       /\ IsNewWatch(w.clause, i)
       /\ lits' = [lits EXCEPT ![w.clause] = SwapAt(@, w.idx, i)]
       /\ Relocate(w, lits[w.clause][i])
  /\ todo' = todo \ {w}
  /\ UNCHANGED <<redundant, scheduled, registered, announced, maxVar, trailVars, phases,
                 binWatchers, dirty, pc, cur, mode, qhead, qend, conflict>>

LongConflict(w) ==
  /\ Examined(w)
  /\ NoNewWatch(w.clause)
  /\ Value(OtherWatched(w)) = -1
  /\ Return(w.clause)
  /\ UNCHANGED <<clauseVars, maxVar, trailVars, phases, watcherVars, dirty>>

LongForce(w) ==
  /\ Examined(w)
  /\ NoNewWatch(w.clause)
  /\ Value(OtherWatched(w)) = 0
  /\ Assign(OtherWatched(w), w.clause)
  /\ Enqueue
  /\ todo' = todo \ {w}
  /\ UNCHANGED <<clauseVars, maxVar, phases, watcherVars, dirty, pc, cur, mode, qhead, conflict>>

(* propagate() returned without conflict: take the next literal of the     *)
(* queue, or return from propagateUntilFixpoint().                         *)
NextLiteral ==
  /\ pc = "long"
  /\ todo = {}
  /\ qhead # qend
  /\ cur' = trail[qhead + 1]
  /\ qhead' = qhead + 1
  /\ pc' = "binaries"
  /\ todo' = binWatchers[Neg(trail[qhead + 1])]
  /\ UNCHANGED <<clauseVars, maxVar, trailVars, phases, watcherVars, dirty, mode, qend, conflict>>

FixpointReached ==
  /\ pc = "long"
  /\ todo = {}
  /\ qhead = qend
  /\ Return(NoClause)
  /\ UNCHANGED <<clauseVars, maxVar, trailVars, phases, watcherVars, dirty>>

----------------------------------------------------------------------------
(* The specification.                                                      *)

Propagate ==
  \/ \E l \in Lits : CleanupWatchers(l)
  \/ CleanupDone
  \/ \E w \in todo : BinaryConflict(w)
  \/ \E w \in todo : BinaryForce(w)
  \/ \E w \in todo : BinarySkip(w)
  \/ BinariesDone
  \/ \E w \in todo : SkipWatcher(w)
  \/ \E w \in todo : MoveWatcher(w)
  \/ \E w \in todo : LongConflict(w)
  \/ \E w \in todo : LongForce(w)
  \/ NextLiteral
  \/ FixpointReached

RegisterCall ==
  \/ \E c \in Clauses : RegisterClause(c)
  \/ \E c \in Clauses : RegisterLemma(c)

TrailCall ==
  \/ \E l \in Lits, m \in {"include", "exclude"} : AppendLit(l, m)
  \/ CurrentLevel < MaxLevel /\ NewLevel
  \/ \E k \in 0 .. CurrentLevel : UndoToLevel(k)
  \/ UndoAll
  \/ \E v \in Vars : IncreaseMaxVar(v)

ReportCall ==
  \/ \E c \in Clauses : RegisterClauseModification(c)
  \/ \E c \in Clauses : DeleteClause(c)

EditLiterals ==
  \/ \E c \in Clauses, i \in Vars, j \in Vars : ExchangeLiterals(c, i, j)
  \/ \E c \in Clauses : DropLastLiteral(c)

(* Any client that respects the documented preconditions.                  *)
Next == Propagate \/ RegisterCall \/ TrailCall \/ ReportCall \/ EditLiterals \/ ClearClauses

Spec == Init /\ [][Next]_vars

(* The client the solver is during one call of solve(), but for the        *)
(* shortening of clauses by facts: it registers problem clauses with an    *)
(* empty trail, always propagates lemmas, registers a lemma on the level   *)
(* of its second literal (resolveDecision backtracks to the highest level  *)
(* below that of the first literal, and deriveLemma swaps a literal of     *)
(* that level to C[1]), and deletes clauses with an empty trail.  Deleted  *)
(* clauses that the driver registers anew after clearClauses() contain a   *)
(* fact, and are left out.                                                 *)
AssertedOnItsLevel(c) == level[VarOf(lits[c][2])] = CurrentLevel

ClientNext ==
  \/ Propagate
  \/ \E c \in Clauses \ scheduled : trail = <<>> /\ RegisterClause(c)
  \/ \E c \in Clauses \ scheduled : AssertedOnItsLevel(c) /\ RegisterLemma(c)
  \/ \E l \in Lits : AppendLit(l, "include")
  \/ CurrentLevel < MaxLevel /\ NewLevel
  \/ \E k \in 0 .. CurrentLevel : UndoToLevel(k)
  \/ UndoAll
  \/ \E c \in Clauses : trail = <<>> /\ DeleteClause(c)

ClientSpec == Init /\ [][ClientNext]_vars

(* The same client beside an optimizer that reports clauses with           *)
(* registerClauseModification() and modifies them, on an empty trail.      *)
OptimizerNext ==
  /\ trail = <<>>
  /\ (\E c \in Clauses : RegisterClauseModification(c)) \/ EditLiterals

OptimizingClientSpec == Init /\ [][ClientNext \/ OptimizerNext]_vars

----------------------------------------------------------------------------
(* Type correctness.                                                       *)
ClauseTypes ==
  /\ lits \in [Clauses -> Seq(Lits)]
  /\ \A c \in Clauses : IsClause(lits[c])
  /\ redundant \in SUBSET Clauses
  /\ scheduled \in SUBSET Clauses
  /\ registered \in SUBSET Clauses
  /\ announced \in SUBSET Clauses
  /\ maxVar \in Vars

TrailTypes ==
  /\ trail \in Seq(Lits)
  /\ levelLimits \in Seq(Nat) /\ Len(levelLimits) >= 1
  /\ assignments \in [Vars -> {-1, 0, 1}]
  /\ phases \in [Vars -> {-1, 1}]
  /\ reason \in [Vars -> Clauses \cup {NoClause}]
  /\ level \in [Vars -> Nat]

WatcherTypes ==
  /\ binWatchers \in [Lits -> SUBSET Watcher]
  /\ watchers \in [Lits -> SUBSET Watcher]
  /\ dirty \in SUBSET Lits

CallTypes ==
  /\ pc \in {"idle", "cleanup", "binaries", "long"}
  /\ cur \in Lits \cup {0}
  /\ mode \in {"include", "exclude"}
  /\ todo \in SUBSET Watcher
  /\ qhead \in Nat
  /\ qend \in Nat
  /\ conflict \in Clauses \cup {NoClause}

(* Every variable has a value of its type.  Clauses keep at least two      *)
(* literals with distinct variables whatever is shortened or exchanged,    *)
(* and a popped variable always has a sign to save as its phase.           *)
TypeOK == ClauseTypes /\ TrailTypes /\ WatcherTypes /\ CallTypes

----------------------------------------------------------------------------
(* The trail, the assignment map and the levels tell the same story.       *)
TrailMatchesAssignments ==
  /\ \A i, j \in 1 .. Len(trail) : i # j => VarOf(trail[i]) # VarOf(trail[j])
  /\ \A i \in 1 .. Len(trail) : Value(trail[i]) = 1
  /\ \A v \in Vars : assignments[v] # 0 => \E i \in 1 .. Len(trail) : VarOf(trail[i]) = v

LevelsMatchTrail ==
  /\ levelLimits[1] = 0
  /\ \A k \in 1 .. Len(levelLimits) : levelLimits[k] <= Len(trail)
  /\ \A k, m \in 1 .. Len(levelLimits) : k < m => levelLimits[k] <= levelLimits[m]
  /\ \A i \in 1 .. Len(trail), k \in 1 .. Len(levelLimits) :
       levelLimits[k] < i <=> level[VarOf(trail[i])] >= k - 1
  /\ \A i \in 1 .. Len(trail) : level[VarOf(trail[i])] <= CurrentLevel

(* A trail position belongs to the level its variable is recorded with,    *)
(* every assigned variable is on the trail once, and the value map agrees  *)
(* with it: what undoToLevel(), getLevelAssignments() and conflict         *)
(* analysis take for granted after any sequence of calls.                  *)
TrailInv == TrailMatchesAssignments /\ LevelsMatchTrail

(* The documented invariant of m_watchers (Assignment.h): every registered *)
(* clause has exactly one watcher for each of its first two literals, also *)
(* in the middle of a propagation.  It is in the list of this literal, or, *)
(* if the clause may have been modified since, in a list that the next     *)
(* propagation cleans up before it looks at a watcher.  Once it has, a     *)
(* binary clause has binary watchers, and a longer one does not.           *)
TwoWatchers ==
  \A c \in registered \ scheduled, i \in {1, 2} :
    \E l \in Lits : \E w \in watchers[l] \cup binWatchers[l] :
      /\ w.clause = c
      /\ w.idx = i
      /\ \/ l = lits[c][i] /\ (w \in binWatchers[l] <=> Len(lits[c]) = 2)
         \/ l \in dirty /\ pc \in {"idle", "cleanup"} /\ w \in watchers[l]
      /\ \A m \in Lits : \A x \in watchers[m] \cup binWatchers[m] :
           x.clause = c /\ x.idx = i => x = w /\ m = l

(* Why a literal is true: the recorded reason has it among its first two   *)
(* literals, and the others became false before it did.  First-UIP         *)
(* learning, clause minimization and the failed-assumption analysis walk   *)
(* backwards along these edges.                                            *)
ReasonInv ==
  \A i \in 1 .. Len(trail) :
    LET r == reason[VarOf(trail[i])]
    IN  r # NoClause =>
          /\ trail[i] \in {lits[r][1], lits[r][2]}
          /\ \A j \in 1 .. Len(lits[r]) :
               lits[r][j] = trail[i] \/ \E p \in 1 .. i - 1 : trail[p] = Neg(lits[r][j])

(* A returned conflict is falsified by the current assignment.             *)
ConflictInv ==
  conflict # NoClause => \A j \in 1 .. Len(lits[conflict]) : Value(lits[conflict][j]) = -1

(* isReason() never overlooks the reason of an assigned literal: a clause  *)
(* it clears may be modified or deleted.                                   *)
ReasonsRecognised ==
  \A i \in 1 .. Len(trail) :
    reason[VarOf(trail[i])] # NoClause => IsReason(reason[VarOf(trail[i])])

(* Nothing is left to propagate when a call has returned without conflict: *)
(* every registered clause is satisfied or has two unassigned literals.    *)
(* It must survive backtracking, which does not touch the watchers.        *)
FalsifiedOrUnit(c) ==
  /\ \A i \in 1 .. Len(lits[c]) : Value(lits[c][i]) # 1
  /\ \A i, j \in 1 .. Len(lits[c]) : Value(lits[c][i]) = 0 /\ Value(lits[c][j]) = 0 => i = j

FixpointInv == Idle => \A c \in registered : ~FalsifiedOrUnit(c)

----------------------------------------------------------------------------
(* The refinement mapping to UnitPropagation.                              *)
UP == INSTANCE UnitPropagation WITH
        ClauseSets <- {LitSet(f[c]) : f \in Formulas, c \in Clauses},
        active    <- {LitSet(lits[c]) : c \in registered},
        assigned  <- trail,
        because   <- [i \in 1 .. Len(trail) |->
                        IF reason[VarOf(trail[i])] = NoClause THEN {}
                        ELSE LitSet(lits[reason[VarOf(trail[i])]])],
        limits    <- levelLimits,
        busy      <- pc # "idle",
        falsified <- IF conflict = NoClause THEN {} ELSE LitSet(lits[conflict])

(* Propagation with watchers makes what UnitPropagation says: each literal *)
(* made true during a call is forced by a clause that has become unit,     *)
(* which is recorded, a conflict is a falsified clause, and a call that    *)
(* returns without one leaves no unit clause behind.                       *)
ImplementsUnitPropagation == UP!Spec
=============================================================================
