----------------------------- MODULE WalkProofs -----------------------------
(***************************************************************************)
(* What a StampMap promises, for stamps of any width, maps of any size and *)
(* any client; and that the walk of conflict analysis, the redundancy      *)
(* checks and the literal block distances, which share one, yield the      *)
(* lemma that ConflictAnalysis defines, for every formula and search.      *)
(***************************************************************************)
EXTENDS ConflictWalk, TrailProofs

(* No cell holds a stamp that is still to come, so that a stamp is new     *)
(* when its context begins; after the last stamp this is due to the zeroed *)
(* cells.                                                                  *)
StampInv ==
  /\ currentStamp \in 1 .. MaxStamp
  /\ contextActive \in BOOLEAN
  /\ stamps \in [DOMAIN stamps -> 0 .. currentStamp]
  /\ \A i \in DOMAIN stamps : stamps[i] = currentStamp <=> i \in marked
  /\ marked \subseteq DOMAIN stamps
  /\ ~contextActive => marked = {}

LEMMA StampInvInit ==
  ASSUME NEW n \in Nat, InitStamps(n)
  PROVE  StampInv
<1>1. stamps = [i \in 0 .. n |-> 0] /\ currentStamp = 1 /\ marked = {}
  BY DEF InitStamps
<1>2. DOMAIN stamps = 0 .. n /\ stamps \in [0 .. n -> 0 .. 1]
  BY <1>1
<1>3. \A i \in DOMAIN stamps : stamps[i] = 0
  BY <1>1
<1>4. stamps \in [DOMAIN stamps -> 0 .. currentStamp]
  BY <1>1, <1>2
<1>5. \A i \in DOMAIN stamps : stamps[i] = currentStamp <=> i \in marked
  BY <1>1, <1>3
<1>6. currentStamp \in 1 .. MaxStamp
  BY <1>1, StampAssumption
<1> QED
  BY <1>1, <1>4, <1>5, <1>6 DEF InitStamps, StampInv

LEMMA StampInvFresh == StampInv => StampsFresh
BY DEF StampInv, StampsFresh, IsStamped

LEMMA ResizeKeeps ==
  ASSUME StampInv, NEW n \in 0 .. MaxIndex, ~contextActive, IncreaseSizeTo(n)
  PROVE  StampInv'
BY StampAssumption DEF StampInv, IncreaseSizeTo

LEMMA CreateKeeps ==
  ASSUME StampInv, NEW I \in SUBSET DOMAIN stamps, CreateContext(I)
  PROVE  StampInv'
BY StampAssumption DEF StampInv, CreateContext

LEMMA StampKeeps ==
  ASSUME StampInv, NEW I \in SUBSET DOMAIN stamps, NEW on \in BOOLEAN,
         SetStamped(I, on)
  PROVE  StampInv'
<1>1. CASE on
  BY <1>1, StampAssumption DEF StampInv, SetStamped
<1>2. CASE ~on
  BY <1>2, StampAssumption DEF StampInv, SetStamped
<1> QED
  BY <1>1, <1>2

(* When a context ends, the cells hold stamps less than the next one,      *)
(* whether the stamps begin anew or not.                                   *)
LEMMA NextStampIsNew ==
  ASSUME currentStamp \in 1 .. MaxStamp,
         NEW cells, cells \in [DOMAIN cells -> 0 .. currentStamp]
  PROVE  /\ NextStamp \in 1 .. MaxStamp
         /\ DOMAIN ClearedCells(cells) = DOMAIN cells
         /\ ClearedCells(cells) \in [DOMAIN cells -> 0 .. NextStamp]
         /\ \A i \in DOMAIN cells : ClearedCells(cells)[i] # NextStamp
BY StampAssumption DEF NextStamp, ClearedCells

LEMMA EndKeeps ==
  ASSUME StampInv, NEW cells, cells \in [DOMAIN cells -> 0 .. currentStamp],
         stamps' = ClearedCells(cells), currentStamp' = NextStamp,
         contextActive' = FALSE, marked' = {}
  PROVE  StampInv'
BY NextStampIsNew DEF StampInv

LEMMA StampOnceKeeps ==
  ASSUME StampInv, NEW I, StampOnce(I)
  PROVE  StampInv'
<1> DEFINE cells == [i \in DOMAIN stamps |-> IF i \in I THEN currentStamp ELSE stamps[i]]
<1>1. cells \in [DOMAIN cells -> 0 .. currentStamp]
  BY StampAssumption DEF StampInv
<1>2. /\ stamps' = ClearedCells(cells) /\ currentStamp' = NextStamp
      /\ contextActive' = FALSE /\ marked' = {}
  BY DEF StampOnce, StampInv
<1> QED
  BY <1>1, <1>2, EndKeeps

LEMMA ClearKeeps ==
  ASSUME StampInv, Clear
  PROVE  StampInv'
BY EndKeeps DEF Clear, StampInv

(* No step but increaseSizeTo() changes the size of the map.                *)
LEMMA StampedSize ==
  ASSUME NEW I
  PROVE  /\ CreateContext(I) => DOMAIN stamps' = DOMAIN stamps
         /\ \A on \in BOOLEAN : SetStamped(I, on) => DOMAIN stamps' = DOMAIN stamps
         /\ StampOnce(I) => DOMAIN stamps' = DOMAIN stamps
         /\ Clear => DOMAIN stamps' = DOMAIN stamps
BY DEF CreateContext, SetStamped, StampOnce, Clear, ClearedCells

LEMMA StampInvStep ==
  ASSUME StampInv, [StampNext]_stampVars
  PROVE  StampInv'
<1>1. ASSUME NEW n \in 0 .. MaxIndex, ~contextActive, IncreaseSizeTo(n)
      PROVE  StampInv'
  BY <1>1, ResizeKeeps
<1>2. ASSUME NEW I \in SUBSET DOMAIN stamps, CreateContext(I)
      PROVE  StampInv'
  BY <1>2, CreateKeeps
<1>3. ASSUME NEW I \in SUBSET DOMAIN stamps, NEW on \in BOOLEAN,
             SetStamped(I, on)
      PROVE  StampInv'
  BY <1>3, StampKeeps
<1>4. ASSUME NEW I \in SUBSET DOMAIN stamps, StampOnce(I)
      PROVE  StampInv'
  BY <1>4, StampOnceKeeps
<1>5. CASE Clear
  BY <1>5, ClearKeeps
<1>6. CASE UNCHANGED stampVars
  BY <1>6 DEF stampVars, StampInv
<1> QED
  BY <1>1, <1>2, <1>3, <1>4, <1>5, <1>6 DEF StampNext

(* Exactly what has been stamped in a context counts as stamped, for every *)
(* width of the stamps, however often they wrap around.                    *)
THEOREM StampsAreFresh == StampSpec => []StampsFresh
<1>1. StampInv /\ [StampNext]_stampVars => StampInv'
  BY StampInvStep
<1>2. StampInit => StampInv
  BY StampInvInit, StampAssumption DEF StampInit
<1> QED
  BY <1>1, <1>2, StampInvFresh, PTL DEF StampSpec

----------------------------------------------------------------------------
(* The inductive invariant of ConflictWalk.                                *)

InConflict ==
  phase \in {"walk", "minimize", "redundant", "optimize", "binaries", "derived", "backtrack"}

StampsRight ==
  /\ StampInv
  /\ DOMAIN stamps = 0 .. LastLitIndex
  /\ contextActive <=> phase \in {"minimize", "redundant"}

(* Above the assumptions, a literal without a reason is the first of a     *)
(* level, and no level is empty.                                           *)
LevelsRight ==
  /\ \A i \in 1 .. Len(assigned) : because[i] = {} =>
       UpToLevel(1, i) \/ \E k \in 3 .. Len(limits) : i = limits[k] + 1
  /\ \A k \in 3 .. Len(limits) - 1 : limits[k] < limits[k + 1]
  /\ phase # "branch" /\ Len(limits) >= 3 => limits[Len(limits)] < Len(assigned)

ControlRight ==
  /\ phase = "branch" => Len(limits) >= 3 /\ Ready /\ limits[Len(limits)] = Len(assigned)
  /\ InConflict => falsified # {} /\ Len(limits) >= 3
  /\ phase = "learn" => Ready
  /\ phase \notin {"walk", "failed"} => seen = {}
  /\ phase \in {"search", "branch"} => lemma = {}
  /\ phase # "redundant" => checking = 0 /\ work = {} /\ cleanup = {}

(* The clause being derived: its literals on the current level are the     *)
(* marked and unresolved variables, the others are in the result.          *)
WalkedTo(C) ==
  /\ lemma = C \ OnLevel(C, CurrentLevel)
  /\ seen = VarsOf(C)
  /\ unresolved = Cardinality(OnLevel(C, CurrentLevel))
  /\ \A l \in OnLevel(C, CurrentLevel) : FalseBy(l, cursor)

WalkRight ==
  phase = "walk" =>
    /\ cursor \in limits[Len(limits)] + 1 .. Len(assigned)
    /\ \E f : IsWalk(f) /\ WalkedTo(f[cursor])

(* Variables that are marked, on the trail, or implied by the lemma; the   *)
(* literals that minimization removes.                                     *)
MarkedVar(v)  == VarIndex(v) \in marked
Placed(v)     == \E i \in 1 .. Len(assigned) : VarOf(assigned[i]) = v
ImpliedVar(v) == \E i \in 1 .. Len(assigned) : VarOf(assigned[i]) = v /\ ImpliedByLemma(original)[i]

Redundant(l) ==
  IF because[Position(l)] = {} THEN LevelOf(l) = 0
  ELSE LevelOf(l) # CurrentLevel /\ ImpliedByLemma(original)[Position(l)]

(* What is marked is in the lemma, is being checked, or has been found     *)
(* implied.                                                                *)
MinimizeRight ==
  phase \in {"minimize", "redundant"} =>
    /\ original = FirstUIPClause /\ uip = AssertingLiteral(FirstUIPClause)
    /\ toCheck \subseteq original
    /\ lemma = {l \in original : l \in toCheck \/ l = checking \/ ~Redundant(l)}
    /\ \A v \in VarsOf(original) : MarkedVar(v)
    /\ \A v \in Vars : MarkedVar(v) => v \in VarsOf(original) \/ v \in cleanup \/ ImpliedVar(v)

(* The variables visited by a redundancy check: each has a reason whose    *)
(* other variables are marked, or still has to be looked at.  If the       *)
(* literal checked is implied, all of them are.                            *)
Visited     == cleanup \cup {VarOf(checking)}
Expanded(v) == \A m \in Reason(v) : VarOf(m) = v \/ LevelOf(m) = 0 \/ MarkedVar(VarOf(m))

RedundancyRight ==
  phase = "redundant" =>
    /\ checking \in original \ toCheck /\ LevelOf(checking) # CurrentLevel
    /\ cleanup \cap VarsOf(original) = {}
    /\ work \subseteq Visited
    /\ \A v \in Visited :
         /\ Placed(v) /\ Reason(v) # {} /\ MarkedVar(v)
         /\ MightContain(LevelsOf(original) \cup {0}, LevelOf(v))
         /\ v \in work \/ Expanded(v)
    /\ ImpliedVar(VarOf(checking)) => \A v \in cleanup : ImpliedVar(v)

(* The lemma after minimization, until it is learned.                      *)
LemmaRight ==
  /\ phase \in {"optimize", "binaries"} =>
       /\ lemma = WithoutRedundantLiterals(FirstUIPClause)
       /\ Cardinality(lemma) <= SizeBound
  /\ phase = "binaries" => LBD(lemma) <= LBDBound
  /\ phase \in {"derived", "backtrack"} => lemma = DerivedLemma
  /\ phase \in {"optimize", "binaries", "derived", "backtrack"} =>
       uip = AssertingLiteral(FirstUIPClause)
  /\ phase = "learn" =>
       /\ uip \in Lits
       /\ Cardinality(lemma) = 1 => Len(limits) = 1
       /\ Cardinality(lemma) # 1 => Proper(lemma) /\ Open(lemma, uip, limits[Len(limits)])

WalkIInv ==
  /\ TrailIInv /\ StampsRight /\ LevelsRight /\ ControlRight
  /\ WalkRight /\ MinimizeRight /\ RedundancyRight /\ LemmaRight
----------------------------------------------------------------------------
(* Variables, levels and reasons.                                          *)

LEMMA DecisionIsFirst ==
  ASSUME TrailIInv, LevelsRight, Len(limits) >= 3
  PROVE  DecisionFirst
  <1>1. SUFFICES ASSUME NEW i \in 1 .. Len(assigned), limits[Len(limits)] < i, because[i] = {}
                 PROVE  i = limits[Len(limits)] + 1
    BY DEF DecisionFirst
  <1>2. /\ Len(assigned) \in Nat /\ Len(limits) \in Nat
        /\ \A k \in 1 .. Len(limits) : limits[k] \in Nat
        /\ \A j, k \in 1 .. Len(limits) : j <= k => limits[j] <= limits[k]
    <2>1. TrailShape /\ \A j, k \in 1 .. Len(limits) : j <= k => limits[j] <= limits[k]
      BY DEF TrailIInv, TrailShape
    <2> QED
      BY <2>1, TrailTypes
  <1>3. ~UpToLevel(1, i)
    <2>1. 3 \in 1 .. Len(limits) /\ Len(limits) \in 1 .. Len(limits)
      BY <1>2
    <2>2. limits[3] < i
      BY <1>1, <1>2, <2>1
    <2> QED
      BY <1>2, <2>1, <2>2 DEF UpToLevel
  <1>4. PICK k \in 3 .. Len(limits) : i = limits[k] + 1
    BY <1>1, <1>3 DEF LevelsRight
  <1>5. limits[k] <= limits[Len(limits)] /\ limits[k] \in Nat /\ limits[Len(limits)] \in Nat
    BY <1>2
  <1> QED
    BY <1>1, <1>4, <1>5

(* There are not more levels than indices in the map of stamps.            *)
LEMMA LevelBound ==
  ASSUME TrailIInv, LevelsRight, phase # "branch", falsified # {}
  PROVE  /\ CurrentLevel \in 0 .. LastLitIndex
         /\ \A l \in Lits : False(l) => LevelOf(l) \in 0 .. LastLitIndex
  <1>1. /\ TrailShape /\ Len(assigned) \in Nat /\ Len(limits) \in Nat \ {0}
        /\ \A k \in 1 .. Len(limits) : limits[k] \in Nat
    BY TrailTypes DEF TrailIInv
  <1>2. Len(assigned) <= NumVars
    <2> DEFINE f == [i \in 1 .. Len(assigned) |-> VarOf(assigned[i])]
    <2>1. f \in Injection(1 .. Len(assigned), 1 .. NumVars)
      <3>1. \A i \in 1 .. Len(assigned) : VarOf(assigned[i]) \in 1 .. NumVars
        BY <1>1, TrailTypes, LitFacts DEF Vars
      <3> QED
        BY <3>1 DEF TrailIInv, TrailShape, Injection, IsInjective
    <2>2. \A n \in Nat : IsFiniteSet(1 .. n) /\ Cardinality(1 .. n) = n
      <3> TAKE n \in Nat
      <3>1. n \in Int /\ 1 \in Int
        OBVIOUS
      <3>2. IsFiniteSet(1 .. n) /\ Cardinality(1 .. n) = IF 1 > n THEN 0 ELSE n - 1 + 1
        BY <3>1, FS_Interval
      <3> QED
        BY <3>2
    <2> HIDE DEF f
    <2>3. Cardinality(1 .. Len(assigned)) <= Cardinality(1 .. NumVars)
      BY <2>1, <2>2, NumVarsAssumption, FS_Injection
    <2> QED
      BY <1>1, <2>2, <2>3, NumVarsAssumption
  <1>3. NumVars >= 2
    <2>1. PICK l \in falsified, m \in falsified : l # m /\ l \in Lits /\ m \in Lits /\ Neg(l) \notin falsified
      BY DEF TrailIInv, ConflictRight, ActiveProper, Proper
    <2>2. VarOf(l) # VarOf(m) /\ VarOf(l) \in 1 .. NumVars /\ VarOf(m) \in 1 .. NumVars
      BY <2>1, LitFacts DEF Vars
    <2> QED
      BY <2>2, NumVarsAssumption
  <1>4. Len(limits) >= 3 => Len(limits) - 2 <= Len(assigned)
    <2> DEFINE T == {n \in Nat : n + 3 <= Len(limits) => n <= limits[n + 3]}
    <2>1. 0 \in T
      BY <1>1
    <2>2. ASSUME NEW n \in Nat, n \in T
          PROVE  n + 1 \in T
      <3> SUFFICES ASSUME (n + 1) + 3 <= Len(limits)
                   PROVE  n + 1 <= limits[(n + 1) + 3]
        OBVIOUS
      <3>1. /\ n + 3 \in 3 .. Len(limits) - 1 /\ (n + 1) + 3 = (n + 3) + 1
            /\ n + 3 \in 1 .. Len(limits) /\ (n + 3) + 1 \in 1 .. Len(limits)
        BY <1>1
      <3>2. limits[n + 3] < limits[(n + 3) + 1] /\ n <= limits[n + 3]
        BY <2>2, <3>1 DEF LevelsRight
      <3> QED
        BY <1>1, <3>1, <3>2
    <2>3. \A n \in Nat : n \in T
      <3> HIDE DEF T
      <3> QED
        BY <2>1, <2>2, Induction
    <2>4. SUFFICES ASSUME Len(limits) >= 3
                   PROVE  Len(limits) - 2 <= Len(assigned)
      OBVIOUS
    <2>5. Len(limits) - 3 \in T
      BY <1>1, <2>3, <2>4
    <2>6. Len(limits) - 3 <= limits[Len(limits)]
      <3>1. (Len(limits) - 3) + 3 = Len(limits) /\ Len(limits) - 3 \in Nat
        BY <1>1, <2>4
      <3> QED
        BY <2>5, <3>1
    <2>7. limits[Len(limits)] < Len(assigned) /\ Len(limits) \in 1 .. Len(limits)
      BY <1>1, <2>4 DEF LevelsRight
    <2> QED
      BY <1>1, <2>6, <2>7
  <1>5. CurrentLevel \in 0 .. LastLitIndex
    BY <1>1, <1>2, <1>3, <1>4, NumVarsAssumption DEF CurrentLevel, LastLitIndex
  <1>6. ASSUME NEW l \in Lits, False(l)
        PROVE  LevelOf(l) \in 0 .. LastLitIndex
    <2>1. LevelOf(l) \in 0 .. CurrentLevel
      <3>1. FalseBy(l, Len(assigned)) /\ Len(assigned) <= Len(assigned)
        BY <1>1, <1>6, Unassignable
      <3> QED
        BY <1>1, <3>1, FalseLiteral
    <2> QED
      BY <1>5, <2>1, NumVarsAssumption DEF LastLitIndex
  <1> QED
    BY <1>5, <1>6

(* The operators of conflict analysis depend on the trail and the clauses. *)
LEMMA SameAnalysis ==
  ASSUME UNCHANGED absVars
  PROVE  /\ UNCHANGED <<active, assigned, because, limits, busy, falsified>>
         /\ CurrentLevel' = CurrentLevel
         /\ \A l : Position(l)' = Position(l) /\ LevelOf(l)' = LevelOf(l)
         /\ \A C : /\ LevelsOf(C)' = LevelsOf(C)
                   /\ OnLevel(C, CurrentLevel)' = OnLevel(C, CurrentLevel)
         /\ FirstUIPClause' = FirstUIPClause
         /\ AssertingLiteral(FirstUIPClause)' = AssertingLiteral(FirstUIPClause)
         /\ DerivedLemma' = DerivedLemma
         /\ \A C : ImpliedByLemma(C)' = ImpliedByLemma(C)
         /\ \A C : LBD(C)' = LBD(C)
         /\ WithoutRedundantLiterals(FirstUIPClause)' = WithoutRedundantLiterals(FirstUIPClause)
  <1>1. UNCHANGED <<active, assigned, because, limits, busy, falsified>>
    BY DEF absVars
  <1>2. CurrentLevel' = CurrentLevel
    BY <1>1 DEF CurrentLevel
  <1>3. \A l : Position(l)' = Position(l) /\ LevelOf(l)' = LevelOf(l)
    BY <1>1 DEF Position, LevelOf, LevelAt
  <1>4. \A C : /\ LevelsOf(C)' = LevelsOf(C)
               /\ OnLevel(C, CurrentLevel)' = OnLevel(C, CurrentLevel)
    BY <1>2, <1>3 DEF LevelsOf, OnLevel
  <1>5. FirstUIPClause' = FirstUIPClause
    BY <1>1 DEF Position, LevelOf, OnLevel, LevelAt, FirstUIPClause, AtUIP, CurrentLevel, Resolvent
  <1>6. AssertingLiteral(FirstUIPClause)' = AssertingLiteral(FirstUIPClause)
    <2>1. \A l : LevelOf(l)' = CurrentLevel' <=> LevelOf(l) = CurrentLevel
      BY <1>2, <1>3
    <2> QED
      BY <1>1 DEF AssertingLiteral, Position, LevelOf, OnLevel, LevelAt, FirstUIPClause, AtUIP,
                  CurrentLevel, Resolvent
  <1>7. DerivedLemma' = DerivedLemma
    BY <1>1 DEF DerivedLemma, Position, LevelOf, OnLevel, LevelAt, WithoutRedundantLiterals,
                FirstUIPClause, ImpliedByLemma, AtUIP, CurrentLevel, Resolvent, LBD, LevelsOf,
                ResolvedWithBinaries, AssertingLiteral
  <1>8. \A C : ImpliedByLemma(C)' = ImpliedByLemma(C)
    BY <1>1 DEF ImpliedByLemma, Position, LevelOf, LevelAt, LevelsOf
  <1>9. \A C : LBD(C)' = LBD(C)
    BY <1>4 DEF LBD
  <1>10. WithoutRedundantLiterals(FirstUIPClause)' = WithoutRedundantLiterals(FirstUIPClause)
    BY <1>1 DEF Position, LevelOf, OnLevel, LevelAt, FirstUIPClause, AtUIP, CurrentLevel, Resolvent,
                WithoutRedundantLiterals, ImpliedByLemma, LevelsOf
  <1> QED
    BY <1>1, <1>2, <1>3, <1>4, <1>5, <1>6, <1>7, <1>8, <1>9, <1>10
----------------------------------------------------------------------------
(* The steps of the search.                                                *)

LEMMA GrowingWalkLevels ==
  ASSUME TrailIInv, LevelsRight, NEW l \in Lits, NEW R \in SUBSET Lits, Grows(l, R),
         R = {} =>
           \/ Len(limits) <= 2
           \/ Len(limits) >= 3 /\ limits[Len(limits)] = Len(assigned)
  PROVE  LevelsRight'
  <1>1. /\ Len(assigned') = Len(assigned) + 1 /\ Len(assigned) \in Nat /\ Len(limits) \in Nat
        /\ assigned'[Len(assigned) + 1] = l /\ because'[Len(assigned) + 1] = R
        /\ \A i \in 1 .. Len(assigned) : assigned'[i] = assigned[i] /\ because'[i] = because[i]
        /\ limits' = limits
    BY Growing, TrailTypes DEF TrailIInv, Grows
  <1>2. \A i \in 1 .. Len(assigned') : i \in 1 .. Len(assigned) \/ i = Len(assigned) + 1
    BY <1>1
  <1>3. /\ \A i : UpToLevel(1, i)' <=> UpToLevel(1, i)
        /\ UpToLevel(1, Len(assigned) + 1) <=> Len(limits) <= 2
    <2>1. TrailShape /\ 1 \in Nat /\ 1 + 1 = 2
      BY DEF TrailIInv
    <2> QED
      BY <2>1, GrowingUpTo
  <1>4. ASSUME NEW i \in 1 .. Len(assigned'), because'[i] = {}
        PROVE  UpToLevel(1, i) \/ \E k \in 3 .. Len(limits) : i = limits[k] + 1
    <2>1. CASE i \in 1 .. Len(assigned)
      BY <1>1, <1>4, <2>1 DEF LevelsRight
    <2>2. CASE i = Len(assigned) + 1
      <3>1. R = {}
        BY <1>1, <1>4, <2>2
      <3>2. CASE Len(limits) <= 2
        BY <1>3, <2>2, <3>2
      <3>3. CASE Len(limits) >= 3 /\ limits[Len(limits)] = Len(assigned)
        <4>1. Len(limits) \in 3 .. Len(limits)
          BY <1>1, <3>3
        <4> QED
          BY <2>2, <3>3, <4>1
      <3> QED
        BY <3>1, <3>2, <3>3
    <2> QED
      BY <1>2, <2>1, <2>2
  <1>5. Len(limits) >= 3 => limits[Len(limits)] < Len(assigned')
    <2>1. Len(limits) \in Nat \ {0} /\ limits[Len(limits)] \in 0 .. Len(assigned)
      BY TrailTypes DEF TrailIInv
    <2> QED
      BY <1>1, <2>1
  <1> QED
    BY <1>1, <1>3, <1>4, <1>5 DEF LevelsRight

(* What is left of the invariant while there is no conflict.               *)
LEMMA NoConflict ==
  ASSUME TrailIInv', StampsRight', LevelsRight', ControlRight',
         phase' \in {"search", "branch", "learn"},
         phase' = "learn" =>
           /\ uip' \in Lits
           /\ Cardinality(lemma') = 1 => Len(limits') = 1
           /\ Cardinality(lemma') # 1 => Proper(lemma') /\ Open(lemma, uip, limits[Len(limits)])'
  PROVE  WalkIInv'
  <1>1. WalkRight' /\ MinimizeRight' /\ RedundancyRight' /\ LemmaRight'
    BY DEF WalkRight, MinimizeRight, RedundancyRight, LemmaRight, Proper
  <1> QED
    BY <1>1 DEF WalkIInv

(* The stamps, when a step leaves them alone.                              *)
LEMMA StampsAlone ==
  ASSUME StampsRight, UNCHANGED stampVars,
         phase' \in {"minimize", "redundant"} <=> phase \in {"minimize", "redundant"}
  PROVE  StampsRight'
  <1>1. StampInv'
    BY DEF StampsRight, StampInv, stampVars
  <1>2. DOMAIN stamps' = 0 .. LastLitIndex /\ (contextActive' <=> phase' \in {"minimize", "redundant"})
    BY DEF StampsRight, stampVars
  <1> QED
    BY <1>1, <1>2 DEF StampsRight, LastLitIndex

LEMMA InitRight == CWInit => WalkIInv
  <1> SUFFICES ASSUME CWInit
               PROVE  WalkIInv
    OBVIOUS
  <1>1. ActiveProper
    BY FormulasAssumption, ClauseSetsAssumption DEF CWInit, ActiveProper, Proper
  <1>2. TrailIInv
    BY <1>1, EmptyTrailRight DEF CWInit, EmptyTrail
  <1>3. StampsRight
    <2>1. LastLitIndex \in Nat
      BY NumVarsAssumption DEF LastLitIndex
    <2>2. InitStamps(LastLitIndex) /\ phase = "search"
      BY DEF CWInit
    <2>3. StampInv
      BY <2>1, <2>2, StampInvInit
    <2>4. DOMAIN stamps = 0 .. LastLitIndex /\ contextActive = FALSE
      BY <2>2 DEF InitStamps
    <2> QED
      BY <2>2, <2>3, <2>4 DEF StampsRight
  <1>4. LevelsRight
    <2>1. Len(assigned) = 0 /\ Len(limits) = 1
      BY DEF CWInit
    <2> QED
      BY <2>1 DEF LevelsRight
  <1>5. ControlRight
    BY DEF CWInit, ControlRight, InConflict
  <1>6. WalkRight /\ MinimizeRight /\ RedundancyRight /\ LemmaRight
    BY DEF CWInit, WalkRight, MinimizeRight, RedundancyRight, LemmaRight
  <1> QED
    BY <1>2, <1>3, <1>4, <1>5, <1>6 DEF WalkIInv

LEMMA SystemLiteralStep ==
  ASSUME WalkIInv, NEW l \in SystemLits, SystemLiteral(l)
  PROVE  WalkIInv'
  <1>1. /\ TrailIInv /\ StampsRight /\ LevelsRight /\ ControlRight /\ l \in Lits
        /\ phase = "search" /\ phase' = "search" /\ Decide(l)
        /\ UNCHANGED <<stampVars, seen, lemma, checking, work, cleanup>>
    BY WalkAssumption DEF WalkIInv, SystemLiteral, walkVars, miniVars
  <1>2. TrailIInv' /\ Grows(l, {}) /\ Len(limits) <= 2
    <2>1. Len(limits) \in Nat /\ CurrentLevel <= 1
      BY <1>1, TrailTypes DEF TrailIInv, SystemLiteral
    <2> QED
      BY <1>1, <2>1, DecideStep DEF Decide, Grows, CurrentLevel
  <1>3. LevelsRight'
    BY <1>1, <1>2, GrowingWalkLevels
  <1>4. StampsRight' /\ ControlRight'
    BY <1>1, StampsAlone DEF ControlRight, InConflict
  <1> QED
    BY <1>1, <1>2, <1>3, <1>4, NoConflict

LEMMA PropagationStep ==
  ASSUME WalkIInv, Propagation
  PROVE  WalkIInv'
  <1>1. /\ TrailIInv /\ StampsRight /\ LevelsRight /\ ControlRight
        /\ phase = "search" /\ phase' = "search"
        /\ UNCHANGED <<stampVars, seen, lemma, checking, work, cleanup>>
    BY DEF WalkIInv, Propagation, walkVars, miniVars
  <1>2. StampsRight' /\ ControlRight'
    BY <1>1, StampsAlone DEF ControlRight, InConflict
  <1>3. TrailIInv' /\ LevelsRight'
    <2>1. ASSUME NEW C \in active, NEW l \in Lits, ForceUnit(C, l)
          PROVE  TrailIInv' /\ LevelsRight'
      <3>1. Grows(l, C) /\ C \in SUBSET Lits /\ C # {}
        BY <1>1, <2>1 DEF ForceUnit, Forces, Grows, TrailIInv, ActiveProper, Proper
      <3> QED
        BY <1>1, <2>1, <3>1, ForceStep, GrowingWalkLevels
    <2>2. ASSUME UNCHANGED <<assigned, because, limits>>
          PROVE  LevelsRight'
      BY <1>1, <2>2 DEF LevelsRight, UpToLevel
    <2>3. ASSUME NEW C \in active, Fail(C)
          PROVE  TrailIInv' /\ LevelsRight'
      BY <1>1, <2>2, <2>3, FailStep DEF Fail
    <2>4. CASE Succeed
      BY <1>1, <2>2, <2>4, SucceedStep DEF Succeed
    <2> QED
      BY <2>1, <2>3, <2>4 DEF Propagation
  <1> QED
    BY <1>1, <1>2, <1>3, NoConflict

(* A level is opened when the last one is not empty.                       *)
LEMMA OpeningWalkLevels ==
  ASSUME TrailIInv, LevelsRight, OpenLevel, phase # "branch",
         phase' = "branch" \/ Len(limits) = 1
  PROVE  /\ LevelsRight'
         /\ Len(limits') = Len(limits) + 1 /\ limits'[Len(limits')] = Len(assigned')
  <1>1. /\ Len(limits) \in Nat \ {0} /\ Len(assigned) \in Nat
        /\ Len(limits') = Len(limits) + 1 /\ limits'[Len(limits) + 1] = Len(assigned)
        /\ \A k \in 1 .. Len(limits) : limits'[k] = limits[k]
        /\ assigned' = assigned /\ because' = because
    BY OpenLevelStep, TrailTypes DEF TrailIInv, OpenLevel
  <1>2. \A i \in 1 .. Len(assigned) : UpToLevel(1, i)' <=> UpToLevel(1, i)
    BY OpeningUpTo, 1 \in Nat
  <1>3. \A k \in 3 .. Len(limits) : k \in 3 .. Len(limits') /\ limits'[k] = limits[k]
    BY <1>1
  <1>4. ASSUME NEW i \in 1 .. Len(assigned'), because'[i] = {}
        PROVE  UpToLevel(1, i)' \/ \E k \in 3 .. Len(limits') : i = limits'[k] + 1
    <2>1. UpToLevel(1, i) \/ \E k \in 3 .. Len(limits) : i = limits[k] + 1
      BY <1>1, <1>4 DEF LevelsRight
    <2> QED
      BY <1>1, <1>2, <1>3, <2>1
  <1>5. ASSUME NEW k \in 3 .. Len(limits') - 1
        PROVE  limits'[k] < limits'[k + 1]
    <2>1. CASE k = Len(limits)
      BY <1>1, <1>5, <2>1 DEF LevelsRight
    <2>2. CASE k # Len(limits)
      <3>1. k \in 3 .. Len(limits) - 1 /\ k \in 1 .. Len(limits) /\ k + 1 \in 1 .. Len(limits)
        BY <1>1, <2>2
      <3> QED
        BY <1>1, <3>1 DEF LevelsRight
    <2> QED
      BY <2>1, <2>2
  <1>6. phase' # "branch" /\ Len(limits') >= 3 => limits'[Len(limits')] < Len(assigned')
    BY <1>1
  <1> QED
    BY <1>1, <1>4, <1>5, <1>6 DEF LevelsRight

LEMMA BeginAssumptionsStep ==
  ASSUME WalkIInv, BeginAssumptions
  PROVE  WalkIInv'
  <1>1. /\ TrailIInv /\ StampsRight /\ LevelsRight /\ ControlRight
        /\ phase = "search" /\ phase' = "search" /\ OpenLevel
        /\ UNCHANGED <<stampVars, seen, lemma, checking, work, cleanup>>
    BY DEF WalkIInv, BeginAssumptions, walkVars, miniVars
  <1>2. TrailIInv' /\ Len(limits) = 1
    <2>1. Len(limits) \in Nat /\ CurrentLevel = 0
      BY <1>1, TrailTypes DEF TrailIInv, BeginAssumptions
    <2> QED
      BY <1>1, <2>1, OpenLevelStep DEF CurrentLevel
  <1>3. LevelsRight'
    BY <1>1, <1>2, OpeningWalkLevels
  <1>4. StampsRight' /\ ControlRight'
    BY <1>1, StampsAlone DEF ControlRight, InConflict
  <1> QED
    BY <1>1, <1>2, <1>3, <1>4, NoConflict

LEMMA NewDecisionLevelStep ==
  ASSUME WalkIInv, NewDecisionLevel
  PROVE  WalkIInv'
  <1>1. /\ TrailIInv /\ StampsRight /\ LevelsRight /\ ControlRight
        /\ phase = "search" /\ phase' = "branch" /\ OpenLevel
        /\ UNCHANGED <<stampVars, seen, lemma, checking, work, cleanup>>
    BY DEF WalkIInv, NewDecisionLevel, walkVars, miniVars
  <1>2. TrailIInv' /\ Len(limits) >= 2 /\ Len(limits) \in Nat
    <2>1. Len(limits) \in Nat /\ CurrentLevel >= 1
      BY <1>1, TrailTypes DEF TrailIInv, NewDecisionLevel
    <2> QED
      BY <1>1, <2>1, OpenLevelStep DEF CurrentLevel
  <1>3. LevelsRight' /\ Len(limits') >= 3 /\ limits'[Len(limits')] = Len(assigned') /\ Ready'
    <2>1. LevelsRight' /\ Len(limits') = Len(limits) + 1 /\ limits'[Len(limits')] = Len(assigned')
      BY <1>1, OpeningWalkLevels
    <2>2. Ready'
      BY <1>1 DEF OpenLevel, Ready
    <2> QED
      BY <1>2, <2>1, <2>2
  <1>4. StampsRight' /\ ControlRight'
    BY <1>1, <1>3, StampsAlone DEF ControlRight, InConflict
  <1> QED
    BY <1>1, <1>2, <1>3, <1>4, NoConflict

LEMMA DecisionStep ==
  ASSUME WalkIInv, NEW l \in Lits, Decision(l)
  PROVE  WalkIInv'
  <1>1. /\ TrailIInv /\ StampsRight /\ LevelsRight /\ ControlRight
        /\ phase = "branch" /\ phase' = "search" /\ Decide(l)
        /\ UNCHANGED <<stampVars, seen, lemma, checking, work, cleanup>>
        /\ Len(limits) >= 3 /\ limits[Len(limits)] = Len(assigned)
    BY DEF WalkIInv, Decision, walkVars, miniVars, ControlRight
  <1>2. TrailIInv' /\ Grows(l, {})
    BY <1>1, DecideStep DEF Decide, Grows
  <1>3. LevelsRight'
    BY <1>1, <1>2, GrowingWalkLevels
  <1>4. StampsRight' /\ ControlRight'
    BY <1>1, StampsAlone DEF ControlRight, InConflict
  <1> QED
    BY <1>1, <1>2, <1>3, <1>4, NoConflict

LEMMA LearnLemmaStep ==
  ASSUME WalkIInv, LearnLemma
  PROVE  WalkIInv'
  <1>1. /\ TrailIInv /\ StampsRight /\ LevelsRight /\ ControlRight
        /\ phase = "learn" /\ phase' = "search"
        /\ UNCHANGED <<stampVars, seen, checking, work, cleanup>> /\ lemma' = {}
        /\ uip \in Lits
        /\ Cardinality(lemma) = 1 => Len(limits) = 1
        /\ Cardinality(lemma) # 1 => Proper(lemma) /\ Open(lemma, uip, limits[Len(limits)])
    BY DEF WalkIInv, LearnLemma, walkVars, LemmaRight
  <1>2. StampsRight' /\ ControlRight'
    BY <1>1, StampsAlone DEF ControlRight, InConflict
  <1>3. CASE Cardinality(lemma) = 1
    <2>1. Decide(uip)
      BY <1>3 DEF LearnLemma
    <2>2. TrailIInv' /\ Grows(uip, {}) /\ Len(limits) <= 2
      <3>1. Len(limits) = 1 /\ TrailIInv'
        BY <1>1, <1>3, <2>1, DecideStep
      <3> QED
        BY <2>1, <3>1 DEF Decide, Grows
    <2>3. LevelsRight'
      BY <1>1, <2>2, GrowingWalkLevels
    <2> QED
      BY <1>1, <1>2, <2>2, <2>3, NoConflict
  <1>4. CASE Cardinality(lemma) # 1
    <2>1. Learn(lemma, uip)
      BY <1>4 DEF LearnLemma
    <2>2. TrailIInv' /\ Grows(uip, lemma) /\ lemma \in SUBSET Lits /\ lemma # {}
      BY <1>1, <1>4, <2>1, LearnStep DEF Learn, Forces, Grows, Proper
    <2>3. LevelsRight'
      BY <1>1, <2>2, GrowingWalkLevels
    <2> QED
      BY <1>1, <1>2, <2>2, <2>3, NoConflict
  <1> QED
    BY <1>3, <1>4

LEMMA UndoingWalkLevels ==
  ASSUME TrailIInv, LevelsRight, NEW k, Undo(k), phase' # "branch"
  PROVE  LevelsRight'
  <1>1. /\ k \in 0 .. Len(limits) - 2
        /\ Len(assigned') = limits[k + 2] /\ limits[k + 2] \in 0 .. Len(assigned)
        /\ \A i \in 1 .. Len(assigned') : assigned'[i] = assigned[i] /\ because'[i] = because[i]
        /\ Len(limits') = k + 1 /\ \A j \in 1 .. k + 1 : limits'[j] = limits[j]
        /\ \A i \in 1 .. Len(assigned') : UpToLevel(1, i)' <=> UpToLevel(1, i)
    BY UndoStep, UndoUpTo, 1 \in Nat
  <1>2. /\ Len(limits) \in Nat /\ Len(assigned) \in Nat
        /\ \A j \in 1 .. Len(limits) : limits[j] \in 0 .. Len(assigned)
        /\ \A i, j \in 1 .. Len(limits) : i <= j => limits[i] <= limits[j]
    <2>1. TrailShape /\ \A i, j \in 1 .. Len(limits) : i <= j => limits[i] <= limits[j]
      BY DEF TrailIInv, TrailShape
    <2> QED
      BY <2>1, TrailTypes
  <1>3. ASSUME NEW i \in 1 .. Len(assigned'), because'[i] = {}
        PROVE  UpToLevel(1, i)' \/ \E j \in 3 .. Len(limits') : i = limits'[j] + 1
    <2>1. i \in 1 .. Len(assigned) /\ because[i] = {}
      BY <1>1, <1>2, <1>3
    <2>2. CASE UpToLevel(1, i)
      BY <1>1, <2>2
    <2>3. CASE ~UpToLevel(1, i)
      <3>1. PICK j \in 3 .. Len(limits) : i = limits[j] + 1
        BY <2>1, <2>3 DEF LevelsRight
      <3>2. j \in 3 .. k + 1
        <4> SUFFICES ASSUME j >= k + 2
                     PROVE  FALSE
          BY <1>1, <1>2
        <4>1. j \in 1 .. Len(limits) /\ k + 2 \in 1 .. Len(limits)
          BY <1>1, <1>2
        <4>2. limits[k + 2] <= limits[j]
          BY <1>2, <4>1
        <4> QED
          BY <1>1, <1>2, <3>1, <4>1, <4>2
      <3> QED
        BY <1>1, <3>1, <3>2
    <2> QED
      BY <2>2, <2>3
  <1>4. ASSUME NEW j \in 3 .. k + 1
        PROVE  limits[j] < limits[j + 1]
    BY <1>1, <1>2 DEF LevelsRight
  <1>5. \A j \in 3 .. Len(limits') - 1 : limits'[j] < limits'[j + 1]
    BY <1>1, <1>4
  <1>6. Len(limits') >= 3 => limits'[Len(limits')] < Len(assigned')
    <2> SUFFICES ASSUME k + 1 >= 3
                 PROVE  limits'[k + 1] < limits[k + 2]
      BY <1>1
    <2>1. limits[k + 1] < limits[(k + 1) + 1] /\ limits'[k + 1] = limits[k + 1] /\ (k + 1) + 1 = k + 2
      BY <1>1, <1>4
    <2> QED
      BY <2>1
  <1> QED
    BY <1>3, <1>5, <1>6 DEF LevelsRight

(* The level jumped to is that of another literal of the lemma, and the    *)
(* greatest of these.                                                      *)
LEMMA HighestOtherRight ==
  ASSUME TrailShape, lemma \in SUBSET Lits, \A l \in lemma : False(l),
         OnLevel(lemma, CurrentLevel) = {uip}, lemma # {uip}
  PROVE  /\ \E l \in lemma \ {uip} : LevelOf(l) = HighestOther
         /\ \A l \in lemma \ {uip} : LevelOf(l) <= HighestOther
         /\ HighestOther \in 0 .. CurrentLevel
         /\ HighestOther # CurrentLevel
  <1> DEFINE T == {0} \cup {LevelOf(l) : l \in lemma \ {uip}}
  <1>1. Len(assigned) \in Nat /\ CurrentLevel \in Nat
    BY TrailTypes DEF CurrentLevel
  <1>2. \A l \in lemma : LevelOf(l) \in 0 .. CurrentLevel
    BY <1>1, FalseLiteral, Unassignable
  <1>3. \A l \in lemma \ {uip} : LevelOf(l) # CurrentLevel
    BY DEF OnLevel
  <1>4. PICK m : m \in lemma \ {uip}
    BY DEF OnLevel
  <1>5. T \in SUBSET Nat /\ T # {} /\ \A k \in T : k <= CurrentLevel
    BY <1>1, <1>2
  <1>6. \A l \in lemma \ {uip} : LevelOf(l) \in T
    OBVIOUS
  <1>7. \A k \in T : k = 0 \/ \E l \in lemma \ {uip} : LevelOf(l) = k
    OBVIOUS
  <1>8. HighestOther = CHOOSE k \in T : \A j \in T : k >= j
    BY DEF HighestOther, Max
  <1> HIDE DEF T
  <1>9. \E k \in T : \A j \in T : k >= j
    BY <1>1, <1>5, Greatest
  <1>10. HighestOther \in T /\ \A j \in T : HighestOther >= j
    BY <1>8, <1>9
  <1>11. HighestOther \in Nat /\ LevelOf(m) \in Nat /\ LevelOf(m) <= HighestOther
    BY <1>4, <1>5, <1>6, <1>10
  <1>12. \E l \in lemma \ {uip} : LevelOf(l) = HighestOther
    <2>1. CASE HighestOther = 0
      BY <1>4, <1>11, <2>1
    <2>2. CASE HighestOther # 0
      BY <1>7, <1>10, <2>2
    <2> QED
      BY <2>1, <2>2
  <1>13. \A l \in lemma \ {uip} : LevelOf(l) <= HighestOther
    BY <1>5, <1>6, <1>10
  <1> QED
    BY <1>2, <1>3, <1>12, <1>13

(* After backtracking the lemma has another literal on the current level.  *)
LEMMA LemmaOpen ==
  ASSUME TrailIInv, NEW k, Undo(k), NEW l \in Lits, False(l), LevelOf(l) = k
  PROVE  ~FalseBy(l, limits[Len(limits)])'
  <1>1. /\ k \in 0 .. Len(limits) - 2
        /\ Len(assigned') = limits[k + 2] /\ limits[k + 2] \in 0 .. Len(assigned)
        /\ \A i \in 1 .. Len(assigned') : assigned'[i] = assigned[i]
        /\ Len(limits') = k + 1 /\ \A j \in 1 .. k + 1 : limits'[j] = limits[j]
    BY UndoStep
  <1>2. TrailShape /\ Len(assigned) \in Nat /\ Len(limits) \in Nat
    BY TrailTypes DEF TrailIInv
  <1>3. /\ Position(l) \in 1 .. Len(assigned) /\ assigned[Position(l)] = Neg(l)
        /\ LevelOf(l) = LevelAt(Position(l))
    BY <1>2, FalseLiteral, Unassignable
  <1>4. limits'[Len(limits')] = limits[k + 1] /\ Len(assigned') >= limits[k + 1]
    <2>1. k + 1 \in 1 .. Len(limits) /\ k + 2 \in 1 .. Len(limits)
      BY <1>1, <1>2
    <2> QED
      BY <1>1, <1>2, <2>1 DEF TrailShape
  <1>5. limits[k + 1] < Position(l)
    <2>1. CASE k = 0
      <3>1. limits[k + 1] = 0
        BY <1>2, <2>1 DEF TrailShape
      <3> QED
        BY <1>3, <3>1
    <2>2. CASE k # 0
      <3>1. k \in 1 .. CurrentLevel /\ LevelAt(Position(l)) >= k
        BY <1>1, <1>2, <1>3, <2>2 DEF CurrentLevel
      <3> QED
        BY <1>2, <1>3, <3>1, Levels
    <2> QED
      BY <2>1, <2>2
  <1>6. \A p \in 1 .. limits[k + 1] : assigned'[p] # Neg(l)
    <2> SUFFICES ASSUME NEW p \in 1 .. limits[k + 1], assigned'[p] = Neg(l)
                 PROVE  FALSE
      OBVIOUS
    <2>1. limits[k + 1] \in Nat
      BY <1>1, <1>2, TrailTypes
    <2>2. p \in 1 .. Len(assigned') /\ p \in 1 .. Len(assigned)
      BY <1>1, <1>2, <1>4, <2>1
    <2>3. assigned[p] = assigned[Position(l)]
      BY <1>1, <1>3, <2>2
    <2>4. p = Position(l)
      BY <1>2, <1>3, <2>2, <2>3, Consistent
    <2> QED
      BY <1>5, <2>1, <2>4
  <1> QED
    BY <1>4, <1>6 DEF FalseBy

LEMMA BacktrackStep ==
  ASSUME WalkIInv, Backtrack
  PROVE  WalkIInv'
  <1>1. /\ TrailIInv /\ TrailShape /\ StampsRight /\ LevelsRight /\ ControlRight
        /\ phase = "backtrack" /\ phase' = "learn"
        /\ UNCHANGED <<stampVars, seen, uip, lemma, checking, work, cleanup>>
        /\ lemma = DerivedLemma /\ uip = AssertingLiteral(FirstUIPClause)
        /\ falsified # {} /\ Len(limits) >= 3
    BY DEF WalkIInv, TrailIInv, Backtrack, walkVars, miniVars, LemmaRight, ControlRight, InConflict
  <1>2. Len(limits) \in Nat /\ Len(limits) >= 2 /\ DecisionFirst
    BY <1>1, TrailTypes, DecisionIsFirst
  <1>3. /\ lemma \in SUBSET Lits
        /\ \A l \in lemma : False(l)
        /\ OnLevel(lemma, CurrentLevel) = {uip}
    BY <1>1, <1>2, DerivedLemmaRight
  <1>4. uip \in lemma /\ uip \in Lits
    BY <1>3 DEF OnLevel
  <1>5. Cardinality(lemma) = 1 <=> lemma = {uip}
    BY <1>3, <1>4, AtMostOne
  <1>6. CASE Cardinality(lemma) = 1
    <2>1. Reset
      BY <1>6 DEF Backtrack
    <2>2. TrailIInv' /\ Len(assigned') = 0 /\ Len(limits') = 1 /\ Ready'
      BY <1>1, <2>1, ResetStep DEF Reset, Ready, TrailIInv, ConflictRight
    <2>3. LevelsRight'
      BY <1>1, <2>2 DEF LevelsRight
    <2>4. StampsRight' /\ ControlRight'
      BY <1>1, <2>2, StampsAlone DEF ControlRight, InConflict
    <2> QED
      BY <1>1, <1>4, <1>6, <2>2, <2>3, <2>4, NoConflict
  <1>7. CASE Cardinality(lemma) # 1
    <2> DEFINE k == HighestOther
    <2>1. Undo(k)
      BY <1>7 DEF Backtrack
    <2>2. PICK l \in lemma \ {uip} : LevelOf(l) = k
      BY <1>1, <1>3, <1>5, <1>7, HighestOtherRight
    <2> HIDE DEF k
    <2>3. TrailIInv' /\ LevelsRight'
      BY <1>1, <2>1, UndoStep, UndoingWalkLevels
    <2>4. Ready'
      BY <1>1, <2>1 DEF Undo, Ready, TrailIInv, ConflictRight
    <2>5. StampsRight' /\ ControlRight'
      BY <1>1, <2>4, StampsAlone DEF ControlRight, InConflict
    <2>6. Open(lemma, uip, limits[Len(limits)])'
      <3>1. ~FalseBy(l, limits[Len(limits)])'
        BY <1>1, <1>3, <2>1, <2>2, LemmaOpen
      <3> QED
        BY <1>1, <2>2, <3>1 DEF Open
    <2>7. Proper(lemma')
      <3>1. ASSUME NEW m \in lemma, Neg(m) \in lemma
            PROVE  FALSE
        <4>1. m \in Lits /\ Neg(Neg(m)) = m /\ False(m) /\ False(Neg(m))
          BY <1>3, <3>1, LitFacts
        <4> QED
          BY <1>1, <4>1, Consistent DEF False, True
      <3> QED
        BY <1>1, <1>3, <1>4, <2>2, <3>1 DEF Proper
    <2> QED
      BY <1>1, <1>4, <1>7, <2>3, <2>5, <2>6, <2>7, NoConflict
  <1> QED
    BY <1>6, <1>7
----------------------------------------------------------------------------
(* The walk down the trail.                                                *)

LEMMA SameWalk ==
  ASSUME UNCHANGED absVars, NEW f
  PROVE  IsWalk(f)' <=> IsWalk(f)
  <1>1. /\ UNCHANGED <<active, assigned, because, limits, falsified>>
        /\ FirstUIPClause' = FirstUIPClause
        /\ \A C : OnLevel(C, CurrentLevel)' = OnLevel(C, CurrentLevel)
    BY SameAnalysis
  <1>2. \A A : Agrees(A)' <=> Agrees(A)
    BY <1>1 DEF Agrees, UpToLevel
  <1>3. \A C : AtUIP(C)' <=> AtUIP(C)
    BY <1>1 DEF AtUIP
  <1>4. \A C, i : Derived(C, i)' <=> Derived(C, i)
    <2>1. \A l : False(l)' <=> False(l)
      BY <1>1 DEF False, True
    <2>2. \A l, i : FalseBy(l, i)' <=> FalseBy(l, i)
      BY <1>1 DEF FalseBy
    <2> QED
      BY <1>1, <1>2, <1>3, <2>1, <2>2 DEF Derived
  <1>5. \A C, i : Resolvent(C, i)' = Resolvent(C, i)
    BY <1>1 DEF Resolvent
  <1> QED
    BY <1>1, <1>3, <1>4, <1>5 DEF IsWalk

(* The trail, in a step that leaves it alone.                              *)
LEMMA TrailAlone ==
  ASSUME WalkIInv, UNCHANGED absVars, phase # "branch", phase' # "branch"
  PROVE  TrailIInv' /\ LevelsRight'
  <1>1. TrailIInv'
    BY SameTrail DEF WalkIInv
  <1>2. LevelsRight'
    BY DEF WalkIInv, LevelsRight, UpToLevel, absVars
  <1> QED
    BY <1>1, <1>2

LEMMA InitializeResultStep ==
  ASSUME WalkIInv, InitializeResult
  PROVE  WalkIInv'
  <1>1. /\ TrailIInv /\ TrailShape /\ StampsRight /\ LevelsRight /\ ControlRight
        /\ phase = "search" /\ phase' = "walk" /\ UNCHANGED absVars
        /\ UNCHANGED <<stampVars, checking, work, cleanup>>
        /\ seen = {} /\ lemma = {} /\ checking = 0 /\ work = {} /\ cleanup = {}
        /\ falsified # {} /\ cursor' = Len(assigned) /\ CurrentLevel >= 2
    BY DEF WalkIInv, TrailIInv, InitializeResult, miniVars, ControlRight
  <1>2. TrailIInv' /\ LevelsRight' /\ StampsRight'
    BY <1>1, TrailAlone, StampsAlone
  <1>3. /\ Len(limits) \in Nat /\ Len(limits) >= 3 /\ Len(assigned) \in Nat
        /\ limits[Len(limits)] \in 0 .. Len(assigned) /\ DecisionFirst
    <2>1. Len(limits) \in Nat /\ Len(limits) >= 3
      BY <1>1, TrailTypes DEF CurrentLevel
    <2>2. Len(limits) \in 1 .. Len(limits)
      BY <2>1
    <2> QED
      BY <1>1, <2>1, <2>2, TrailTypes, DecisionIsFirst
  <1>4. ControlRight'
    <2>1. falsified' # {} /\ Len(limits') >= 3
      BY <1>1, <1>3 DEF absVars
    <2> QED
      BY <1>1, <2>1 DEF ControlRight, InConflict
  <1>5. PICK f : IsWalk(f)
    BY <1>1, <1>3, FirstUIPWalk
  <1>6. /\ falsified \in SUBSET Lits /\ \A l \in falsified : False(l)
        /\ \E x \in OnLevel(falsified, CurrentLevel) : TRUE
    BY <1>1, <1>3, ConflictOnLevel
  <1>7. {l \in falsified : l # 0 /\ VarOf(l) \notin {}} = falsified
    BY <1>6 DEF Lits
  <1>8. /\ seen' = VarsOf(falsified)
        /\ unresolved' = Cardinality(OnLevel(falsified, CurrentLevel))
        /\ lemma' = falsified \ OnLevel(falsified, CurrentLevel)
    <2>1. AddResolvent(falsified, 0, {})
      BY <1>1 DEF InitializeResult
    <2>2. unresolved' = 0 + Cardinality(OnLevel(falsified, CurrentLevel))
      BY <1>7, <2>1 DEF AddResolvent
    <2>3. Cardinality(OnLevel(falsified, CurrentLevel)) \in Nat
      BY <1>6, AtMostOne DEF OnLevel
    <2> QED
      <3>1. seen' = {} \cup VarsOf(falsified)
        BY <1>7, <2>1 DEF AddResolvent
      <3>2. lemma' = lemma \cup (falsified \ OnLevel(falsified, CurrentLevel))
        BY <1>7, <2>1 DEF AddResolvent
      <3> QED
        BY <1>1, <2>2, <2>3, <3>1, <3>2
  <1>9. WalkedTo(falsified)'
    <2>1. /\ OnLevel(falsified, CurrentLevel)' = OnLevel(falsified, CurrentLevel)
          /\ falsified' = falsified /\ assigned' = assigned
      BY <1>1, SameAnalysis
    <2>2. \A l \in OnLevel(falsified, CurrentLevel) : FalseBy(l, Len(assigned))
      BY <1>1, <1>6, Unassignable DEF OnLevel
    <2>3. \A l \in OnLevel(falsified, CurrentLevel) : FalseBy(l, cursor)'
      BY <1>1, <2>1, <2>2 DEF FalseBy
    <2> QED
      BY <1>8, <2>1, <2>3 DEF WalkedTo, VarsOf
  <1>10. cursor' \in limits'[Len(limits')] + 1 .. Len(assigned')
    <2>1. limits[Len(limits)] < Len(assigned)
      BY <1>1, <1>3 DEF LevelsRight
    <2> QED
      BY <1>1, <1>3, <2>1 DEF absVars
  <1>11. WalkRight'
    <2>1. IsWalk(f)'
      BY <1>1, <1>5, SameWalk
    <2>2. f[cursor'] = falsified'
      BY <1>1, <1>5 DEF IsWalk, absVars
    <2>3. WalkedTo(f[cursor])'
      BY <1>9, <2>2
    <2> QED
      BY <1>10, <2>1, <2>3 DEF WalkRight
  <1>12. MinimizeRight' /\ RedundancyRight' /\ LemmaRight'
    BY <1>1 DEF MinimizeRight, RedundancyRight, LemmaRight
  <1> QED
    BY <1>2, <1>4, <1>11, <1>12 DEF WalkIInv

(* The rest of the invariant, while the walk goes on.                      *)
LEMMA WalkOn ==
  ASSUME WalkIInv, phase = "walk", phase' = "walk", UNCHANGED <<absVars, stampVars, miniVars>>
  PROVE  /\ TrailIInv' /\ StampsRight' /\ LevelsRight' /\ ControlRight'
         /\ MinimizeRight' /\ RedundancyRight' /\ LemmaRight'
  <1>1. TrailIInv' /\ LevelsRight' /\ StampsRight'
    BY TrailAlone, StampsAlone DEF WalkIInv
  <1>2. ControlRight'
    BY DEF WalkIInv, ControlRight, InConflict, absVars, miniVars
  <1>3. MinimizeRight' /\ RedundancyRight' /\ LemmaRight'
    BY DEF MinimizeRight, RedundancyRight, LemmaRight
  <1> QED
    BY <1>1, <1>2, <1>3

(* What the walk knows at a position.                                      *)
LEMMA AtCursor ==
  ASSUME WalkIInv, phase = "walk", NEW f, IsWalk(f), WalkedTo(f[cursor])
  PROVE  /\ TrailIInv /\ TrailShape /\ DecisionFirst /\ Len(assigned) \in Nat
         /\ limits[Len(limits)] \in Nat
         /\ cursor \in 1 .. Len(assigned) /\ limits[Len(limits)] < cursor
         /\ cursor \in limits[Len(limits)] + 1 .. Len(assigned)
         /\ cursor \in limits[Len(limits)] .. Len(assigned)
         /\ assigned[cursor] \in Lits /\ because[cursor] \in SUBSET Lits
         /\ Derived(f[cursor], cursor) /\ f[cursor] \in SUBSET Lits
         /\ \A l \in f[cursor] : False(l)
         /\ \A l \in Lits : False(l) => (VarOf(l) \in seen <=> l \in f[cursor])
         /\ VarOf(assigned[cursor]) \in seen <=> Neg(assigned[cursor]) \in f[cursor]
         /\ unresolved \in Nat /\ (unresolved <= 1 <=> AtUIP(f[cursor]))
  <1> DEFINE C == f[cursor]
  <1>1. /\ TrailIInv /\ TrailShape /\ LevelsRight
        /\ cursor \in limits[Len(limits)] + 1 .. Len(assigned)
        /\ Len(limits) >= 3 /\ seen = VarsOf(C) /\ unresolved = Cardinality(OnLevel(C, CurrentLevel))
    BY DEF WalkIInv, TrailIInv, WalkRight, ControlRight, InConflict, WalkedTo
  <1>2. /\ Len(limits) \in 1 .. Len(limits) /\ Len(assigned) \in Nat
        /\ limits[Len(limits)] \in Nat /\ DecisionFirst
    BY <1>1, TrailTypes, DecisionIsFirst
  <1>3. /\ cursor \in 1 .. Len(assigned) /\ limits[Len(limits)] < cursor
        /\ cursor \in limits[Len(limits)] .. Len(assigned)
    BY <1>1, <1>2
  <1>4. assigned[cursor] \in Lits /\ because[cursor] \in SUBSET Lits
    BY <1>1, <1>3, TrailTypes
  <1>5. Derived(C, cursor) /\ C \in SUBSET Lits /\ \A l \in C : False(l)
    BY <1>3 DEF IsWalk, Derived
  <1> HIDE DEF C
  <1>6. ASSUME NEW l \in Lits, False(l)
        PROVE  VarOf(l) \in seen <=> l \in C
    <2>1. ASSUME NEW m \in C, VarOf(m) = VarOf(l)
          PROVE  m = l
      <3>1. m \in Lits /\ False(m) /\ Neg(Neg(l)) = l
        BY <1>5, LitFacts
      <3>2. m # Neg(l)
        BY <1>1, <1>6, <3>1, Consistent DEF False, True
      <3> QED
        BY <2>1, <3>1, <3>2, LitFacts
    <2> QED
      BY <1>1, <2>1 DEF VarsOf
  <1>7. VarOf(assigned[cursor]) \in seen <=> Neg(assigned[cursor]) \in C
    <2>1. /\ Neg(assigned[cursor]) \in Lits /\ False(Neg(assigned[cursor]))
          /\ VarOf(Neg(assigned[cursor])) = VarOf(assigned[cursor])
      BY <1>3, <1>4, LitFacts DEF False, True
    <2> QED
      BY <1>6, <2>1
  <1>8. unresolved \in Nat /\ (unresolved <= 1 <=> AtUIP(C))
    BY <1>1, <1>5, AtMostOne DEF AtUIP, OnLevel
  <1> QED
    BY <1>1, <1>2, <1>3, <1>4, <1>5, <1>6, <1>7, <1>8 DEF C

LEMMA PassOverStep ==
  ASSUME WalkIInv, PassOver
  PROVE  WalkIInv'
  <1>1. /\ phase = "walk" /\ phase' = "walk" /\ UNCHANGED <<absVars, stampVars, miniVars>>
        /\ UNCHANGED <<seen, unresolved, lemma>> /\ cursor' = cursor - 1
        /\ unresolved <= 1 /\ VarOf(assigned[cursor]) \notin seen
    BY DEF PassOver
  <1>2. PICK f : IsWalk(f) /\ WalkedTo(f[cursor])
    BY <1>1 DEF WalkIInv, WalkRight
  <1>0. PICK C : C = f[cursor]
    OBVIOUS
  <1>3. /\ TrailShape /\ Len(assigned) \in Nat /\ limits[Len(limits)] \in Nat
        /\ cursor \in limits[Len(limits)] + 1 .. Len(assigned)
        /\ Derived(C, cursor) /\ C \in SUBSET Lits /\ AtUIP(C)
        /\ Neg(assigned[cursor]) \notin C
    BY <1>0, <1>1, <1>2, AtCursor
  <1>4. f[cursor - 1] = C
    BY <1>0, <1>2, <1>3 DEF IsWalk
  <1>5. \A l \in OnLevel(C, CurrentLevel) : FalseBy(l, cursor - 1)
    <2> SUFFICES ASSUME NEW l \in OnLevel(C, CurrentLevel)
                 PROVE  FalseBy(l, cursor - 1)
      OBVIOUS
    <2>1. l \in C /\ l \in Lits
      BY <1>3 DEF OnLevel
    <2>2. PICK p \in 1 .. cursor : assigned[p] = Neg(l)
      BY <1>0, <1>2 DEF WalkedTo, FalseBy
    <2>3. p # cursor
      BY <1>3, <2>1, <2>2, LitFacts
    <2> QED
      BY <1>3, <2>2, <2>3 DEF FalseBy
  <1>6. cursor - 1 \in limits[Len(limits)] + 1 .. Len(assigned)
    <2>1. PICK l \in OnLevel(C, CurrentLevel) : TRUE
      BY <1>3 DEF Derived
    <2>2. l \in Lits /\ False(l) /\ LevelOf(l) = CurrentLevel
      BY <1>3, <2>1 DEF OnLevel, Derived
    <2>3. ~FalseBy(l, limits[Len(limits)])
      BY <1>3, <2>2, OnCurrentLevel
    <2>4. cursor - 1 # limits[Len(limits)]
      BY <1>5, <2>1, <2>3
    <2> QED
      BY <1>3, <2>4
  <1>7. WalkedTo(f[cursor])'
    <2>1. /\ OnLevel(C, CurrentLevel)' = OnLevel(C, CurrentLevel) /\ assigned' = assigned
      BY <1>1, SameAnalysis
    <2>2. \A l \in OnLevel(C, CurrentLevel) : FalseBy(l, cursor)'
      BY <1>1, <1>5, <2>1 DEF FalseBy
    <2>3. f[cursor'] = C
      BY <1>1, <1>4
    <2>4. WalkedTo(C)'
      BY <1>0, <1>1, <1>2, <2>1, <2>2 DEF WalkedTo
    <2> QED
      BY <2>3, <2>4
  <1>8. WalkRight'
    <2>1. IsWalk(f)'
      BY <1>1, <1>2, SameWalk
    <2>2. cursor' \in limits'[Len(limits')] + 1 .. Len(assigned')
      BY <1>1, <1>6 DEF absVars
    <2> QED
      BY <1>7, <2>1, <2>2 DEF WalkRight
  <1> QED
    BY <1>1, <1>8, WalkOn DEF WalkIInv

(* A resolution counts the literals of the reason that are new.            *)
LEMMA ResolutionCounts ==
  ASSUME NEW C \in SUBSET Lits, NEW new \in SUBSET Lits, NEW q \in C,
         LevelOf(q) = CurrentLevel, new \cap C = {}, NEW D, D = (C \ {q}) \cup new
  PROVE  /\ D \in SUBSET Lits
         /\ D \ OnLevel(D, CurrentLevel) =
              (C \ OnLevel(C, CurrentLevel)) \cup (new \ OnLevel(new, CurrentLevel))
         /\ Cardinality(OnLevel(D, CurrentLevel)) =
              Cardinality(OnLevel(C, CurrentLevel)) - 1 + Cardinality(OnLevel(new, CurrentLevel))
  <1> DEFINE On(S) == OnLevel(S, CurrentLevel)
  <1>1. \A S : \A x : x \in On(S) <=> x \in S /\ LevelOf(x) = CurrentLevel
    BY DEF OnLevel
  <1> HIDE DEF On
  <1>2. D \in SUBSET Lits
    OBVIOUS
  <1>5. On(D) = (On(C) \ {q}) \cup On(new) /\ (On(C) \ {q}) \cap On(new) = {}
    BY <1>1
  <1>6. D \ On(D) = (C \ On(C)) \cup (new \ On(new))
    BY <1>1
  <1>7. q \in On(C)
    BY <1>1
  <1>8. /\ IsFiniteSet(On(C)) /\ IsFiniteSet(On(new)) /\ Cardinality(On(C)) \in Nat
        /\ Cardinality(On(new)) \in Nat
    <2>1. On(C) \in SUBSET Lits /\ On(new) \in SUBSET Lits
      BY <1>1, <1>2
    <2> QED
      BY <2>1, AtMostOne
  <1>9. /\ IsFiniteSet(On(C) \ {q})
        /\ Cardinality(On(C) \ {q}) = Cardinality(On(C)) - 1
    BY <1>7, <1>8, FS_RemoveElement
  <1>10. Cardinality(On(D)) = Cardinality(On(C)) - 1 + Cardinality(On(new)) - Cardinality({})
    <2>1. PICK X, Y : X = On(C) \ {q} /\ Y = On(new)
      OBVIOUS
    <2>2. IsFiniteSet(X) /\ IsFiniteSet(Y)
      BY <1>8, <1>9, <2>1
    <2>3. Cardinality(X \cup Y) = Cardinality(X) + Cardinality(Y) - Cardinality(X \cap Y)
      BY <2>2, FS_Union
    <2>4. X \cup Y = On(D) /\ X \cap Y = {}
      BY <1>5, <2>1
    <2> QED
      BY <1>9, <2>1, <2>3, <2>4
  <1>11. Cardinality({}) = 0
    BY FS_EmptySet
  <1>12. Cardinality(On(D)) = Cardinality(On(C)) - 1 + Cardinality(On(new))
    BY <1>8, <1>10, <1>11
  <1> QED
    BY <1>2, <1>6, <1>12 DEF On

LEMMA ResolveAtCursorStep ==
  ASSUME WalkIInv, ResolveAtCursor
  PROVE  WalkIInv'
  <1>1. /\ phase = "walk" /\ phase' = "walk" /\ UNCHANGED <<absVars, stampVars, miniVars>>
        /\ cursor' = cursor - 1 /\ unresolved > 1
    BY DEF ResolveAtCursor
  <1>2. PICK f : IsWalk(f) /\ WalkedTo(f[cursor])
    BY <1>1 DEF WalkIInv, WalkRight
  <1>3. PICK C, p, R : C = f[cursor] /\ p = assigned[cursor] /\ R = because[cursor]
    OBVIOUS
  <1>4. /\ TrailIInv /\ TrailShape /\ DecisionFirst /\ Len(assigned) \in Nat
        /\ limits[Len(limits)] \in Nat
        /\ cursor \in 1 .. Len(assigned) /\ limits[Len(limits)] < cursor
        /\ cursor \in limits[Len(limits)] + 1 .. Len(assigned)
        /\ p \in Lits /\ R \in SUBSET Lits /\ Derived(C, cursor) /\ C \in SUBSET Lits
        /\ \A l \in C : False(l)
        /\ \A l \in Lits : False(l) => (VarOf(l) \in seen <=> l \in C)
        /\ VarOf(p) \in seen <=> Neg(p) \in C
        /\ unresolved \in Nat /\ ~AtUIP(C)
    BY <1>1, <1>2, <1>3, AtCursor
  <1>5. /\ lemma = C \ OnLevel(C, CurrentLevel) /\ seen = VarsOf(C)
        /\ unresolved = Cardinality(OnLevel(C, CurrentLevel))
    BY <1>2, <1>3 DEF WalkedTo
  <1>6. f[cursor - 1] = IF Neg(p) \notin C THEN C ELSE Resolvent(C, cursor)
    BY <1>2, <1>3, <1>4 DEF IsWalk
  <1>7. PICK D : D = f[cursor - 1]
    OBVIOUS
  <1>8. /\ D \in SUBSET Lits /\ \A l \in D : FalseBy(l, cursor - 1) /\ False(l)
        /\ OnLevel(D, CurrentLevel) # {}
    <2>1. CASE Neg(p) \notin C
      <3>1. ASSUME NEW l \in C
            PROVE  FalseBy(l, cursor - 1)
        <4>1. PICK q \in 1 .. cursor : assigned[q] = Neg(l)
          BY <1>4 DEF Derived, FalseBy
        <4>2. q # cursor
          BY <1>3, <1>4, <2>1, <4>1, LitFacts
        <4> QED
          BY <1>4, <4>1, <4>2 DEF FalseBy
      <3> QED
        BY <1>4, <1>6, <1>7, <2>1, <3>1 DEF Derived
    <2>2. CASE Neg(p) \in C
      <3>1. Derived(Resolvent(C, cursor), cursor - 1) /\ \A l \in Resolvent(C, cursor) : FalseBy(l, cursor - 1)
        BY <1>3, <1>4, <2>2, ResolventDerived
      <3> QED
        BY <1>6, <1>7, <2>2, <3>1 DEF Derived
    <2> QED
      BY <2>1, <2>2
  <1>9. cursor - 1 \in limits[Len(limits)] + 1 .. Len(assigned)
    <2>1. PICK l \in OnLevel(D, CurrentLevel) : TRUE
      BY <1>8
    <2>2. l \in Lits /\ False(l) /\ LevelOf(l) = CurrentLevel /\ FalseBy(l, cursor - 1)
      BY <1>8, <2>1 DEF OnLevel
    <2>3. ~FalseBy(l, limits[Len(limits)])
      BY <1>4, <2>2, OnCurrentLevel
    <2>4. cursor - 1 # limits[Len(limits)]
      BY <2>2, <2>3
    <2> QED
      BY <1>4, <2>4
  <1>10. /\ lemma' = D \ OnLevel(D, CurrentLevel)
         /\ seen' = VarsOf(D)
         /\ unresolved' = Cardinality(OnLevel(D, CurrentLevel))
    <2>1. CASE Neg(p) \notin C
      <3>1. UNCHANGED <<seen, unresolved, lemma>>
        BY <1>3, <1>4, <2>1 DEF ResolveAtCursor
      <3> QED
        BY <1>5, <1>6, <1>7, <2>1, <3>1
    <2>2. CASE Neg(p) \in C
      <3> DEFINE before == seen \ {VarOf(p)}
      <3>1. AddResolvent(R, p, before)
        BY <1>3, <1>4, <2>2 DEF ResolveAtCursor
      <3>2. D = (C \ {Neg(p)}) \cup (R \ {p})
        BY <1>3, <1>6, <1>7, <2>2 DEF Resolvent
      <3>3. Neg(p) \notin R \ {p}
        <4>1. ASSUME Neg(p) \in R \ {p}
              PROVE  FALSE
          <5>1. FalseBy(Neg(p), cursor - 1)
            BY <1>8, <3>2, <4>1
          <5>2. PICK q \in 1 .. cursor - 1 : assigned[q] = Neg(Neg(p))
            BY <5>1 DEF FalseBy
          <5>3. assigned[q] = assigned[cursor] /\ q \in 1 .. Len(assigned)
            BY <1>3, <1>4, <5>2, LitFacts
          <5>4. q = cursor
            BY <1>4, <5>3, Consistent
          <5> QED
            BY <1>4, <5>2, <5>4
        <4> QED
          BY <4>1
      <3>4. Neg(p) \notin R /\ p # Neg(p)
        BY <1>4, <3>3, LitFacts
      <3>5. LevelOf(Neg(p)) = CurrentLevel
        <4>1. VarOf(Neg(p)) = VarOf(assigned[cursor])
          BY <1>3, <1>4, LitFacts
        <4>2. LevelOf(Neg(p)) = LevelAt(cursor)
          BY <1>4, <4>1, Positions
        <4> QED
          BY <1>4, <4>2, LevelsOfPrefixes, 0 \in Nat
      <3>6. PICK new : new = (R \ {p}) \ C
        OBVIOUS
      <3>7. {l \in R : l # p /\ VarOf(l) \notin before} = new
        <4>1. ASSUME NEW l \in R, l # p
              PROVE  VarOf(l) \notin before <=> l \notin C
          <5>1. l \in Lits /\ False(l) /\ l \in D /\ l # Neg(p)
            BY <1>8, <3>2, <3>4, <4>1
          <5>2. VarOf(l) # VarOf(p)
            BY <1>4, <4>1, <5>1, LitFacts
          <5> QED
            BY <1>4, <5>1, <5>2
        <4> QED
          BY <3>6, <4>1
      <3> HIDE DEF before
      <3>8. /\ seen' = before \cup VarsOf(new)
            /\ unresolved' = (IF p = 0 THEN 0 ELSE unresolved - 1) + Cardinality(OnLevel(new, CurrentLevel))
            /\ lemma' = lemma \cup (new \ OnLevel(new, CurrentLevel))
        BY <3>1, <3>7 DEF AddResolvent
      <3>9. p # 0
        BY <1>4 DEF Lits
      <3>10. /\ D \ OnLevel(D, CurrentLevel) =
                  (C \ OnLevel(C, CurrentLevel)) \cup (new \ OnLevel(new, CurrentLevel))
             /\ Cardinality(OnLevel(D, CurrentLevel)) =
                  Cardinality(OnLevel(C, CurrentLevel)) - 1 + Cardinality(OnLevel(new, CurrentLevel))
        <4>1. PICK q : q = Neg(p)
          OBVIOUS
        <4>2. /\ C \in SUBSET Lits /\ new \in SUBSET Lits /\ q \in C
              /\ LevelOf(q) = CurrentLevel /\ new \cap C = {}
          BY <1>4, <2>2, <3>5, <3>6, <4>1
        <4>3. D = (C \ {q}) \cup new
          BY <3>2, <3>4, <3>6, <4>1
        <4> QED
          BY <4>2, <4>3, ResolutionCounts
      <3>11. seen' = VarsOf(D)
        <4>1. D = (C \ {Neg(p)}) \cup new
          BY <3>2, <3>4, <3>6
        <4>2. \A l \in C : l # Neg(p) => VarOf(l) # VarOf(p)
          <5>1. \A l \in C : l # p
            BY <1>3, <1>4, Consistent DEF False, True
          <5> QED
            BY <1>4, <5>1, LitFacts
        <4>3. VarOf(Neg(p)) = VarOf(p)
          BY <1>4, LitFacts
        <4>4. before = VarsOf(C \ {Neg(p)})
          BY <1>5, <4>2, <4>3 DEF VarsOf, before
        <4> QED
          BY <3>8, <4>1, <4>4 DEF VarsOf
      <3> QED
        BY <1>5, <3>8, <3>9, <3>10, <3>11
    <2> QED
      BY <2>1, <2>2
  <1>11. WalkedTo(D)'
    <2>1. OnLevel(D, CurrentLevel)' = OnLevel(D, CurrentLevel) /\ assigned' = assigned
      BY <1>1, SameAnalysis
    <2>2. \A l \in OnLevel(D, CurrentLevel) : FalseBy(l, cursor)'
      BY <1>1, <1>8, <2>1 DEF FalseBy, OnLevel
    <2> QED
      BY <1>10, <2>1, <2>2 DEF WalkedTo, VarsOf
  <1>12. WalkRight'
    <2>1. IsWalk(f)' /\ f[cursor'] = D
      BY <1>1, <1>2, <1>7, SameWalk
    <2>2. cursor' \in limits'[Len(limits')] + 1 .. Len(assigned')
      BY <1>1, <1>9 DEF absVars
    <2>3. WalkedTo(f[cursor])'
      BY <1>11, <2>1
    <2> QED
      BY <2>1, <2>2, <2>3 DEF WalkRight
  <1> QED
    BY <1>1, <1>12, WalkOn DEF WalkIInv

LEMMA OutOfMemoryStep ==
  ASSUME WalkIInv, OutOfMemory
  PROVE  WalkIInv'
  <1>1. /\ StampsRight /\ ControlRight /\ phase = "walk" /\ phase' = "failed"
        /\ UNCHANGED absVars /\ UNCHANGED <<stampVars, checking, work, cleanup>>
    BY DEF WalkIInv, OutOfMemory, miniVars
  <1>2. TrailIInv' /\ LevelsRight' /\ StampsRight'
    BY <1>1, TrailAlone, StampsAlone
  <1>3. ControlRight'
    BY <1>1 DEF ControlRight, InConflict
  <1>4. WalkRight' /\ MinimizeRight' /\ RedundancyRight' /\ LemmaRight'
    BY <1>1 DEF WalkRight, MinimizeRight, RedundancyRight, LemmaRight
  <1> QED
    BY <1>2, <1>3, <1>4 DEF WalkIInv

----------------------------------------------------------------------------
(* Minimization: the marks of variables.                                   *)

LEMMA VariableMarks ==
  ASSUME StampsRight
  PROVE  /\ \A v \in Vars : VarIndex(v) \in DOMAIN stamps
         /\ \A v \in Vars : IsStamped(VarIndex(v)) <=> MarkedVar(v)
         /\ \A V \in SUBSET Vars : VarStamps(V) \in SUBSET DOMAIN stamps
         /\ \A V \in SUBSET Vars : \A v \in Vars : VarIndex(v) \in VarStamps(V) <=> v \in V
  <1>1. \A v \in Vars : VarIndex(v) \in DOMAIN stamps
    BY NumVarsAssumption DEF StampsRight, LastLitIndex, VarIndex, Vars
  <1>2. \A v \in Vars : IsStamped(VarIndex(v)) <=> MarkedVar(v)
    BY <1>1 DEF StampsRight, StampInv, IsStamped, MarkedVar
  <1>3. \A V \in SUBSET Vars : VarStamps(V) \in SUBSET DOMAIN stamps
    BY <1>1 DEF VarStamps
  <1>4. \A V \in SUBSET Vars : \A v \in Vars : VarIndex(v) \in VarStamps(V) <=> v \in V
    <2>1. \A v, w \in Vars : VarIndex(v) = VarIndex(w) => v = w
      BY DEF VarIndex, Vars
    <2> QED
      BY <2>1 DEF VarStamps
  <1> QED
    BY <1>1, <1>2, <1>3, <1>4

LEMMA FindUIPStep ==
  ASSUME WalkIInv, FindUIP
  PROVE  WalkIInv'
  <1>1. /\ TrailIInv /\ StampsRight /\ LevelsRight /\ ControlRight
        /\ phase = "walk" /\ phase' = "minimize" /\ UNCHANGED absVars
        /\ UNCHANGED <<checking, work, cleanup>> /\ checking = 0 /\ work = {} /\ cleanup = {}
        /\ unresolved <= 1 /\ VarOf(assigned[cursor]) \in seen
        /\ uip' = Neg(assigned[cursor]) /\ lemma' = lemma \cup {uip'}
        /\ seen' = seen \ VarsOf(lemma') /\ original' = lemma' /\ toCheck' = lemma'
        /\ CreateContext(VarStamps(VarsOf(lemma')))
    BY DEF FindUIP, WalkIInv, ControlRight
  <1>2. PICK f : IsWalk(f) /\ WalkedTo(f[cursor])
    BY <1>1 DEF WalkIInv, WalkRight
  <1>3. PICK C, q : C = f[cursor] /\ q = Neg(assigned[cursor])
    OBVIOUS
  <1>4. /\ TrailShape /\ DecisionFirst /\ cursor \in 1 .. Len(assigned)
        /\ cursor \in limits[Len(limits)] .. Len(assigned) /\ limits[Len(limits)] < cursor
        /\ assigned[cursor] \in Lits /\ C \in SUBSET Lits /\ AtUIP(C) /\ q \in C
    BY <1>1, <1>2, <1>3, AtCursor
  <1>5. C = FirstUIPClause
    BY <1>2, <1>3, <1>4 DEF IsWalk
  <1>6. OnLevel(C, CurrentLevel) = {AssertingLiteral(FirstUIPClause)}
    <2>1. falsified # {} /\ Len(limits) >= 2
      BY <1>1, TrailTypes, <1>4 DEF ControlRight, InConflict
    <2> QED
      BY <1>1, <1>4, <1>5, <2>1, FirstUIPRight
  <1>7. q \in OnLevel(C, CurrentLevel)
    <2>1. VarOf(q) = VarOf(assigned[cursor])
      BY <1>3, <1>4, LitFacts
    <2>2. LevelOf(q) = LevelAt(cursor)
      BY <1>4, <2>1, Positions
    <2>3. LevelAt(cursor) = CurrentLevel
      BY <1>4, LevelsOfPrefixes, 0 \in Nat
    <2> QED
      BY <1>4, <2>2, <2>3 DEF OnLevel
  <1>8. uip' = AssertingLiteral(FirstUIPClause) /\ OnLevel(C, CurrentLevel) = {uip'}
    BY <1>1, <1>3, <1>6, <1>7
  <1>9. lemma' = C
    <2>1. lemma = C \ OnLevel(C, CurrentLevel)
      BY <1>2, <1>3 DEF WalkedTo
    <2> QED
      BY <1>1, <1>3, <1>4, <1>8, <2>1
  <1>10. seen' = {}
    BY <1>1, <1>2, <1>3, <1>9 DEF WalkedTo
  <1>11. VarsOf(C) \in SUBSET Vars
    BY <1>4, LitFacts DEF VarsOf
  <1>12. TrailIInv' /\ LevelsRight'
    BY <1>1, TrailAlone
  <1>13. StampsRight'
    <2>1. VarStamps(VarsOf(C)) \in SUBSET DOMAIN stamps
      BY <1>1, <1>11, VariableMarks
    <2>2. CreateContext(VarStamps(VarsOf(C)))
      BY <1>1, <1>9
    <2>3. StampInv' /\ DOMAIN stamps' = DOMAIN stamps
      BY <1>1, <2>1, <2>2, CreateKeeps, StampedSize DEF StampsRight
    <2> QED
      BY <1>1, <2>2, <2>3 DEF StampsRight, CreateContext
  <1>14. ControlRight'
    <2>1. falsified' # {} /\ Len(limits') >= 3
      BY <1>1 DEF absVars, ControlRight, InConflict
    <2> QED
      BY <1>1, <1>10, <2>1 DEF ControlRight, InConflict
  <1>15. MinimizeRight'
    <2>1. /\ FirstUIPClause' = FirstUIPClause
          /\ AssertingLiteral(FirstUIPClause)' = AssertingLiteral(FirstUIPClause)
      BY <1>1, SameAnalysis
    <2>2. marked' = VarStamps(VarsOf(C))
      BY <1>1, <1>9 DEF CreateContext
    <2>3. VarsOf(original)' = VarsOf(C)
      BY <1>1, <1>9 DEF VarsOf
    <2>4. \A v \in Vars : MarkedVar(v)' <=> v \in VarsOf(C)
      BY <1>1, <1>11, <2>2, VariableMarks DEF MarkedVar
    <2>5. original' = C /\ toCheck' = C /\ lemma' = C
      BY <1>1, <1>9
    <2>6. lemma' = {l \in original' : l \in toCheck' \/ l = checking' \/ ~Redundant(l)'}
      BY <2>5
    <2> QED
      BY <1>5, <1>8, <1>11, <2>1, <2>3, <2>4, <2>5, <2>6 DEF MinimizeRight
  <1>16. WalkRight' /\ RedundancyRight' /\ LemmaRight'
    BY <1>1 DEF WalkRight, RedundancyRight, LemmaRight
  <1> QED
    BY <1>12, <1>13, <1>14, <1>15, <1>16 DEF WalkIInv

----------------------------------------------------------------------------
(* Minimization: what the lemma implies.                                   *)

(* The variables on the trail.                                             *)
LEMMA PlacedVariables ==
  ASSUME TrailShape, NEW v \in Vars, Placed(v)
  PROVE  /\ Position(v) \in 1 .. Len(assigned) /\ VarOf(assigned[Position(v)]) = v
         /\ LevelOf(v) = LevelAt(Position(v)) /\ LevelOf(v) \in Nat
         /\ ImpliedVar(v) <=> ImpliedByLemma(original)[Position(v)]
         /\ \A l \in Lits : VarOf(l) = v => Position(l) = Position(v) /\ LevelOf(l) = LevelOf(v)
  <1>1. VarOf(v) = v
    BY LitFacts
  <1>2. PICK i \in 1 .. Len(assigned) : VarOf(assigned[i]) = v
    BY DEF Placed
  <1>3. Position(v) = i /\ LevelOf(v) = LevelAt(i)
    BY <1>1, <1>2, Positions
  <1>4. \A l \in Lits : VarOf(l) = v => Position(l) = i /\ LevelOf(l) = LevelAt(i)
    BY <1>2, Positions
  <1>5. LevelAt(i) \in Nat
    <2>1. CurrentLevel \in Nat
      BY TrailTypes DEF CurrentLevel
    <2> QED
      BY <2>1, Levels
  <1>6. ImpliedVar(v) <=> ImpliedByLemma(original)[i]
    BY <1>2 DEF ImpliedVar, TrailShape
  <1> QED
    BY <1>2, <1>3, <1>4, <1>5, <1>6

(* A literal that the lemma implies is on a level of the lemma: its reason *)
(* did not force it before that level was opened.                          *)
LEMMA ImpliedLevel ==
  ASSUME TrailIInv, NEW C, NEW i \in 1 .. Len(assigned), ImpliedByLemma(C)[i]
  PROVE  LevelAt(i) \in LevelsOf(C) \cup {0}
  <1>1. /\ TrailShape /\ ReasonsRight /\ Len(assigned) \in Nat /\ Len(limits) \in Nat \ {0}
        /\ \A k \in 1 .. Len(limits) : limits[k] \in 0 .. Len(assigned)
    BY TrailTypes DEF TrailIInv
  <1>2. ImpliedAt(C, i, ImpliedByLemma(C))
    BY ImpliedDefined
  <1>3. PICK n : n = LevelAt(i)
    OBVIOUS
  <1>4. n \in 0 .. CurrentLevel /\ CurrentLevel = Len(limits) - 1
    BY <1>1, <1>3, Levels DEF CurrentLevel
  <1>5. CASE n = 0
    BY <1>3, <1>5
  <1>6. CASE n # 0
    <2>1. n \in 1 .. CurrentLevel /\ n + 1 \in 2 .. Len(limits) /\ n - 1 \in Nat
      BY <1>1, <1>4, <1>6
    <2>2. limits[n + 1] < i
      <3>1. LevelAt(i) >= n <=> limits[n + 1] < i
        BY <1>1, <2>1, Levels
      <3> QED
        BY <1>3, <1>4, <3>1
    <2>3. PICK m \in because[i] \ {assigned[i]} : ~FalseBy(m, limits[n + 1])
      BY <1>1, <1>2, <2>1, <2>2 DEF ReasonsRight, ImpliedAt
    <2>4. /\ m \in Lits /\ Position(m) \in 1 .. Len(assigned) /\ Position(m) < i
          /\ assigned[Position(m)] = Neg(m) /\ LevelOf(m) = LevelAt(Position(m))
      BY <1>2, ReasonPositions DEF ImpliedAt
    <2>5. limits[n + 1] < Position(m)
      <3>1. limits[n + 1] \in Nat
        BY <1>1, <2>1
      <3> QED
        BY <2>3, <2>4, <3>1 DEF FalseBy
    <2>6. LevelAt(Position(m)) >= n
      BY <1>1, <2>1, <2>4, <2>5, Levels
    <2>7. LevelAt(Position(m)) <= n
      <3>1. UpToLevel(n, i)
        BY <1>1, <1>3, <1>4, LevelsOfPrefixes
      <3>2. UpToLevel(n, Position(m))
        <4>1. CASE Len(limits) <= n + 1
          BY <4>1 DEF UpToLevel
        <4>2. CASE ~(Len(limits) <= n + 1)
          <5>1. n + 2 \in 1 .. Len(limits)
            BY <1>1, <1>4, <4>2
          <5>2. i <= limits[n + 2] /\ limits[n + 2] \in Nat
            BY <1>1, <3>1, <4>2, <5>1 DEF UpToLevel
          <5> QED
            BY <1>1, <2>4, <5>2 DEF UpToLevel
        <4> QED
          BY <4>1, <4>2
      <3> QED
        BY <1>1, <1>4, <2>4, <3>2, LevelsOfPrefixes
    <2>8. LevelOf(m) = n
      <3>1. LevelAt(Position(m)) \in 0 .. CurrentLevel
        BY <1>1, <2>4, Levels
      <3> QED
        BY <1>4, <2>4, <2>6, <2>7, <3>1
    <2> QED
      BY <1>2, <1>3, <2>3, <2>8 DEF ImpliedAt
  <1> QED
    BY <1>5, <1>6

(* A variable of a set of false literals.                                  *)
LEMMA FalseVariables ==
  ASSUME TrailShape, NEW C \in SUBSET Lits, \A l \in C : False(l), NEW m \in Lits, False(m)
  PROVE  VarOf(m) \in VarsOf(C) <=> m \in C
  <1>1. ASSUME NEW l \in C, VarOf(l) = VarOf(m)
        PROVE  l = m
    <2>1. l \in Lits /\ False(l) /\ Neg(Neg(m)) = m
      BY LitFacts
    <2>2. l # Neg(m)
      BY <2>1, Consistent DEF False, True
    <2> QED
      BY <1>1, <2>1, <2>2, LitFacts
  <1> QED
    BY <1>1 DEF VarsOf

(* The other literals of a reason.                                         *)
LEMMA ReasonVariables ==
  ASSUME TrailIInv, NEW v \in Vars, Placed(v), NEW m \in Reason(v)
  PROVE  /\ m \in Lits /\ VarOf(m) \in Vars /\ Placed(VarOf(m))
         /\ VarOf(m) # v => False(m) /\ Position(m) < Position(v)
         /\ VarOf(m) = v <=> m = assigned[Position(v)]
         /\ Position(m) = Position(VarOf(m)) /\ LevelOf(m) = LevelOf(VarOf(m))
         /\ Position(m) \in 1 .. Len(assigned)
  <1>1. PICK i : i = Position(v)
    OBVIOUS
  <1>2. /\ TrailShape /\ i \in 1 .. Len(assigned) /\ VarOf(assigned[i]) = v
        /\ assigned[i] \in Lits /\ because[i] \in SUBSET Lits /\ m \in because[i]
    BY <1>1, PlacedVariables, TrailTypes DEF TrailIInv, Reason
  <1>3. m \in Lits /\ VarOf(m) \in Vars
    BY <1>2, LitFacts
  <1>4. CASE m = assigned[i]
    BY <1>1, <1>2, <1>3, <1>4, PlacedVariables
  <1>5. CASE m # assigned[i]
    <2>1. /\ False(m) /\ Position(m) \in 1 .. Len(assigned) /\ Position(m) < i
          /\ assigned[Position(m)] = Neg(m)
      BY <1>2, <1>5, ReasonPositions
    <2>2. VarOf(assigned[Position(m)]) = VarOf(m)
      BY <1>3, <2>1, LitFacts
    <2>3. Placed(VarOf(m))
      BY <2>1, <2>2 DEF Placed
    <2>4. VarOf(m) # v
      BY <1>2, <2>1, <2>2 DEF TrailShape
    <2> QED
      BY <1>1, <1>2, <1>3, <1>5, <2>1, <2>3, <2>4, PlacedVariables
  <1> QED
    BY <1>4, <1>5

(* A variable is implied when each of the others of its reason is on level *)
(* 0, in the lemma, or implied: that they are on the levels of the lemma   *)
(* follows.                                                                *)
LEMMA ImpliedByReason ==
  ASSUME TrailIInv, original \in SUBSET Lits, \A l \in original : False(l),
         NEW v \in Vars, Placed(v)
  PROVE  /\ ImpliedVar(v) <=>
              /\ Reason(v) # {}
              /\ \A m \in Reason(v) :
                   \/ VarOf(m) = v
                   \/ LevelOf(m) = 0
                   \/ VarOf(m) \in VarsOf(original)
                   \/ ImpliedVar(VarOf(m))
         /\ ImpliedVar(v) => \A m \in Reason(v) :
              VarOf(m) = v \/ LevelOf(m) \in LevelsOf(original) \cup {0}
  <1>1. PICK i : i = Position(v)
    OBVIOUS
  <1>2. PICK g : g = ImpliedByLemma(original)
    OBVIOUS
  <1>3. /\ TrailShape /\ i \in 1 .. Len(assigned) /\ Reason(v) = because[i]
        /\ ImpliedVar(v) <=> g[i]
    BY <1>1, <1>2, PlacedVariables DEF TrailIInv, Reason
  <1>4. g[i] = ImpliedAt(original, i, g)
    BY <1>2, <1>3, ImpliedDefined
  <1>5. ASSUME NEW m \in Reason(v), VarOf(m) # v
        PROVE  /\ VarOf(m) \in VarsOf(original) <=> m \in original
               /\ ImpliedVar(VarOf(m)) <=> g[Position(m)]
               /\ m \in original => LevelOf(m) \in LevelsOf(original)
               /\ g[Position(m)] => LevelOf(m) \in LevelsOf(original) \cup {0}
    <2>1. /\ m \in Lits /\ VarOf(m) \in Vars /\ Placed(VarOf(m)) /\ False(m)
          /\ Position(m) = Position(VarOf(m)) /\ LevelOf(m) = LevelOf(VarOf(m))
          /\ Position(m) \in 1 .. Len(assigned)
      BY <1>5, ReasonVariables
    <2>2. ImpliedVar(VarOf(m)) <=> g[Position(m)]
      BY <1>2, <1>3, <2>1, PlacedVariables
    <2>3. LevelOf(m) = LevelAt(Position(m))
      BY <1>3, <2>1, PlacedVariables
    <2>4. g[Position(m)] => LevelOf(m) \in LevelsOf(original) \cup {0}
      BY <1>2, <2>1, <2>3, ImpliedLevel
    <2>5. VarOf(m) \in VarsOf(original) <=> m \in original
      BY <1>3, <2>1, FalseVariables
    <2>6. m \in original => LevelOf(m) \in LevelsOf(original)
      BY DEF LevelsOf
    <2> QED
      BY <2>2, <2>4, <2>5, <2>6
  <1>6. \A m \in Reason(v) : VarOf(m) = v <=> m = assigned[i]
    BY <1>1, ReasonVariables
  <1>7. g[i] <=> /\ because[i] # {}
                 /\ \A m \in because[i] \ {assigned[i]} :
                      /\ LevelOf(m) \in LevelsOf(original) \cup {0}
                      /\ LevelOf(m) = 0 \/ m \in original \/ g[Position(m)]
    BY <1>4 DEF ImpliedAt
  <1>8. ASSUME g[i]
        PROVE  /\ Reason(v) # {}
               /\ \A m \in Reason(v) :
                    \/ VarOf(m) = v
                    \/ LevelOf(m) = 0
                    \/ VarOf(m) \in VarsOf(original)
                    \/ ImpliedVar(VarOf(m))
               /\ \A m \in Reason(v) :
                    VarOf(m) = v \/ LevelOf(m) \in LevelsOf(original) \cup {0}
    BY <1>3, <1>5, <1>6, <1>7, <1>8
  <1>9. ASSUME Reason(v) # {},
               \A m \in Reason(v) :
                 \/ VarOf(m) = v
                 \/ LevelOf(m) = 0
                 \/ VarOf(m) \in VarsOf(original)
                 \/ ImpliedVar(VarOf(m))
        PROVE  g[i]
    <2>1. ASSUME NEW m \in because[i] \ {assigned[i]}
          PROVE  /\ LevelOf(m) \in LevelsOf(original) \cup {0}
                 /\ LevelOf(m) = 0 \/ m \in original \/ g[Position(m)]
      <3>1. m \in Reason(v) /\ VarOf(m) # v
        BY <1>3, <1>6, <2>1
      <3> QED
        BY <1>5, <1>9, <3>1
    <2> QED
      BY <1>3, <1>7, <1>9, <2>1
  <1> QED
    BY <1>3, <1>8, <1>9

(* What a redundancy check depends on.                                     *)
LEMMA SameImplied ==
  ASSUME UNCHANGED absVars, original' = original
  PROVE  /\ \A v : Placed(v)' <=> Placed(v)
         /\ \A v : ImpliedVar(v)' <=> ImpliedVar(v)
         /\ \A v : Reason(v)' = Reason(v)
         /\ \A l : Redundant(l)' <=> Redundant(l)
         /\ \A V : VarsOf(V)' = VarsOf(V)
         /\ LevelsOf(original)' = LevelsOf(original)
  <1>1. /\ UNCHANGED <<active, assigned, because, limits, busy, falsified>>
        /\ CurrentLevel' = CurrentLevel
        /\ \A l : Position(l)' = Position(l) /\ LevelOf(l)' = LevelOf(l)
        /\ \A C : LevelsOf(C)' = LevelsOf(C) /\ ImpliedByLemma(C)' = ImpliedByLemma(C)
    BY SameAnalysis
  <1>2. ImpliedByLemma(original)' = ImpliedByLemma(original)
    <2>1. PICK C : C = original
      OBVIOUS
    <2>2. ImpliedByLemma(original)' = ImpliedByLemma(C)' /\ ImpliedByLemma(C) = ImpliedByLemma(original)
      BY <2>1
    <2> QED
      BY <1>1, <2>2
  <1>3. LevelsOf(original)' = LevelsOf(original)
    <2>1. PICK C : C = original
      OBVIOUS
    <2>2. LevelsOf(original)' = LevelsOf(C)' /\ LevelsOf(C) = LevelsOf(original)
      BY <2>1
    <2> QED
      BY <1>1, <2>2
  <1> QED
    BY <1>1, <1>2, <1>3 DEF Placed, ImpliedVar, Reason, Redundant, VarsOf

(* What holds during minimization.                                         *)
LEMMA Minimizing ==
  ASSUME WalkIInv, phase \in {"minimize", "redundant"}
  PROVE  /\ TrailIInv /\ TrailShape /\ StampsRight /\ LevelsRight /\ ControlRight
         /\ falsified # {} /\ Len(limits) >= 3 /\ seen = {}
         /\ original = FirstUIPClause /\ uip = AssertingLiteral(FirstUIPClause)
         /\ original \in SUBSET Lits /\ 0 \notin original /\ \A l \in original : False(l)
         /\ VarsOf(original) \in SUBSET Vars
         /\ \A l \in original :
              /\ VarOf(l) \in Vars /\ VarOf(l) \in VarsOf(original) /\ Placed(VarOf(l))
              /\ MarkedVar(VarOf(l))
              /\ Position(l) = Position(VarOf(l)) /\ LevelOf(l) = LevelOf(VarOf(l))
              /\ Reason(VarOf(l)) = Reason(l) /\ Reason(l) = because[Position(l)]
  <1>1. /\ TrailIInv /\ TrailShape /\ StampsRight /\ LevelsRight /\ ControlRight
        /\ falsified # {} /\ Len(limits) >= 3 /\ seen = {}
        /\ original = FirstUIPClause /\ uip = AssertingLiteral(FirstUIPClause)
        /\ \A v \in VarsOf(original) : MarkedVar(v)
    BY DEF WalkIInv, TrailIInv, ControlRight, InConflict, MinimizeRight
  <1>2. Len(limits) >= 2 /\ DecisionFirst
    BY <1>1, TrailTypes, DecisionIsFirst
  <1>3. original \in SUBSET Lits /\ \A l \in original : False(l)
    BY <1>1, <1>2, FirstUIPRight
  <1>4. 0 \notin original
    BY <1>3 DEF Lits
  <1>5. VarsOf(original) \in SUBSET Vars
    BY <1>3, LitFacts DEF VarsOf
  <1>6. ASSUME NEW l \in original
        PROVE  /\ VarOf(l) \in Vars /\ VarOf(l) \in VarsOf(original) /\ Placed(VarOf(l))
               /\ MarkedVar(VarOf(l))
               /\ Position(l) = Position(VarOf(l)) /\ LevelOf(l) = LevelOf(VarOf(l))
               /\ Reason(VarOf(l)) = Reason(l) /\ Reason(l) = because[Position(l)]
    <2>1. l \in Lits /\ VarOf(l) \in Vars /\ VarOf(l) \in VarsOf(original)
      BY <1>3, LitFacts DEF VarsOf
    <2>2. PICK i \in 1 .. Len(assigned) : assigned[i] = Neg(l)
      BY <1>3 DEF False, True
    <2>3. Placed(VarOf(l))
      BY <2>1, <2>2, LitFacts DEF Placed
    <2>4. Position(l) = Position(VarOf(l)) /\ LevelOf(l) = LevelOf(VarOf(l))
      BY <1>1, <2>1, <2>3, PlacedVariables
    <2> QED
      BY <1>1, <2>1, <2>3, <2>4 DEF Reason
  <1> QED
    BY <1>1, <1>3, <1>4, <1>5, <1>6

(* The rest of the invariant, during minimization.                         *)
LEMMA StillMinimizing ==
  ASSUME WalkIInv, phase \in {"minimize", "redundant"}, phase' \in {"minimize", "redundant"},
         UNCHANGED <<absVars, seen>>, StampInv', DOMAIN stamps' = DOMAIN stamps,
         contextActive' = contextActive,
         phase' = "minimize" => checking' = 0 /\ work' = {} /\ cleanup' = {},
         MinimizeRight', RedundancyRight'
  PROVE  WalkIInv'
  <1>1. TrailIInv' /\ LevelsRight'
    BY TrailAlone
  <1>2. StampsRight'
    BY DEF WalkIInv, StampsRight
  <1>3. ControlRight'
    BY DEF WalkIInv, ControlRight, InConflict, absVars
  <1>4. WalkRight' /\ LemmaRight'
    BY DEF WalkRight, LemmaRight
  <1> QED
    BY <1>1, <1>2, <1>3, <1>4 DEF WalkIInv

LEMMA CheckLiteralStep ==
  ASSUME WalkIInv, NEW l \in toCheck, CheckLiteral(l)
  PROVE  WalkIInv'
  <1>1. /\ phase = "minimize" /\ toCheck' = toCheck \ {l}
        /\ UNCHANGED <<absVars, stampVars, walkVars, original>>
        /\ checking = 0 /\ work = {} /\ cleanup = {}
        /\ toCheck \subseteq original /\ l \in original
        /\ lemma = {m \in original : m \in toCheck \/ m = checking \/ ~Redundant(m)}
        /\ \A v \in VarsOf(original) : MarkedVar(v)
        /\ \A v \in Vars : MarkedVar(v) => v \in VarsOf(original) \/ v \in cleanup \/ ImpliedVar(v)
    BY DEF CheckLiteral, WalkIInv, ControlRight, MinimizeRight
  <1>2. /\ StampsRight /\ original = FirstUIPClause /\ uip = AssertingLiteral(FirstUIPClause)
        /\ 0 \notin original /\ original \in SUBSET Lits
        /\ VarOf(l) \in Vars /\ VarOf(l) \in VarsOf(original) /\ Placed(VarOf(l)) /\ MarkedVar(VarOf(l))
        /\ LevelOf(l) = LevelOf(VarOf(l)) /\ Reason(VarOf(l)) = Reason(l) /\ Reason(l) = because[Position(l)]
    BY <1>1, Minimizing
  <1>3. /\ FirstUIPClause' = FirstUIPClause
        /\ AssertingLiteral(FirstUIPClause)' = AssertingLiteral(FirstUIPClause)
        /\ \A v : Placed(v)' <=> Placed(v)
        /\ \A v : ImpliedVar(v)' <=> ImpliedVar(v)
        /\ \A v : Reason(v)' = Reason(v)
        /\ \A m : Redundant(m)' <=> Redundant(m)
        /\ \A m : LevelOf(m)' = LevelOf(m)
        /\ VarsOf(original)' = VarsOf(original)
        /\ LevelsOf(original)' = LevelsOf(original)
        /\ CurrentLevel' = CurrentLevel
        /\ \A v : MarkedVar(v)' <=> MarkedVar(v)
        /\ original' = original /\ uip' = uip
    BY <1>1, SameAnalysis, SameImplied DEF VarsOf, MarkedVar, stampVars, walkVars
  <1>4. /\ StampInv' /\ DOMAIN stamps' = DOMAIN stamps /\ contextActive' = contextActive
        /\ UNCHANGED <<absVars, seen>>
    BY <1>1, <1>2 DEF StampsRight, StampInv, stampVars, walkVars
  <1>5. Redundant(l) <=> IF Reason(l) = {} THEN LevelOf(l) = 0
                         ELSE LevelOf(l) # CurrentLevel /\ ImpliedByLemma(original)[Position(l)]
    BY <1>2 DEF Redundant
  <1>6. CASE Reason(l) # {} /\ LevelOf(l) # CurrentLevel
    <2>1. /\ phase' = "redundant" /\ checking' = l /\ work' = {VarOf(l)} /\ cleanup' = {}
          /\ lemma' = lemma
      BY <1>6 DEF CheckLiteral
    <2>2. lemma' = {m \in original : m \in toCheck' \/ m = checking' \/ ~Redundant(m)}
      BY <1>1, <1>2, <2>1
    <2>3. MinimizeRight'
      BY <1>1, <1>2, <1>3, <2>1, <2>2 DEF MinimizeRight
    <2>4. Visited' = {VarOf(l)}
      BY <2>1 DEF Visited
    <2>5. MightContain(LevelsOf(original) \cup {0}, LevelOf(VarOf(l)))'
      <3>1. LevelOf(l) \in LevelsOf(original) \cup {0}
        BY <1>1 DEF LevelsOf
      <3>2. LevelOf(VarOf(l))' = LevelOf(l) /\ (LevelsOf(original) \cup {0})' = LevelsOf(original) \cup {0}
        BY <1>2, <1>3
      <3> QED
        BY <3>1, <3>2 DEF MightContain
    <2>6. RedundancyRight'
      BY <1>1, <1>2, <1>3, <1>6, <2>1, <2>4, <2>5 DEF RedundancyRight
    <2> QED
      BY <1>1, <1>4, <2>1, <2>3, <2>6, StillMinimizing
  <1>7. CASE ~(Reason(l) # {} /\ LevelOf(l) # CurrentLevel)
    <2>1. /\ phase' = "minimize" /\ checking' = 0 /\ work' = {} /\ cleanup' = {}
          /\ lemma' = IF LevelOf(l) = 0 /\ Reason(l) = {} THEN lemma \ {l} ELSE lemma
      BY <1>1, <1>7 DEF CheckLiteral
    <2>2. Redundant(l) <=> LevelOf(l) = 0 /\ Reason(l) = {}
      BY <1>5, <1>7
    <2>3. lemma' = {m \in original : m \in toCheck' \/ m = checking' \/ ~Redundant(m)}
      BY <1>1, <1>2, <2>1, <2>2
    <2>4. MinimizeRight'
      BY <1>1, <1>2, <1>3, <2>1, <2>3 DEF MinimizeRight
    <2>5. RedundancyRight'
      BY <2>1 DEF RedundancyRight
    <2> QED
      BY <1>1, <1>4, <2>1, <2>4, <2>5, StillMinimizing
  <1> QED
    BY <1>6, <1>7

(* What holds during a redundancy check.                                   *)
LEMMA CheckingRedundancy ==
  ASSUME WalkIInv, phase = "redundant"
  PROVE  /\ toCheck \subseteq original
         /\ lemma = {m \in original : m \in toCheck \/ m = checking \/ ~Redundant(m)}
         /\ \A v \in VarsOf(original) : MarkedVar(v)
         /\ \A v \in Vars : MarkedVar(v) => v \in VarsOf(original) \/ v \in cleanup \/ ImpliedVar(v)
         /\ checking \in original \ toCheck /\ LevelOf(checking) # CurrentLevel
         /\ cleanup \cap VarsOf(original) = {}
         /\ work \subseteq Visited
         /\ Visited \in SUBSET Vars /\ cleanup \in SUBSET Vars
         /\ \A v \in Visited :
              /\ Placed(v) /\ Reason(v) # {} /\ MarkedVar(v)
              /\ MightContain(LevelsOf(original) \cup {0}, LevelOf(v))
              /\ v \in work \/ Expanded(v)
         /\ ImpliedVar(VarOf(checking)) => \A v \in Visited : ImpliedVar(v)
         /\ Redundant(checking) <=> ImpliedVar(VarOf(checking))
  <1>1. /\ checking \in original \ toCheck /\ LevelOf(checking) # CurrentLevel
        /\ cleanup \cap VarsOf(original) = {}
        /\ work \subseteq Visited
        /\ \A v \in Visited :
             /\ Placed(v) /\ Reason(v) # {} /\ MarkedVar(v)
             /\ MightContain(LevelsOf(original) \cup {0}, LevelOf(v))
             /\ v \in work \/ Expanded(v)
        /\ ImpliedVar(VarOf(checking)) => \A v \in cleanup : ImpliedVar(v)
    BY DEF WalkIInv, RedundancyRight
  <1>2. /\ toCheck \subseteq original
        /\ lemma = {m \in original : m \in toCheck \/ m = checking \/ ~Redundant(m)}
        /\ \A v \in VarsOf(original) : MarkedVar(v)
        /\ \A v \in Vars : MarkedVar(v) => v \in VarsOf(original) \/ v \in cleanup \/ ImpliedVar(v)
    BY DEF WalkIInv, MinimizeRight
  <1>3. Visited \in SUBSET Vars
    <2>1. TrailShape
      BY Minimizing
    <2>2. \A v : Placed(v) => v \in Vars
      BY <2>1, TrailTypes, LitFacts DEF Placed
    <2> QED
      BY <1>1, <2>2
  <1>4. cleanup \in SUBSET Vars /\ \A v \in Visited : v \in cleanup \/ v = VarOf(checking)
    BY <1>3 DEF Visited
  <1>5. Redundant(checking) <=> ImpliedVar(VarOf(checking))
    <2>1. /\ TrailShape /\ VarOf(checking) \in Vars /\ Placed(VarOf(checking))
          /\ Position(checking) = Position(VarOf(checking))
          /\ Reason(VarOf(checking)) = because[Position(checking)]
      BY <1>1, Minimizing
    <2>2. ImpliedVar(VarOf(checking)) <=> ImpliedByLemma(original)[Position(checking)]
      BY <2>1, PlacedVariables
    <2>3. Reason(VarOf(checking)) # {}
      BY <1>1 DEF Visited
    <2> QED
      BY <1>1, <2>1, <2>2, <2>3 DEF Redundant
  <1> QED
    BY <1>1, <1>2, <1>3, <1>4, <1>5

(* A literal of its reason that refutes the redundancy of a variable does  *)
(* so rightly.                                                             *)
LEMMA RefutedRightly ==
  ASSUME WalkIInv, phase = "redundant", NEW v \in Visited, NEW m \in Reason(v), Refutes(m)
  PROVE  ~ImpliedVar(v)
  <1>1. SUFFICES ASSUME ImpliedVar(v)
                 PROVE  FALSE
    OBVIOUS
  <1>2. /\ v \in Vars /\ Placed(v) /\ MarkedVar(v)
        /\ MightContain(LevelsOf(original) \cup {0}, LevelOf(v))
        /\ \A w \in VarsOf(original) : MarkedVar(w)
    BY CheckingRedundancy
  <1>3. /\ TrailIInv /\ TrailShape /\ StampsRight
        /\ original \in SUBSET Lits /\ \A l \in original : False(l)
    BY Minimizing
  <1>4. /\ m \in Lits /\ VarOf(m) \in Vars /\ Placed(VarOf(m))
        /\ Position(m) = Position(VarOf(m)) /\ LevelOf(m) = LevelOf(VarOf(m))
    BY <1>2, <1>3, ReasonVariables
  <1>5. IsStamped(VarIndex(VarOf(m))) <=> MarkedVar(VarOf(m))
    BY <1>3, <1>4, VariableMarks
  <1>6. CASE VarOf(m) = v
    BY <1>2, <1>4, <1>5, <1>6 DEF Refutes
  <1>7. CASE VarOf(m) # v
    <2>1. /\ LevelOf(m) \in LevelsOf(original) \cup {0}
          /\ LevelOf(m) = 0 \/ VarOf(m) \in VarsOf(original) \/ ImpliedVar(VarOf(m))
      BY <1>1, <1>2, <1>3, <1>7, ImpliedByReason
    <2>2. MightContain(LevelsOf(original) \cup {0}, LevelOf(m))
      BY <2>1 DEF MightContain
    <2>3. /\ LevelOf(m) # 0 /\ ~MarkedVar(VarOf(m)) /\ Reason(m) = {}
      BY <1>5, <2>2 DEF Refutes
    <2>4. ImpliedVar(VarOf(m))
      BY <1>2, <2>1, <2>3
    <2>5. Reason(VarOf(m)) # {}
      BY <1>3, <1>4, <2>4, ImpliedByReason
    <2> QED
      BY <1>4, <2>3, <2>5 DEF Reason
  <1> QED
    BY <1>6, <1>7

LEMMA GiveUpStep ==
  ASSUME WalkIInv, NEW v \in work, GiveUp(v)
  PROVE  WalkIInv'
  <1>1. /\ phase = "redundant" /\ phase' = "minimize"
        /\ SetStamped(VarStamps(cleanup), FALSE)
        /\ checking' = 0 /\ work' = {} /\ cleanup' = {}
        /\ UNCHANGED <<absVars, walkVars, lemma, original, toCheck>>
    BY DEF GiveUp
  <1>2. PICK m \in Reason(v) : Refutes(m)
    BY DEF GiveUp
  <1>3. /\ toCheck \subseteq original
        /\ lemma = {l \in original : l \in toCheck \/ l = checking \/ ~Redundant(l)}
        /\ \A w \in VarsOf(original) : MarkedVar(w)
        /\ \A w \in Vars : MarkedVar(w) => w \in VarsOf(original) \/ w \in cleanup \/ ImpliedVar(w)
        /\ checking \in original /\ cleanup \cap VarsOf(original) = {}
        /\ v \in Visited /\ cleanup \in SUBSET Vars
        /\ ImpliedVar(VarOf(checking)) => ImpliedVar(v)
        /\ Redundant(checking) <=> ImpliedVar(VarOf(checking))
    BY <1>1, CheckingRedundancy
  <1>4. /\ StampsRight /\ original = FirstUIPClause /\ uip = AssertingLiteral(FirstUIPClause)
        /\ 0 \notin original /\ VarsOf(original) \in SUBSET Vars
    BY <1>1, Minimizing
  <1>5. ~Redundant(checking)
    BY <1>1, <1>2, <1>3, RefutedRightly
  <1>6. /\ VarStamps(cleanup) \in SUBSET DOMAIN stamps
        /\ \A w \in Vars : VarIndex(w) \in VarStamps(cleanup) <=> w \in cleanup
    BY <1>3, <1>4, VariableMarks
  <1>7. /\ StampInv' /\ DOMAIN stamps' = DOMAIN stamps /\ contextActive' = contextActive
        /\ marked' = marked \ VarStamps(cleanup)
    <2>1. StampInv' /\ DOMAIN stamps' = DOMAIN stamps
      BY <1>1, <1>4, <1>6, StampKeeps, StampedSize DEF StampsRight
    <2> QED
      BY <1>1, <2>1 DEF SetStamped
  <1>8. \A w \in Vars : MarkedVar(w)' <=> MarkedVar(w) /\ w \notin cleanup
    BY <1>6, <1>7 DEF MarkedVar
  <1>9. MinimizeRight'
    <2>1. /\ FirstUIPClause' = FirstUIPClause
          /\ AssertingLiteral(FirstUIPClause)' = AssertingLiteral(FirstUIPClause)
          /\ \A w : ImpliedVar(w)' <=> ImpliedVar(w)
          /\ \A l : Redundant(l)' <=> Redundant(l)
          /\ VarsOf(original)' = VarsOf(original) /\ original' = original /\ uip' = uip
      BY <1>1, SameAnalysis, SameImplied DEF VarsOf, walkVars
    <2>2. lemma' = {l \in original : l \in toCheck' \/ l = checking' \/ ~Redundant(l)}
      BY <1>1, <1>3, <1>4, <1>5
    <2>3. \A w \in VarsOf(original) : MarkedVar(w)'
      BY <1>3, <1>4, <1>8
    <2>4. \A w \in Vars : MarkedVar(w)' => w \in VarsOf(original) \/ ImpliedVar(w)
      BY <1>3, <1>8
    <2> QED
      BY <1>1, <1>3, <1>4, <2>1, <2>2, <2>3, <2>4 DEF MinimizeRight
  <1>10. RedundancyRight'
    BY <1>1 DEF RedundancyRight
  <1> QED
    BY <1>1, <1>7, <1>9, <1>10, StillMinimizing DEF walkVars

LEMMA DescendStep ==
  ASSUME WalkIInv, NEW v \in work, Descend(v)
  PROVE  WalkIInv'
  <1> DEFINE open == {m \in Reason(v) : LevelOf(m) # 0 /\ ~IsStamped(VarIndex(VarOf(m)))}
  <1>1. PICK new : new = {VarOf(l) : l \in open}
    OBVIOUS
  <1>2. /\ phase = "redundant" /\ phase' = "redundant"
        /\ \A l \in Reason(v) : ~Refutes(l)
        /\ SetStamped(VarStamps(new), TRUE)
        /\ work' = (work \ {v}) \cup new /\ cleanup' = cleanup \cup new
        /\ UNCHANGED <<absVars, walkVars, lemma, original, toCheck, checking>>
    BY <1>1 DEF Descend
  <1>3. /\ toCheck \subseteq original
        /\ lemma = {l \in original : l \in toCheck \/ l = checking \/ ~Redundant(l)}
        /\ \A w \in VarsOf(original) : MarkedVar(w)
        /\ \A w \in Vars : MarkedVar(w) => w \in VarsOf(original) \/ w \in cleanup \/ ImpliedVar(w)
        /\ checking \in original \ toCheck /\ LevelOf(checking) # CurrentLevel
        /\ cleanup \cap VarsOf(original) = {}
        /\ work \subseteq Visited
        /\ Visited \in SUBSET Vars /\ cleanup \in SUBSET Vars
        /\ \A w \in Visited :
             /\ Placed(w) /\ Reason(w) # {} /\ MarkedVar(w)
             /\ MightContain(LevelsOf(original) \cup {0}, LevelOf(w))
             /\ w \in work \/ Expanded(w)
        /\ ImpliedVar(VarOf(checking)) => \A w \in Visited : ImpliedVar(w)
    BY <1>2, CheckingRedundancy
  <1>4. /\ TrailIInv /\ TrailShape /\ StampsRight
        /\ original = FirstUIPClause /\ uip = AssertingLiteral(FirstUIPClause)
        /\ original \in SUBSET Lits /\ \A l \in original : False(l)
        /\ VarsOf(original) \in SUBSET Vars
    BY <1>2, Minimizing
  <1>5. v \in Visited /\ v \in Vars /\ Placed(v) /\ MarkedVar(v)
    BY <1>3
  <1>6. ASSUME NEW m \in Reason(v)
        PROVE  /\ m \in Lits /\ VarOf(m) \in Vars /\ Placed(VarOf(m))
               /\ Position(m) = Position(VarOf(m)) /\ LevelOf(m) = LevelOf(VarOf(m))
               /\ Reason(m) = Reason(VarOf(m))
               /\ IsStamped(VarIndex(VarOf(m))) <=> MarkedVar(VarOf(m))
               /\ MightContain(LevelsOf(original) \cup {0}, LevelOf(VarOf(m)))
               /\ m \in open => Reason(VarOf(m)) # {}
    <2>1. /\ m \in Lits /\ VarOf(m) \in Vars /\ Placed(VarOf(m))
          /\ Position(m) = Position(VarOf(m)) /\ LevelOf(m) = LevelOf(VarOf(m))
      BY <1>4, <1>5, <1>6, ReasonVariables
    <2>2. Reason(m) = Reason(VarOf(m))
      BY <2>1 DEF Reason
    <2>3. IsStamped(VarIndex(VarOf(m))) <=> MarkedVar(VarOf(m))
      BY <1>4, <2>1, VariableMarks
    <2>4. MightContain(LevelsOf(original) \cup {0}, LevelOf(m)) /\ (m \in open => Reason(m) # {})
      BY <1>2, <1>6 DEF Refutes
    <2> QED
      BY <2>1, <2>2, <2>3, <2>4
  <1>7. ASSUME NEW w \in new
        PROVE  /\ w \in Vars /\ Placed(w) /\ Reason(w) # {} /\ ~MarkedVar(w)
               /\ MightContain(LevelsOf(original) \cup {0}, LevelOf(w))
               /\ ImpliedVar(v) => ImpliedVar(w)
    <2>1. PICK m \in open : w = VarOf(m)
      BY <1>1, <1>7
    <2>2. m \in Reason(v) /\ LevelOf(m) # 0 /\ ~IsStamped(VarIndex(VarOf(m)))
      OBVIOUS
    <2>3. ~MarkedVar(w) /\ w # v /\ w \notin VarsOf(original)
      BY <1>3, <1>5, <1>6, <2>1, <2>2
    <2>4. ImpliedVar(v) => ImpliedVar(w)
      BY <1>4, <1>5, <2>1, <2>2, <2>3, ImpliedByReason
    <2> QED
      BY <1>6, <2>1, <2>2, <2>3, <2>4
  <1>8. \A m \in Reason(v) : VarOf(m) = v \/ LevelOf(m) = 0 \/ MarkedVar(VarOf(m)) \/ VarOf(m) \in new
    BY <1>1, <1>6
  <1> HIDE DEF open
  <1>9. new \in SUBSET Vars
    BY <1>7
  <1>10. /\ VarStamps(new) \in SUBSET DOMAIN stamps
         /\ \A w \in Vars : VarIndex(w) \in VarStamps(new) <=> w \in new
    BY <1>4, <1>9, VariableMarks
  <1>11. /\ StampInv' /\ DOMAIN stamps' = DOMAIN stamps /\ contextActive' = contextActive
         /\ marked' = marked \cup VarStamps(new)
    <2>1. StampInv' /\ DOMAIN stamps' = DOMAIN stamps
      BY <1>2, <1>4, <1>10, StampKeeps, StampedSize DEF StampsRight
    <2> QED
      BY <1>2, <2>1 DEF SetStamped
  <1>12. \A w \in Vars : MarkedVar(w)' <=> MarkedVar(w) \/ w \in new
    BY <1>10, <1>11 DEF MarkedVar
  <1>13. /\ FirstUIPClause' = FirstUIPClause
         /\ AssertingLiteral(FirstUIPClause)' = AssertingLiteral(FirstUIPClause)
         /\ \A w : Placed(w)' <=> Placed(w)
         /\ \A w : ImpliedVar(w)' <=> ImpliedVar(w)
         /\ \A w : Reason(w)' = Reason(w)
         /\ \A l : Redundant(l)' <=> Redundant(l)
         /\ \A l : LevelOf(l)' = LevelOf(l)
         /\ VarsOf(original)' = VarsOf(original)
         /\ LevelsOf(original)' = LevelsOf(original)
         /\ CurrentLevel' = CurrentLevel
         /\ original' = original /\ uip' = uip
    BY <1>2, SameAnalysis, SameImplied DEF VarsOf, walkVars
  <1>14. MinimizeRight'
    <2>1. \A w \in VarsOf(original) : MarkedVar(w)'
      BY <1>3, <1>4, <1>12
    <2>2. \A w \in Vars : MarkedVar(w)' => w \in VarsOf(original) \/ w \in cleanup' \/ ImpliedVar(w)
      BY <1>2, <1>3, <1>12
    <2>3. lemma' = {l \in original : l \in toCheck' \/ l = checking' \/ ~Redundant(l)}
      BY <1>2, <1>3
    <2> QED
      BY <1>2, <1>3, <1>4, <1>13, <2>1, <2>2, <2>3 DEF MinimizeRight
  <1>15. RedundancyRight'
    <2>1. Visited' = Visited \cup new
      BY <1>2 DEF Visited
    <2>2. cleanup' \cap VarsOf(original) = {} /\ work' \subseteq Visited'
      BY <1>2, <1>3, <1>7, <2>1
    <2>3. \A w : MightContain(LevelsOf(original) \cup {0}, LevelOf(w))' <=>
                 MightContain(LevelsOf(original) \cup {0}, LevelOf(w))
      BY <1>13 DEF MightContain
    <2>4. ASSUME NEW w \in Visited, w \notin work'
          PROVE  Expanded(w)'
      <3>1. CASE w = v
        <4>1. \A m \in Reason(v) : VarOf(m) = v \/ LevelOf(m) = 0 \/ MarkedVar(VarOf(m))'
          BY <1>6, <1>8, <1>12
        <4> QED
          BY <1>13, <3>1, <4>1 DEF Expanded
      <3>2. CASE w # v
        <4>1. Expanded(w) /\ w \in Vars /\ Placed(w)
          BY <1>2, <1>3, <2>4, <3>2
        <4>2. ASSUME NEW m \in Reason(w)
              PROVE  VarOf(m) = w \/ LevelOf(m) = 0 \/ MarkedVar(VarOf(m))'
          <5>1. VarOf(m) \in Vars
            BY <1>4, <4>1, <4>2, ReasonVariables
          <5> QED
            BY <1>12, <4>1, <4>2, <5>1 DEF Expanded
        <4> QED
          BY <1>13, <4>2 DEF Expanded
      <3> QED
        BY <3>1, <3>2
    <2>5. ASSUME NEW w \in Visited'
          PROVE  /\ Placed(w) /\ Reason(w) # {} /\ MarkedVar(w)'
                 /\ MightContain(LevelsOf(original) \cup {0}, LevelOf(w))
                 /\ w \in work' \/ Expanded(w)'
      BY <1>2, <1>3, <1>7, <1>12, <2>1, <2>4
    <2>6. ImpliedVar(VarOf(checking)) => \A w \in cleanup' : ImpliedVar(w)
      BY <1>2, <1>3, <1>5, <1>7 DEF Visited
    <2>7. checking' \in original' \ toCheck' /\ LevelOf(checking)' # CurrentLevel'
      BY <1>2, <1>3, <1>13
    <2> QED
      BY <1>2, <1>13, <2>2, <2>3, <2>5, <2>6, <2>7 DEF RedundancyRight
  <1> QED
    BY <1>2, <1>11, <1>14, <1>15, StillMinimizing DEF walkVars

(* When there is no work left, every variable visited is implied: one      *)
(* without reach of the lemma would have a reason with such a variable,    *)
(* earlier on the trail.                                                   *)
LEMMA VisitedImplied ==
  ASSUME WalkIInv, phase = "redundant", work = {}
  PROVE  \A v \in Visited : ImpliedVar(v)
  <1>1. SUFFICES ASSUME NEW u \in Visited, ~ImpliedVar(u)
                 PROVE  FALSE
    OBVIOUS
  <1> DEFINE T == {Position(w) : w \in {x \in Visited : ~ImpliedVar(x)}}
  <1>2. /\ \A w \in Vars : MarkedVar(w) => w \in VarsOf(original) \/ w \in cleanup \/ ImpliedVar(w)
        /\ Visited \in SUBSET Vars
        /\ \A w \in Visited : Placed(w) /\ Reason(w) # {} /\ Expanded(w)
    BY CheckingRedundancy
  <1>3. /\ TrailIInv /\ TrailShape /\ Len(assigned) \in Nat
        /\ original \in SUBSET Lits /\ \A l \in original : False(l)
    BY Minimizing, TrailTypes
  <1>4. \A w \in Visited : Position(w) \in 1 .. Len(assigned)
    BY <1>2, <1>3, PlacedVariables
  <1>5. T \in SUBSET Nat /\ T # {}
    BY <1>1, <1>3, <1>4
  <1>6. PICK n \in T : \A j \in T : n <= j
    <2> HIDE DEF T
    <2> QED
      BY <1>5, Least
  <1>7. PICK v \in Visited : ~ImpliedVar(v) /\ n = Position(v)
    BY <1>6
  <1>8. v \in Vars /\ Placed(v) /\ Reason(v) # {} /\ Expanded(v)
    BY <1>2, <1>7
  <1>9. ASSUME NEW m \in Reason(v), VarOf(m) # v, LevelOf(m) # 0, VarOf(m) \notin VarsOf(original)
        PROVE  ImpliedVar(VarOf(m))
    <2>1. /\ VarOf(m) \in Vars /\ Position(m) < Position(v) /\ Position(m) = Position(VarOf(m))
      BY <1>3, <1>8, <1>9, ReasonVariables
    <2>2. MarkedVar(VarOf(m))
      BY <1>8, <1>9 DEF Expanded
    <2>3. CASE VarOf(m) \in cleanup
      <3>1. VarOf(m) \in Visited
        BY <2>3 DEF Visited
      <3>2. Position(VarOf(m)) \in 1 .. Len(assigned) /\ Position(v) \in 1 .. Len(assigned)
        BY <1>4, <1>7, <3>1
      <3>3. Position(VarOf(m)) \notin T
        <4> HIDE DEF T
        <4>1. Position(VarOf(m)) \in Nat /\ n \in Nat /\ Position(VarOf(m)) < n
          BY <1>3, <1>7, <2>1, <3>2
        <4> QED
          BY <1>6, <4>1
      <3> QED
        BY <3>1, <3>3
    <2> QED
      BY <1>2, <1>9, <2>1, <2>2, <2>3
  <1>10. ImpliedVar(v)
    BY <1>3, <1>8, <1>9, ImpliedByReason
  <1> QED
    BY <1>7, <1>10

LEMMA EraseLiteralStep ==
  ASSUME WalkIInv, EraseLiteral
  PROVE  WalkIInv'
  <1>1. /\ phase = "redundant" /\ phase' = "minimize" /\ work = {} /\ lemma' = lemma \ {checking}
        /\ checking' = 0 /\ cleanup' = {}
        /\ UNCHANGED <<absVars, stampVars, walkVars, original, toCheck, work>>
    BY DEF EraseLiteral
  <1>2. /\ toCheck \subseteq original
        /\ lemma = {l \in original : l \in toCheck \/ l = checking \/ ~Redundant(l)}
        /\ \A w \in VarsOf(original) : MarkedVar(w)
        /\ \A w \in Vars : MarkedVar(w) => w \in VarsOf(original) \/ w \in cleanup \/ ImpliedVar(w)
        /\ checking \in original \ toCheck
        /\ Redundant(checking) <=> ImpliedVar(VarOf(checking))
    BY <1>1, CheckingRedundancy
  <1>3. /\ StampsRight /\ original = FirstUIPClause /\ uip = AssertingLiteral(FirstUIPClause)
        /\ 0 \notin original
    BY <1>1, Minimizing
  <1>4. Redundant(checking) /\ \A w \in cleanup : ImpliedVar(w)
    <2>1. \A v \in Visited : ImpliedVar(v)
      BY <1>1, VisitedImplied
    <2> QED
      BY <1>2, <2>1 DEF Visited
  <1>5. MinimizeRight'
    <2>1. /\ FirstUIPClause' = FirstUIPClause
          /\ AssertingLiteral(FirstUIPClause)' = AssertingLiteral(FirstUIPClause)
          /\ \A w : ImpliedVar(w)' <=> ImpliedVar(w)
          /\ \A l : Redundant(l)' <=> Redundant(l)
          /\ \A w : MarkedVar(w)' <=> MarkedVar(w)
          /\ VarsOf(original)' = VarsOf(original) /\ original' = original /\ uip' = uip
      BY <1>1, SameAnalysis, SameImplied DEF VarsOf, walkVars, MarkedVar, stampVars
    <2>2. lemma' = {l \in original : l \in toCheck' \/ l = checking' \/ ~Redundant(l)}
      BY <1>1, <1>2, <1>3, <1>4
    <2>3. \A w \in Vars : MarkedVar(w) => w \in VarsOf(original) \/ ImpliedVar(w)
      BY <1>2, <1>4
    <2> QED
      BY <1>1, <1>2, <1>3, <2>1, <2>2, <2>3 DEF MinimizeRight
  <1>6. RedundancyRight'
    BY <1>1 DEF RedundancyRight
  <1>7. StampInv' /\ DOMAIN stamps' = DOMAIN stamps /\ contextActive' = contextActive
    BY <1>1, <1>3 DEF StampsRight, StampInv, stampVars
  <1> QED
    BY <1>1, <1>5, <1>6, <1>7, StillMinimizing DEF walkVars

----------------------------------------------------------------------------
(* The lemma after minimization.                                           *)

(* The rest of the invariant, after minimization.                          *)
LEMMA AfterMinimization ==
  ASSUME WalkIInv, InConflict,
         phase' \in {"optimize", "binaries", "derived", "backtrack"},
         UNCHANGED <<absVars, seen, checking, work, cleanup>>,
         phase \notin {"walk", "redundant"},
         StampInv', DOMAIN stamps' = DOMAIN stamps, ~contextActive', LemmaRight'
  PROVE  WalkIInv'
  <1>1. phase # "branch" /\ phase' # "branch" /\ phase' \notin {"minimize", "redundant", "walk", "learn"}
    BY DEF InConflict
  <1>2. TrailIInv' /\ LevelsRight'
    BY <1>1, TrailAlone
  <1>3. StampsRight'
    BY <1>1 DEF WalkIInv, StampsRight
  <1>4. ControlRight'
    BY <1>1 DEF WalkIInv, ControlRight, InConflict, absVars
  <1>5. WalkRight' /\ MinimizeRight' /\ RedundancyRight'
    BY <1>1 DEF WalkRight, MinimizeRight, RedundancyRight
  <1> QED
    BY <1>2, <1>3, <1>4, <1>5 DEF WalkIInv

LEMMA EndMinimizationStep ==
  ASSUME WalkIInv, EndMinimization
  PROVE  WalkIInv'
  <1>1. /\ phase = "minimize" /\ toCheck = {} /\ Clear /\ lemma' = lemma
        /\ phase' = IF Cardinality(lemma) <= SizeBound THEN "optimize" ELSE "derived"
        /\ UNCHANGED <<absVars, walkVars, miniVars>>
        /\ checking = 0
        /\ lemma = {l \in original : l \in toCheck \/ l = checking \/ ~Redundant(l)}
    BY DEF EndMinimization, WalkIInv, ControlRight, MinimizeRight
  <1>2. /\ StampsRight /\ original = FirstUIPClause /\ uip = AssertingLiteral(FirstUIPClause)
        /\ 0 \notin original
    BY <1>1, Minimizing
  <1>3. lemma = WithoutRedundantLiterals(FirstUIPClause)
    <2>1. lemma = {l \in original : ~Redundant(l)}
      BY <1>1, <1>2
    <2>2. WithoutRedundantLiterals(original) = {l \in original : ~Redundant(l)}
      BY DEF WithoutRedundantLiterals, Redundant
    <2> QED
      BY <1>2, <2>1, <2>2
  <1>4. /\ StampInv' /\ DOMAIN stamps' = DOMAIN stamps /\ ~contextActive'
    BY <1>1, <1>2, ClearKeeps, StampedSize DEF StampsRight, Clear
  <1>5. LemmaRight'
    <2>1. /\ AssertingLiteral(FirstUIPClause)' = AssertingLiteral(FirstUIPClause)
          /\ DerivedLemma' = DerivedLemma
          /\ WithoutRedundantLiterals(FirstUIPClause)' = WithoutRedundantLiterals(FirstUIPClause)
          /\ uip' = uip
      BY <1>1, SameAnalysis DEF walkVars
    <2>2. CASE Cardinality(lemma) <= SizeBound
      <3>1. phase' = "optimize"
        BY <1>1, <2>2
      <3> QED
        BY <1>1, <1>2, <1>3, <2>1, <2>2, <3>1 DEF LemmaRight
    <2>3. CASE ~(Cardinality(lemma) <= SizeBound)
      <3>1. phase' = "derived"
        BY <1>1, <2>3
      <3>2. lemma = DerivedLemma
        BY <1>3, <2>3 DEF DerivedLemma
      <3> QED
        BY <1>1, <1>2, <2>1, <3>1, <3>2 DEF LemmaRight
    <2> QED
      BY <2>2, <2>3
  <1>6. InConflict /\ phase \notin {"walk", "redundant"} /\ phase' \in {"optimize", "binaries", "derived", "backtrack"}
    BY <1>1 DEF InConflict
  <1> QED
    BY <1>1, <1>4, <1>5, <1>6, AfterMinimization DEF walkVars, miniVars

(* The clauses of the analysis, when no step has been made since the       *)
(* conflict.                                                               *)
LEMMA AnalyzedClauses ==
  ASSUME WalkIInv, InConflict
  PROVE  /\ TrailIInv /\ TrailShape /\ DecisionFirst /\ StampsRight /\ LevelsRight /\ ControlRight
         /\ falsified # {} /\ Len(limits) >= 3 /\ CurrentLevel # 0
         /\ FirstUIPClause \in SUBSET Lits /\ \A l \in FirstUIPClause : False(l)
         /\ OnLevel(FirstUIPClause, CurrentLevel) = {AssertingLiteral(FirstUIPClause)}
         /\ WithoutRedundantLiterals(FirstUIPClause) \subseteq FirstUIPClause
         /\ AssertingLiteral(WithoutRedundantLiterals(FirstUIPClause)) = AssertingLiteral(FirstUIPClause)
         /\ DerivedLemma \in SUBSET Lits /\ \A l \in DerivedLemma : False(l)
  <1>1. /\ TrailIInv /\ TrailShape /\ StampsRight /\ LevelsRight /\ ControlRight
        /\ falsified # {} /\ Len(limits) >= 3
    BY DEF WalkIInv, TrailIInv, ControlRight
  <1>2. Len(limits) >= 2 /\ DecisionFirst /\ CurrentLevel # 0
    BY <1>1, TrailTypes, DecisionIsFirst DEF CurrentLevel
  <1>3. /\ FirstUIPClause \in SUBSET Lits /\ \A l \in FirstUIPClause : False(l)
        /\ \A A \in TotalAssignments : Agrees(A) => A \cap FirstUIPClause # {}
        /\ OnLevel(FirstUIPClause, CurrentLevel) = {AssertingLiteral(FirstUIPClause)}
    BY <1>1, <1>2, FirstUIPRight
  <1>4. DerivedLemma \in SUBSET Lits /\ \A l \in DerivedLemma : False(l)
    BY <1>1, <1>2, DerivedLemmaRight
  <1>5. PICK W : W = WithoutRedundantLiterals(FirstUIPClause)
    OBVIOUS
  <1>6. W \subseteq FirstUIPClause /\ OnLevel(W, CurrentLevel) = {AssertingLiteral(FirstUIPClause)}
    BY <1>1, <1>2, <1>3, <1>5, MinimizedRight
  <1>7. AssertingLiteral(W) = AssertingLiteral(FirstUIPClause)
    <2>1. \A x : (x \in W /\ LevelOf(x) = CurrentLevel) <=> x = AssertingLiteral(FirstUIPClause)
      BY <1>6 DEF OnLevel
    <2> HIDE DEF AssertingLiteral
    <2>2. PICK a : a = AssertingLiteral(FirstUIPClause)
      OBVIOUS
    <2>3. \A x : (x \in W /\ LevelOf(x) = CurrentLevel) <=> x = a
      BY <2>1, <2>2
    <2>4. AssertingLiteral(W) = a
      BY <2>3 DEF AssertingLiteral
    <2> QED
      BY <2>2, <2>4
  <1> QED
    BY <1>1, <1>2, <1>3, <1>4, <1>5, <1>6, <1>7

(* The map has room for the levels of a set of false literals, and they    *)
(* are not stamped outside of a context.                                   *)
LEMMA LevelStamps ==
  ASSUME TrailIInv, LevelsRight, StampsRight, phase # "branch", falsified # {}, ~contextActive,
         NEW C \in SUBSET Lits, \A l \in C : False(l)
  PROVE  /\ LevelsOf(C) \in SUBSET DOMAIN stamps
         /\ StampedLBD(C) = LBD(C)
  <1>1. LevelsOf(C) \in SUBSET DOMAIN stamps
    BY LevelBound DEF StampsRight, LevelsOf
  <1>2. \A k \in DOMAIN stamps : ~IsStamped(k)
    BY DEF StampsRight, StampInv, IsStamped
  <1>3. {k \in LevelsOf(C) : ~IsStamped(k)} = LevelsOf(C)
    BY <1>1, <1>2
  <1> QED
    BY <1>1, <1>3 DEF StampedLBD, LBD

LEMMA OptimizeLemmaStep ==
  ASSUME WalkIInv, OptimizeLemma
  PROVE  WalkIInv'
  <1>1. /\ phase = "optimize" /\ StampOnce(LevelsOf(lemma)) /\ lemma' = lemma
        /\ phase' = IF StampedLBD(lemma) <= LBDBound THEN "binaries" ELSE "derived"
        /\ UNCHANGED <<absVars, walkVars, miniVars>>
        /\ lemma = WithoutRedundantLiterals(FirstUIPClause) /\ Cardinality(lemma) <= SizeBound
        /\ uip = AssertingLiteral(FirstUIPClause)
    BY DEF OptimizeLemma, WalkIInv, LemmaRight
  <1>2. InConflict /\ phase \notin {"walk", "redundant"} /\ phase' \in {"optimize", "binaries", "derived", "backtrack"}
    BY <1>1 DEF InConflict
  <1>3. /\ TrailIInv /\ LevelsRight /\ StampsRight /\ falsified # {} /\ phase # "branch" /\ ~contextActive
        /\ lemma \in SUBSET Lits /\ \A l \in lemma : False(l)
    BY <1>1, <1>2, AnalyzedClauses DEF StampsRight
  <1>4. StampedLBD(lemma) = LBD(lemma)
    BY <1>3, LevelStamps
  <1>5. StampInv' /\ DOMAIN stamps' = DOMAIN stamps /\ ~contextActive'
    BY <1>1, <1>3, StampOnceKeeps, StampedSize DEF StampsRight, StampOnce
  <1>6. LemmaRight'
    <2>1. /\ AssertingLiteral(FirstUIPClause)' = AssertingLiteral(FirstUIPClause)
          /\ DerivedLemma' = DerivedLemma
          /\ WithoutRedundantLiterals(FirstUIPClause)' = WithoutRedundantLiterals(FirstUIPClause)
          /\ uip' = uip /\ \A C : LBD(C)' = LBD(C)
      BY <1>1, SameAnalysis DEF walkVars
    <2>2. LBD(lemma)' = LBD(lemma)
      <3>1. PICK C : C = lemma
        OBVIOUS
      <3>2. LBD(lemma)' = LBD(C)' /\ LBD(C) = LBD(lemma)
        BY <1>1, <3>1
      <3> QED
        BY <2>1, <3>2
    <2>3. CASE LBD(lemma) <= LBDBound
      <3>1. phase' = "binaries"
        BY <1>1, <1>4, <2>3
      <3> QED
        BY <1>1, <2>1, <2>2, <2>3, <3>1 DEF LemmaRight
    <2>4. CASE ~(LBD(lemma) <= LBDBound)
      <3>1. phase' = "derived"
        BY <1>1, <1>4, <2>4
      <3>2. lemma = DerivedLemma
        BY <1>1, <2>4 DEF DerivedLemma
      <3> QED
        BY <1>1, <2>1, <3>1, <3>2 DEF LemmaRight
    <2> QED
      BY <2>3, <2>4
  <1> QED
    BY <1>1, <1>2, <1>5, <1>6, AfterMinimization DEF walkVars, miniVars

LEMMA LiteralIndices ==
  ASSUME StampsRight
  PROVE  /\ \A l \in Lits : LitIndex(l) \in DOMAIN stamps
         /\ \A l, m \in Lits : LitIndex(l) = LitIndex(m) => l = m
  <1>1. \A l \in Lits : LitIndex(l) \in 0 .. LastLitIndex
    BY NumVarsAssumption DEF LitIndex, LastLitIndex, Lits
  <1>2. ASSUME NEW l \in Lits, NEW m \in Lits, LitIndex(l) = LitIndex(m)
        PROVE  l = m
    <2>1. l \in Int /\ m \in Int /\ l # 0 /\ m # 0
      BY NumVarsAssumption DEF Lits
    <2>2. CASE l > 0 /\ m > 0
      BY <1>2, <2>1, <2>2 DEF LitIndex
    <2>3. CASE l < 0 /\ m < 0
      BY <1>2, <2>1, <2>3 DEF LitIndex
    <2>4. CASE l > 0 /\ m < 0
      <3>1. 2 * (l - 1) + 1 = 2 * (-m - 1)
        BY <1>2, <2>1, <2>4 DEF LitIndex
      <3> QED
        BY <2>1, <3>1
    <2>5. CASE l < 0 /\ m > 0
      <3>1. 2 * (m - 1) + 1 = 2 * (-l - 1)
        BY <1>2, <2>1, <2>5 DEF LitIndex
      <3> QED
        BY <2>1, <3>1
    <2> QED
      BY <2>1, <2>2, <2>3, <2>4, <2>5
  <1> QED
    BY <1>1, <1>2 DEF StampsRight

LEMMA ResolveWithBinariesStep ==
  ASSUME WalkIInv, ResolveWithBinaries
  PROVE  WalkIInv'
  <1>1. PICK second : second = {l \in Lits : {uip, l} \in active}
    OBVIOUS
  <1> DEFINE Stamped(i) == IsStamped(i) \/ i \in {LitIndex(l) : l \in second}
  <1>2. /\ phase = "binaries" /\ phase' = "derived"
        /\ StampOnce({LitIndex(l) : l \in second})
        /\ lemma' = IF second = {} THEN lemma ELSE {l \in lemma : ~Stamped(LitIndex(Neg(l)))}
        /\ UNCHANGED <<absVars, walkVars, miniVars>>
        /\ lemma = WithoutRedundantLiterals(FirstUIPClause) /\ Cardinality(lemma) <= SizeBound
        /\ LBD(lemma) <= LBDBound /\ uip = AssertingLiteral(FirstUIPClause)
    BY <1>1 DEF ResolveWithBinaries, WalkIInv, LemmaRight
  <1>3. InConflict /\ phase \notin {"walk", "redundant"} /\ phase' \in {"optimize", "binaries", "derived", "backtrack"}
    BY <1>2 DEF InConflict
  <1>4. /\ StampsRight /\ ~contextActive /\ lemma \in SUBSET Lits /\ AssertingLiteral(lemma) = uip
    BY <1>2, <1>3, AnalyzedClauses DEF StampsRight
  <1>5. ASSUME NEW l \in lemma
        PROVE  Stamped(LitIndex(Neg(l))) <=> {uip, Neg(l)} \in active
    <2>1. Neg(l) \in Lits /\ LitIndex(Neg(l)) \in DOMAIN stamps
      BY <1>4, LitFacts, LiteralIndices
    <2>2. ~IsStamped(LitIndex(Neg(l)))
      BY <1>4, <2>1 DEF StampsRight, StampInv, IsStamped
    <2>3. LitIndex(Neg(l)) \in {LitIndex(m) : m \in second} <=> Neg(l) \in second
      BY <1>1, <1>4, <2>1, LiteralIndices
    <2> QED
      BY <1>1, <2>1, <2>2, <2>3
  <1> HIDE DEF Stamped
  <1>6. lemma' = {l \in lemma : {uip, Neg(l)} \notin active}
    <2>1. CASE second = {}
      <3>1. \A l \in lemma : Neg(l) \in Lits
        BY <1>4, LitFacts
      <3>2. \A l \in lemma : {uip, Neg(l)} \notin active
        BY <1>1, <2>1, <3>1
      <3> QED
        BY <1>2, <2>1, <3>2
    <2>2. CASE second # {}
      BY <1>2, <1>5, <2>2
    <2> QED
      BY <2>1, <2>2
  <1>7. DerivedLemma = lemma'
    <2>1. PICK C : C = WithoutRedundantLiterals(FirstUIPClause)
      OBVIOUS
    <2>2. C = lemma
      BY <1>2, <2>1
    <2>3. DerivedLemma = ResolvedWithBinaries(C, AssertingLiteral(C))
      BY <1>2, <2>1, <2>2 DEF DerivedLemma
    <2>4. ResolvedWithBinaries(C, uip) = {l \in C : {uip, Neg(l)} \notin active}
      BY DEF ResolvedWithBinaries
    <2> QED
      BY <1>4, <1>6, <2>2, <2>3, <2>4
  <1>8. StampInv' /\ DOMAIN stamps' = DOMAIN stamps /\ ~contextActive'
    BY <1>2, <1>4, StampOnceKeeps, StampedSize DEF StampsRight, StampOnce
  <1>9. LemmaRight'
    <2>1. /\ AssertingLiteral(FirstUIPClause)' = AssertingLiteral(FirstUIPClause)
          /\ DerivedLemma' = DerivedLemma /\ uip' = uip
      BY <1>2, SameAnalysis DEF walkVars
    <2> QED
      BY <1>2, <1>7, <2>1 DEF LemmaRight
  <1> QED
    BY <1>2, <1>3, <1>8, <1>9, AfterMinimization DEF walkVars, miniVars

(* The steps between the derivation of the lemma and backtracking.         *)
LEMMA DerivedStep ==
  ASSUME WalkIInv, phase \in {"derived", "backtrack"}, phase' = "backtrack",
         UNCHANGED <<absVars, walkVars, lemma, miniVars>>,
         StampInv', DOMAIN stamps' = DOMAIN stamps, ~contextActive'
  PROVE  WalkIInv'
  <1>1. lemma = DerivedLemma /\ uip = AssertingLiteral(FirstUIPClause)
    BY DEF WalkIInv, LemmaRight
  <1>2. LemmaRight'
    <2>1. /\ AssertingLiteral(FirstUIPClause)' = AssertingLiteral(FirstUIPClause)
          /\ DerivedLemma' = DerivedLemma /\ uip' = uip
      BY SameAnalysis DEF walkVars
    <2> QED
      BY <1>1, <2>1 DEF LemmaRight
  <1>3. InConflict /\ phase \notin {"walk", "redundant"}
    BY DEF InConflict
  <1> QED
    BY <1>2, <1>3, AfterMinimization DEF walkVars, miniVars

LEMMA CreateLemmaStep ==
  ASSUME WalkIInv, CreateLemma
  PROVE  WalkIInv'
  <1>1. /\ phase = "derived" /\ phase' = "backtrack"
        /\ UNCHANGED <<absVars, walkVars, lemma, miniVars>>
        /\ UNCHANGED stampVars \/ StampOnce(LevelsOf(lemma))
    BY DEF CreateLemma
  <1>2. StampsRight /\ ~contextActive
    BY <1>1 DEF WalkIInv, StampsRight
  <1>3. StampInv' /\ DOMAIN stamps' = DOMAIN stamps /\ ~contextActive'
    <2>1. CASE UNCHANGED stampVars
      BY <1>2, <2>1 DEF StampsRight, StampInv, stampVars
    <2>2. CASE StampOnce(LevelsOf(lemma))
      BY <1>2, <2>2, StampOnceKeeps, StampedSize DEF StampsRight, StampOnce
    <2> QED
      BY <1>1, <2>1, <2>2
  <1> QED
    BY <1>1, <1>3, DerivedStep

LEMMA UpdateStep ==
  ASSUME WalkIInv, UpdateReasonClauseLBD
  PROVE  WalkIInv'
  <1>1. /\ phase = "backtrack" /\ phase' = "backtrack"
        /\ UNCHANGED <<absVars, walkVars, lemma, miniVars>>
        /\ \E i \in 1 .. Len(assigned) : StampOnce(LevelsOf(because[i]))
    BY DEF UpdateReasonClauseLBD
  <1>0. PICK i \in 1 .. Len(assigned) : StampOnce(LevelsOf(because[i]))
    BY <1>1
  <1>2. StampsRight /\ ~contextActive
    BY <1>1 DEF WalkIInv, StampsRight
  <1>3. StampInv' /\ DOMAIN stamps' = DOMAIN stamps /\ ~contextActive'
    <2>1. StampInv /\ DOMAIN stamps' = DOMAIN stamps
      BY <1>0, <1>2, StampedSize DEF StampsRight
    <2>2. StampInv'
      BY <1>0, <2>1, StampOnceKeeps
    <2> QED
      BY <1>0, <1>2, <2>1, <2>2 DEF StampOnce
  <1> QED
    BY <1>1, <1>3, DerivedStep

LEMMA StutterStep ==
  ASSUME WalkIInv, UNCHANGED cwVars
  PROVE  WalkIInv'
  <1>1. /\ UNCHANGED absVars /\ UNCHANGED stampVars /\ UNCHANGED <<phase, lemma, updates, numConflicts>>
        /\ UNCHANGED walkVars /\ UNCHANGED miniVars
    BY DEF cwVars
  <1>2. /\ UNCHANGED <<active, assigned, because, limits, busy, falsified>>
        /\ UNCHANGED <<stamps, currentStamp, contextActive, marked>>
        /\ UNCHANGED <<seen, unresolved, cursor, uip>>
        /\ UNCHANGED <<original, toCheck, checking, work, cleanup>>
    BY <1>1 DEF absVars, stampVars, walkVars, miniVars
  <1>3. /\ TrailIInv /\ StampsRight /\ LevelsRight /\ ControlRight
        /\ WalkRight /\ MinimizeRight /\ RedundancyRight /\ LemmaRight
    BY DEF WalkIInv
  <1>4. TrailIInv' /\ StampsRight'
    BY <1>1, <1>3, SameTrail, StampsAlone
  <1>5. LevelsRight' /\ ControlRight'
    BY <1>1, <1>2, <1>3 DEF LevelsRight, UpToLevel, ControlRight, InConflict, Ready
  <1>6. WalkRight'
    <2>1. SUFFICES ASSUME phase = "walk"
                   PROVE  WalkRight'
      BY <1>1 DEF WalkRight
    <2>2. PICK f : IsWalk(f) /\ WalkedTo(f[cursor])
      BY <1>3, <2>1 DEF WalkRight
    <2>3. PICK C : C = f[cursor]
      OBVIOUS
    <2>4. OnLevel(C, CurrentLevel)' = OnLevel(C, CurrentLevel) /\ IsWalk(f)'
      BY <1>1, <2>2, SameAnalysis, SameWalk
    <2>5. WalkedTo(C)'
      BY <1>1, <1>2, <2>2, <2>3, <2>4 DEF WalkedTo, VarsOf, FalseBy
    <2>6. f[cursor'] = C
      BY <1>2, <2>3
    <2> QED
      BY <1>2, <1>3, <2>1, <2>4, <2>5, <2>6 DEF WalkRight
  <1>7. /\ FirstUIPClause' = FirstUIPClause
        /\ AssertingLiteral(FirstUIPClause)' = AssertingLiteral(FirstUIPClause)
        /\ \A v : Placed(v)' <=> Placed(v)
        /\ \A v : ImpliedVar(v)' <=> ImpliedVar(v)
        /\ \A v : Reason(v)' = Reason(v)
        /\ \A m : Redundant(m)' <=> Redundant(m)
        /\ \A m : LevelOf(m)' = LevelOf(m)
        /\ VarsOf(original)' = VarsOf(original)
        /\ LevelsOf(original)' = LevelsOf(original)
        /\ CurrentLevel' = CurrentLevel
        /\ \A v : MarkedVar(v)' <=> MarkedVar(v)
    BY <1>1, <1>2, SameAnalysis, SameImplied DEF VarsOf, MarkedVar
  <1>8. MinimizeRight'
    <2>1. lemma = {l \in original : l \in toCheck \/ l = checking \/ ~Redundant(l)} =>
          lemma' = {l \in original' : l \in toCheck' \/ l = checking' \/ ~Redundant(l)'}
      BY <1>1, <1>2, <1>7
    <2> QED
      BY <1>1, <1>2, <1>3, <1>7, <2>1 DEF MinimizeRight
  <1>9. RedundancyRight'
    <2>1. Visited' = Visited /\ \A v : Expanded(v)' <=> Expanded(v)
      BY <1>2, <1>7 DEF Visited, Expanded
    <2>2. \A v : MightContain(LevelsOf(original) \cup {0}, LevelOf(v))' <=>
                 MightContain(LevelsOf(original) \cup {0}, LevelOf(v))
      BY <1>7 DEF MightContain
    <2> QED
      BY <1>1, <1>2, <1>3, <1>7, <2>1, <2>2 DEF RedundancyRight
  <1>10. LemmaRight'
    <2>1. /\ DerivedLemma' = DerivedLemma
          /\ WithoutRedundantLiterals(FirstUIPClause)' = WithoutRedundantLiterals(FirstUIPClause)
      BY <1>1, SameAnalysis
    <2>2. LBD(lemma)' = LBD(lemma)
      <3>1. PICK C : C = lemma
        OBVIOUS
      <3>2. LBD(lemma)' = LBD(C)' /\ LBD(C) = LBD(lemma)
        BY <1>1, <3>1
      <3> QED
        BY <1>1, <3>2, SameAnalysis
    <2>3. Open(lemma, uip, limits[Len(limits)])' <=> Open(lemma, uip, limits[Len(limits)])
      BY <1>1, <1>2 DEF Open, FalseBy
    <2> QED
      BY <1>1, <1>2, <1>3, <1>7, <2>1, <2>2, <2>3 DEF LemmaRight, Proper
  <1> QED
    BY <1>4, <1>5, <1>6, <1>8, <1>9, <1>10 DEF WalkIInv

LEMMA WalkInvStep ==
  ASSUME WalkIInv, [CWNext]_cwVars
  PROVE  WalkIInv'
  <1>1. CASE Propagation
    BY <1>1, PropagationStep
  <1>2. CASE \E l \in SystemLits : SystemLiteral(l)
    BY <1>2, SystemLiteralStep
  <1>3. CASE BeginAssumptions
    BY <1>3, BeginAssumptionsStep
  <1>4. CASE NewDecisionLevel
    BY <1>4, NewDecisionLevelStep
  <1>5. CASE \E l \in Lits : Decision(l)
    BY <1>5, DecisionStep
  <1>6. CASE InitializeResult
    BY <1>6, InitializeResultStep
  <1>7. CASE ResolveAtCursor
    BY <1>7, ResolveAtCursorStep
  <1>8. CASE PassOver
    BY <1>8, PassOverStep
  <1>9. CASE FindUIP
    BY <1>9, FindUIPStep
  <1>10. CASE OutOfMemory
    BY <1>10, OutOfMemoryStep
  <1>11. CASE \E l \in toCheck : CheckLiteral(l)
    BY <1>11, CheckLiteralStep
  <1>12. CASE \E v \in work : GiveUp(v) \/ Descend(v)
    BY <1>12, GiveUpStep, DescendStep
  <1>13. CASE EraseLiteral
    BY <1>13, EraseLiteralStep
  <1>14. CASE EndMinimization
    BY <1>14, EndMinimizationStep
  <1>15. CASE OptimizeLemma
    BY <1>15, OptimizeLemmaStep
  <1>16. CASE ResolveWithBinaries
    BY <1>16, ResolveWithBinariesStep
  <1>17. CASE CreateLemma
    BY <1>17, CreateLemmaStep
  <1>18. CASE UpdateReasonClauseLBD
    BY <1>18, UpdateStep
  <1>19. CASE Backtrack
    BY <1>19, BacktrackStep
  <1>20. CASE LearnLemma
    BY <1>20, LearnLemmaStep
  <1>21. CASE UNCHANGED cwVars
    BY <1>21, StutterStep
  <1> QED
    BY <1>1, <1>2, <1>3, <1>4, <1>5, <1>6, <1>7, <1>8, <1>9, <1>10, <1>11, <1>12, <1>13, <1>14,
       <1>15, <1>16, <1>17, <1>18, <1>19, <1>20, <1>21 DEF CWNext

(* The literals of a set of false literals are as many as their variables. *)
LEMMA OneLiteralEach ==
  ASSUME TrailShape, NEW C \in SUBSET Lits, \A l \in C : False(l)
  PROVE  Cardinality(VarsOf(C)) = Cardinality(C)
  <1> DEFINE f == [l \in C |-> VarOf(l)]
  <1>1. ASSUME NEW l \in C, NEW m \in C, VarOf(l) = VarOf(m)
        PROVE  l = m
    <2>1. l \in Lits /\ m \in Lits /\ False(l) /\ False(m) /\ Neg(Neg(m)) = m
      BY LitFacts
    <2>2. l # Neg(m)
      BY <2>1, Consistent DEF False, True
    <2> QED
      BY <1>1, <2>1, <2>2, LitFacts
  <1>2. f \in Bijection(C, VarsOf(C))
    BY <1>1 DEF VarsOf, Bijection, Injection, Surjection, IsInjective
  <1>3. ExistsBijection(C, VarsOf(C))
    BY <1>2 DEF ExistsBijection
  <1>4. IsFiniteSet(C)
    BY AtMostOne
  <1> QED
    BY <1>3, <1>4, FS_Bijection

LEMMA CounterRight == WalkIInv => CounterExact
  <1> SUFFICES ASSUME WalkIInv
               PROVE  CounterExact
    OBVIOUS
  <1>1. phase \notin {"walk", "failed"} => seen = {}
    BY DEF WalkIInv, ControlRight
  <1> DEFINE open == {v \in seen : LevelOf(v) = CurrentLevel}
  <1>2. ASSUME phase = "walk"
        PROVE  /\ unresolved = Cardinality(open)
               /\ \A v \in open : Position(v) <= cursor
               /\ seen \ open = VarsOf(lemma)
    <2>1. PICK f : IsWalk(f) /\ WalkedTo(f[cursor])
      BY <1>2 DEF WalkIInv, WalkRight
    <2>2. PICK C, D : C = f[cursor] /\ D = OnLevel(C, CurrentLevel)
      OBVIOUS
    <2>3. /\ TrailShape /\ Len(assigned) \in Nat /\ cursor \in 1 .. Len(assigned)
          /\ C \in SUBSET Lits /\ \A l \in C : False(l)
      BY <1>2, <2>1, <2>2, AtCursor
    <2>4. /\ lemma = C \ D /\ seen = VarsOf(C) /\ unresolved = Cardinality(D)
          /\ \A l \in D : FalseBy(l, cursor)
      BY <2>1, <2>2 DEF WalkedTo
    <2>5. \A l : l \in D <=> l \in C /\ LevelOf(l) = CurrentLevel
      BY <2>2 DEF OnLevel
    <2>6. \A l \in C : VarOf(VarOf(l)) = VarOf(l)
      BY <2>3, LitFacts
    <2>7. \A l \in C : Position(VarOf(l)) = Position(l) /\ LevelOf(VarOf(l)) = LevelOf(l)
      <3>1. \A l \in C : Position(VarOf(l)) = Position(l)
        BY <2>6 DEF Position
      <3> QED
        BY <3>1 DEF LevelOf
    <2>8. open = VarsOf(D)
      BY <2>4, <2>5, <2>7 DEF VarsOf
    <2>9. unresolved = Cardinality(open)
      <3>1. D \in SUBSET Lits /\ \A l \in D : False(l)
        BY <2>3, <2>5
      <3> QED
        BY <2>3, <2>4, <2>8, <3>1, OneLiteralEach
    <2>10. \A v \in open : Position(v) <= cursor
      <3>1. \A l \in D : Position(l) \in 1 .. cursor
        BY <2>3, <2>4, <2>5, FalseLiteral
      <3>2. \A l \in D : Position(VarOf(l)) <= cursor
        BY <2>3, <2>5, <2>7, <3>1
      <3> QED
        BY <2>8, <3>2 DEF VarsOf
    <2>11. seen \ open = VarsOf(lemma)
      <3>1. \A l \in C : VarOf(l) \in open <=> l \in D
        BY <2>4, <2>5, <2>7 DEF VarsOf
      <3> HIDE DEF open
      <3> QED
        BY <2>4, <2>5, <3>1 DEF VarsOf
    <2> QED
      BY <2>9, <2>10, <2>11
  <1> QED
    BY <1>1, <1>2 DEF CounterExact

(* The invariant: the walk is at a step of the clause ConflictAnalysis     *)
(* defines, what is marked is in the lemma or implied by it, and no stamp  *)
(* outlives its context (computeConflictClause, eraseRedundantLiterals,    *)
(* resolveWithBinaries, StampMap).                                         *)
THEOREM WalkInvariant == CWSpec => []WalkIInv
  <1>1. WalkIInv /\ [CWNext]_cwVars => WalkIInv'
    BY WalkInvStep
  <1>2. CWInit => WalkIInv
    BY InitRight
  <1> QED
    BY <1>1, <1>2, PTL DEF CWSpec

(* No stamp of an earlier context counts in the contexts of a conflict:    *)
(* the redundancy checks take back what they stamp and the map is cleared  *)
(* after each of its uses (isStamped, isRedundant, getLBD).                *)
THEOREM WalkStampsFresh == CWSpec => []StampsFresh
  <1>1. WalkIInv => StampsFresh
    BY StampInvFresh DEF WalkIInv, StampsRight
  <1> QED
    BY <1>1, WalkInvariant, PTL

(* unresolvedCount is exact all the way down the trail, and between two    *)
(* conflicts nothing is marked (resolveUntilUIP, class invariant A).       *)
THEOREM WalkCounterExact == CWSpec => []CounterExact
  <1> QED
    BY CounterRight, WalkInvariant, PTL

(* The walk, the redundancy checks and the resolution with binary clauses  *)
(* compute the clause that module ConflictAnalysis defines, in whatever    *)
(* order the literals are looked at (deriveLemma, optimizeLemma).          *)
THEOREM WalkLemmaAsDefined == CWSpec => []LemmaAsDefined
  <1>1. WalkIInv => LemmaAsDefined
    BY DEF WalkIInv, LemmaRight, LemmaAsDefined
  <1> QED
    BY <1>1, WalkInvariant, PTL
=============================================================================
