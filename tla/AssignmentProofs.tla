-------------------------- MODULE AssignmentProofs --------------------------
(***************************************************************************)
(* Proofs about Assignment, for every set of clauses and every number of   *)
(* variables.                                                              *)
(***************************************************************************)
EXTENDS Assignment, SequenceTheorems, TLAPS

(* Facts about literals, values and clauses.                               *)
LEMMA LitFacts ==
  ASSUME NEW l \in Lits
  PROVE  /\ Neg(l) \in Lits
         /\ VarOf(l) \in Vars
         /\ SignOf(l) \in {-1, 1}
         /\ VarOf(Neg(l)) = VarOf(l)
         /\ l \in Int
  BY NumVarsAssumption DEF Lits, Vars, Neg, VarOf, SignOf

LEMMA ValueFacts ==
  ASSUME assignments \in [Vars -> {-1, 0, 1}], NEW l \in Lits
  PROVE  /\ Value(l) \in {-1, 0, 1}
         /\ Value(l) = 0 <=> assignments[VarOf(l)] = 0
         /\ Value(l) = 1 <=> assignments[VarOf(l)] = SignOf(l)
  <1>1. l \in Int /\ l # 0
    BY NumVarsAssumption DEF Lits
  <1>2. CASE l > 0
    <2>1. l \in Vars /\ VarOf(l) = l /\ SignOf(l) = 1 /\ Value(l) = assignments[l]
      BY <1>1, <1>2, NumVarsAssumption DEF Lits, Vars, VarOf, SignOf, Value
    <2>2. assignments[l] \in {-1, 0, 1}
      BY <2>1
    <2> QED
      BY <2>1, <2>2
  <1>3. CASE ~(l > 0)
    <2>1. -l \in Vars /\ VarOf(l) = -l /\ SignOf(l) = -1 /\ Value(l) = -assignments[-l]
      BY <1>1, <1>3, NumVarsAssumption DEF Lits, Vars, VarOf, SignOf, Value
    <2>2. assignments[-l] \in {-1, 0, 1}
      BY <2>1
    <2> QED
      BY <2>1, <2>2
  <1> QED
    BY <1>2, <1>3

(* Exchanging two literals of a clause gives a clause of the same length.  *)
LEMMA SwapKeepsClause ==
  ASSUME NEW c, IsClause(c), NEW i \in 1 .. Len(c), NEW j \in 1 .. Len(c)
  PROVE  /\ IsClause(SwapAt(c, i, j))
         /\ Len(SwapAt(c, i, j)) = Len(c)
  <1>1. c \in Seq(Lits) /\ Len(c) >= 2 /\ Len(c) \in Nat
    BY LenProperties DEF IsClause
  <1>2. c[i] \in Lits /\ c[j] \in Lits
    BY <1>1, ElementOfSeq
  <1> DEFINE d == [c EXCEPT ![i] = c[j]]
  <1>3. /\ d \in Seq(Lits)
        /\ Len(d) = Len(c)
        /\ \A k \in 1 .. Len(c) : d[k] = IF k = i THEN c[j] ELSE c[k]
    BY <1>1, <1>2, ExceptSeq
  <1> DEFINE e == [d EXCEPT ![j] = c[i]]
  <1>4. /\ e \in Seq(Lits)
        /\ Len(e) = Len(c)
        /\ \A k \in 1 .. Len(c) : e[k] = IF k = j THEN c[i] ELSE d[k]
    <2> HIDE DEF d
    <2> QED
      BY <1>2, <1>3, ExceptSeq
  <1>5. SwapAt(c, i, j) = e
    BY DEF SwapAt
  <1>6. ASSUME NEW k \in 1 .. Len(c), NEW m \in 1 .. Len(c), k # m
        PROVE  VarOf(e[k]) # VarOf(e[m])
    <2> HIDE DEF d, e
    <2>1. \A p, q \in 1 .. Len(c) : p # q => VarOf(c[p]) # VarOf(c[q])
      BY DEF IsClause
    <2>2. PICK p \in 1 .. Len(c), q \in 1 .. Len(c) : p # q /\ e[k] = c[p] /\ e[m] = c[q]
      BY <1>3, <1>4, <1>6
    <2> QED
      BY <2>1, <2>2
  <1> QED
    BY <1>1, <1>4, <1>5, <1>6 DEF IsClause

(* Dropping the last of three or more literals gives a clause.             *)
LEMMA ShorteningKeepsClause ==
  ASSUME NEW c, IsClause(c), Len(c) >= 3
  PROVE  IsClause(SubSeq(c, 1, Len(c) - 1))
  <1>1. c \in Seq(Lits) /\ Len(c) \in Nat
    BY LenProperties DEF IsClause
  <1>2. \A i \in 1 .. Len(c) - 1 : c[i] \in Lits
    BY <1>1, ElementOfSeq
  <1> DEFINE d == SubSeq(c, 1, Len(c) - 1)
  <1>3. /\ d \in Seq(Lits)
        /\ Len(d) = Len(c) - 1
        /\ \A i \in 1 .. Len(c) - 1 : d[i] = c[i]
    BY <1>1, <1>2, SubSeqProperties
  <1> QED
    BY <1>1, <1>3 DEF IsClause

----------------------------------------------------------------------------
(* The propagation queue ends where the trail ends, and the literal being  *)
(* propagated is on the trail.                                             *)
QueueInv ==
  pc # "idle" =>
    /\ qend = Len(trail)
    /\ qhead <= qend
    /\ \E i \in 1 .. qhead : cur = trail[i]

(* The inductive invariant behind TypeOK and TrailInv: an unassignment     *)
(* saves a phase, which is a sign because the popped literal is true, and  *)
(* the next literal of the queue exists because the queue is part of the   *)
(* trail.                                                                  *)
TrailIInv == TypeOK /\ TrailInv /\ QueueInv

----------------------------------------------------------------------------
(* assign() of an unassigned literal.                                      *)
LEMMA AssignStep ==
  ASSUME TrailTypes, TrailInv,
         NEW l \in Lits, NEW r \in Clauses \cup {NoClause},
         Value(l) = 0, Assign(l, r), phases' = phases
  PROVE  /\ TrailTypes' /\ TrailInv'
         /\ Len(trail') = Len(trail) + 1
         /\ trail'[Len(trail) + 1] = l
         /\ \A i \in 1 .. Len(trail) : trail'[i] = trail[i]
  <1> DEFINE n == Len(trail)
             v == VarOf(l)
  <1>1. /\ trail \in Seq(Lits) /\ n \in Nat
        /\ levelLimits \in Seq(Nat) /\ Len(levelLimits) \in Nat /\ Len(levelLimits) >= 1
        /\ CurrentLevel \in Nat
        /\ \A i \in 1 .. n : trail[i] \in Lits
        /\ \A k \in 1 .. Len(levelLimits) : levelLimits[k] \in Nat
    BY LenProperties, ElementOfSeq DEF TrailTypes, CurrentLevel
  <1>2. /\ trail' \in Seq(Lits)
        /\ Len(trail') = n + 1
        /\ trail'[n + 1] = l
        /\ \A i \in 1 .. n : trail'[i] = trail[i]
    BY <1>1, AppendProperties DEF Assign
  <1>3. /\ v \in Vars /\ SignOf(l) \in {-1, 1}
        /\ assignments[v] = 0
        /\ \A i \in 1 .. n : VarOf(trail[i]) \in Vars /\ SignOf(trail[i]) \in {-1, 1}
    BY <1>1, LitFacts, ValueFacts DEF TrailTypes
  <1>4. /\ assignments' \in [Vars -> {-1, 0, 1}]
        /\ assignments'[v] = SignOf(l)
        /\ \A u \in Vars : u # v => assignments'[u] = assignments[u]
        /\ level' \in [Vars -> Nat]
        /\ level'[v] = CurrentLevel
        /\ \A u \in Vars : u # v => level'[u] = level[u]
        /\ reason' \in [Vars -> Clauses \cup {NoClause}]
        /\ levelLimits' = levelLimits
    BY <1>1, <1>3 DEF Assign, TrailTypes
  <1>5. TrailTypes'
    BY <1>1, <1>2, <1>4 DEF TrailTypes
  <1>6. \A i \in 1 .. n : assignments[VarOf(trail[i])] = SignOf(trail[i])
    BY <1>1, ValueFacts DEF TrailTypes, TrailInv, TrailMatchesAssignments
  <1>7. \A i \in 1 .. n : VarOf(trail[i]) # v
    BY <1>3, <1>6
  <1>8. TrailMatchesAssignments'
    <2>a. \A i, j \in 1 .. n : i # j => VarOf(trail[i]) # VarOf(trail[j])
      BY DEF TrailInv, TrailMatchesAssignments
    <2>b. \A i \in 1 .. n + 1 : i \in 1 .. n \/ i = n + 1
      BY <1>1
    <2>1. ASSUME NEW i \in 1 .. n + 1, NEW j \in 1 .. n + 1, i # j
          PROVE  VarOf(trail'[i]) # VarOf(trail'[j])
      <3>1. CASE i \in 1 .. n /\ j \in 1 .. n
        BY <1>2, <2>a, <2>1, <3>1
      <3>2. CASE i = n + 1 /\ j \in 1 .. n
        BY <1>2, <1>7, <3>2
      <3>3. CASE i \in 1 .. n /\ j = n + 1
        BY <1>2, <1>7, <3>3
      <3> QED
        BY <2>b, <2>1, <3>1, <3>2, <3>3
    <2>2. ASSUME NEW i \in 1 .. n + 1
          PROVE  assignments'[VarOf(trail'[i])] = SignOf(trail'[i])
      <3>1. CASE i \in 1 .. n
        <4>1. trail'[i] = trail[i] /\ VarOf(trail[i]) \in Vars /\ VarOf(trail[i]) # v
          BY <1>2, <1>3, <1>7, <3>1
        <4> QED
          BY <4>1, <1>4, <1>6, <3>1
      <3>2. CASE i = n + 1
        BY <1>2, <1>4, <3>2
      <3> QED
        BY <2>b, <3>1, <3>2
    <2>3. ASSUME NEW i \in 1 .. n + 1
          PROVE  Value(trail[i])' = 1
      <3>1. trail'[i] \in Lits
        BY <1>1, <1>2
      <3> QED
        BY <3>1, <2>2, <2>3, <1>4, ValueFacts DEF Value, VarOf, SignOf
    <2>4. ASSUME NEW u \in Vars, assignments'[u] # 0
          PROVE  \E i \in 1 .. n + 1 : VarOf(trail'[i]) = u
      <3>1. CASE u = v
        <4>1. n + 1 \in 1 .. n + 1 /\ VarOf(trail'[n + 1]) = u
          BY <1>1, <1>2, <3>1
        <4> QED
          BY <4>1
      <3>2. CASE u # v
        <4>1. assignments[u] # 0
          BY <1>4, <2>4, <3>2
        <4>2. PICK i \in 1 .. n : VarOf(trail[i]) = u
          BY <4>1 DEF TrailInv, TrailMatchesAssignments
        <4>3. i \in 1 .. n + 1
          BY <1>1
        <4>4. VarOf(trail'[i]) = u
          BY <1>2, <4>2
        <4> QED
          BY <4>3, <4>4
      <3> QED
        BY <3>1, <3>2
    <2> QED
      BY <1>2, <2>1, <2>3, <2>4 DEF TrailMatchesAssignments
  <1>9. LevelsMatchTrail'
    <2>1. \A i \in 1 .. n : level'[VarOf(trail'[i])] = level[VarOf(trail[i])]
      BY <1>2, <1>3, <1>4, <1>7
    <2>2. level'[VarOf(trail'[n + 1])] = Len(levelLimits) - 1
      BY <1>2, <1>4 DEF CurrentLevel
    <2>3. /\ levelLimits[1] = 0
          /\ \A k \in 1 .. Len(levelLimits) : levelLimits[k] <= n
          /\ \A k, m \in 1 .. Len(levelLimits) : k < m => levelLimits[k] <= levelLimits[m]
          /\ \A i \in 1 .. n, k \in 1 .. Len(levelLimits) :
               levelLimits[k] < i <=> level[VarOf(trail[i])] >= k - 1
          /\ \A i \in 1 .. n : level[VarOf(trail[i])] <= Len(levelLimits) - 1
      BY DEF TrailInv, LevelsMatchTrail, CurrentLevel
    <2>4. \A i \in 1 .. n + 1 : i \in 1 .. n \/ i = n + 1
      BY <1>1
    <2>5. \A k \in 1 .. Len(levelLimits) : levelLimits[k] <= n + 1
      BY <1>1, <2>3
    <2>6. ASSUME NEW i \in 1 .. n + 1
          PROVE  /\ level'[VarOf(trail'[i])] <= Len(levelLimits) - 1
                 /\ \A k \in 1 .. Len(levelLimits) :
                      levelLimits[k] < i <=> level'[VarOf(trail'[i])] >= k - 1
      <3>1. CASE i \in 1 .. n
        BY <2>1, <2>3, <3>1
      <3>2. CASE i = n + 1
        <4>1. level'[VarOf(trail'[i])] = Len(levelLimits) - 1
          BY <2>2, <3>2
        <4>2. \A k \in 1 .. Len(levelLimits) : levelLimits[k] < i /\ Len(levelLimits) - 1 >= k - 1
          BY <1>1, <2>3, <3>2
        <4> QED
          BY <1>1, <4>1, <4>2
      <3> QED
        BY <2>4, <3>1, <3>2
    <2>7. CurrentLevel' = Len(levelLimits) - 1 /\ levelLimits' = levelLimits
      BY <1>4 DEF CurrentLevel
    <2> QED
      BY <1>2, <2>3, <2>5, <2>6, <2>7 DEF LevelsMatchTrail
  <1> QED
    BY <1>2, <1>5, <1>8, <1>9 DEF TrailInv

(* Popping the assignments of the levels above k - 1, or of level 0 and    *)
(* all others when k = 1 and n = 0.                                        *)
LEMMA PopStep ==
  ASSUME TrailTypes, TrailInv,
         NEW n \in 0 .. Len(trail), NEW k \in 1 .. Len(levelLimits),
         PopTrailTo(n),
         levelLimits' = SubSeq(levelLimits, 1, k),
         IF k = Len(levelLimits) THEN n = 0 /\ k = 1
                                 ELSE n = levelLimits[k + 1] \/ (n = 0 /\ k = 1),
         reason' = reason, level' = level
  PROVE  TrailTypes' /\ TrailInv'
  <1> DEFINE N == Len(trail)
             L == Len(levelLimits)
             popped == {VarOf(trail[i]) : i \in n + 1 .. N}
  <1>1. /\ trail \in Seq(Lits) /\ N \in Nat
        /\ levelLimits \in Seq(Nat) /\ L \in Nat /\ L >= 1
        /\ \A i \in 1 .. N : trail[i] \in Lits
        /\ \A m \in 1 .. L : levelLimits[m] \in Nat
    BY LenProperties, ElementOfSeq DEF TrailTypes
  <1>2. /\ trail' \in Seq(Lits)
        /\ Len(trail') = n
        /\ \A i \in 1 .. n : trail'[i] = trail[i]
    BY <1>1, SubSeqProperties, \A i \in 1 .. n : trail[i] \in Lits DEF PopTrailTo
  <1>3. /\ levelLimits' \in Seq(Nat)
        /\ Len(levelLimits') = k
        /\ \A m \in 1 .. k : levelLimits'[m] = levelLimits[m]
    BY <1>1, SubSeqProperties, \A m \in 1 .. k : levelLimits[m] \in Nat
  <1>4. \A i \in 1 .. N : /\ VarOf(trail[i]) \in Vars
                          /\ assignments[VarOf(trail[i])] = SignOf(trail[i])
                          /\ SignOf(trail[i]) \in {-1, 1}
    BY <1>1, LitFacts, ValueFacts DEF TrailTypes, TrailInv, TrailMatchesAssignments
  <1>5. /\ assignments' = [u \in Vars |-> IF u \in popped THEN 0 ELSE assignments[u]]
        /\ phases' = [u \in Vars |-> IF u \in popped THEN assignments[u] ELSE phases[u]]
    BY DEF PopTrailTo
  <1>6. \A u \in popped : u \in Vars /\ assignments[u] \in {-1, 1}
    BY <1>1, <1>4
  <1>7. assignments' \in [Vars -> {-1, 0, 1}] /\ phases' \in [Vars -> {-1, 1}]
    BY <1>5, <1>6 DEF TrailTypes
  <1>8. TrailTypes'
    BY <1>1, <1>2, <1>3, <1>7 DEF TrailTypes
  <1>a. \A i, j \in 1 .. N : i # j => VarOf(trail[i]) # VarOf(trail[j])
    BY DEF TrailInv, TrailMatchesAssignments
  <1>b. \A i \in 1 .. n : i \in 1 .. N
    BY <1>1
  <1>9. ASSUME NEW i \in 1 .. n
        PROVE  VarOf(trail[i]) \notin popped
    <2>1. \A j \in n + 1 .. N : j \in 1 .. N /\ i # j
      BY <1>1
    <2> QED
      BY <1>a, <1>b, <2>1
  <1>10. TrailMatchesAssignments'
    <2>1. \A i, j \in 1 .. n : i # j => VarOf(trail'[i]) # VarOf(trail'[j])
      BY <1>2, <1>a, <1>b
    <2>2. ASSUME NEW i \in 1 .. n
          PROVE  Value(trail[i])' = 1
      <3>1. trail'[i] = trail[i] /\ trail[i] \in Lits /\ VarOf(trail[i]) \in Vars
        BY <1>1, <1>2, <1>4, <1>b
      <3>2. assignments'[VarOf(trail'[i])] = SignOf(trail'[i])
        <4>1. VarOf(trail[i]) \notin popped
          BY <1>9
        <4> HIDE DEF popped
        <4> QED
          BY <3>1, <4>1, <1>4, <1>5, <1>b
      <3> QED
        BY <3>1, <3>2, <1>7, ValueFacts DEF Value, VarOf, SignOf
    <2>3. ASSUME NEW u \in Vars, assignments'[u] # 0
          PROVE  \E i \in 1 .. n : VarOf(trail'[i]) = u
      <3>1. u \notin popped /\ assignments[u] # 0
        BY <1>5, <2>3
      <3>2. PICK i \in 1 .. N : VarOf(trail[i]) = u
        BY <3>1 DEF TrailInv, TrailMatchesAssignments
      <3> QED
        BY <1>1, <1>2, <3>1, <3>2
    <2> QED
      BY <1>2, <2>1, <2>2, <2>3 DEF TrailMatchesAssignments
  <1>11. LevelsMatchTrail'
    <2>a. /\ levelLimits[1] = 0
          /\ \A m, p \in 1 .. L : m < p => levelLimits[m] <= levelLimits[p]
          /\ \A i \in 1 .. N, m \in 1 .. L :
               levelLimits[m] < i <=> level[VarOf(trail[i])] >= m - 1
      BY DEF TrailInv, LevelsMatchTrail
    <2>b. CASE n = 0 /\ k = 1
      BY <1>1, <1>2, <1>3, <2>a, <2>b DEF LevelsMatchTrail, CurrentLevel
    <2>c. CASE k < L /\ n = levelLimits[k + 1]
      <3>1. \A m \in 1 .. k : levelLimits[m] <= n
        <4>1. k + 1 \in 1 .. L
              /\ \A m \in 1 .. k : m \in 1 .. L /\ m < k + 1
          BY <1>1, <2>c
        <4> QED
          BY <4>1, <2>a, <2>c
      <3>2. ASSUME NEW i \in 1 .. n
            PROVE  /\ level[VarOf(trail[i])] \in Nat
                   /\ level[VarOf(trail[i])] <= k - 1
        <4>1. VarOf(trail[i]) \in Vars /\ level[VarOf(trail[i])] \in Nat
          BY <1>1, <1>4 DEF TrailTypes
        <4>2. ~(levelLimits[k + 1] < i)
          BY <1>1, <2>c
        <4>3. ~(level[VarOf(trail[i])] >= (k + 1) - 1)
          <5>1. i \in 1 .. N /\ k + 1 \in 1 .. L
            BY <1>1, <2>c
          <5> QED
            BY <2>a, <4>2, <5>1
        <4> QED
          BY <1>1, <4>1, <4>3
      <3> QED
        <4>1. /\ levelLimits'[1] = 0
              /\ \A m \in 1 .. k : levelLimits'[m] <= n
              /\ \A m, p \in 1 .. k : m < p => levelLimits'[m] <= levelLimits'[p]
          <5>1. \A m \in 1 .. k : m \in 1 .. L /\ levelLimits'[m] = levelLimits[m]
            BY <1>1, <1>3
          <5>2. 1 \in 1 .. k
            BY <1>1
          <5> QED
            BY <2>a, <3>1, <5>1, <5>2
        <4>2. ASSUME NEW i \in 1 .. n
              PROVE  /\ level'[VarOf(trail'[i])] <= k - 1
                     /\ \A m \in 1 .. k :
                          levelLimits'[m] < i <=> level'[VarOf(trail'[i])] >= m - 1
          <5>1. trail'[i] = trail[i] /\ i \in 1 .. N
            BY <1>2, <1>b
          <5>2. \A m \in 1 .. k : m \in 1 .. L /\ levelLimits'[m] = levelLimits[m]
            BY <1>1, <1>3
          <5> QED
            BY <2>a, <3>2, <5>1, <5>2
        <4> QED
          BY <1>2, <1>3, <4>1, <4>2 DEF LevelsMatchTrail, CurrentLevel
    <2>d. (n = 0 /\ k = 1) \/ (k < L /\ n = levelLimits[k + 1])
      BY <1>1
    <2> QED
      BY <2>b, <2>c, <2>d
  <1> QED
    BY <1>8, <1>10, <1>11 DEF TrailInv

----------------------------------------------------------------------------
THEOREM InitTrailIInv == Init => TrailIInv
  <1> SUFFICES ASSUME Init
               PROVE  TrailIInv
    OBVIOUS
  <1>1. ClauseTypes
    BY FormulasAssumption, ClausesAssumption DEF Init, ClauseTypes
  <1>2. TrailTypes
    <2>1. <<>> \in Seq(Lits) /\ <<0>> \in Seq(Nat) /\ Len(<<0>>) = 1
      OBVIOUS
    <2> QED
      BY <2>1 DEF Init, TrailTypes
  <1>3. WatcherTypes /\ CallTypes /\ QueueInv
    BY DEF Init, WatcherTypes, CallTypes, QueueInv
  <1>4. TrailInv
    <2>1. Len(trail) = 0 /\ Len(levelLimits) = 1 /\ levelLimits[1] = 0
      BY DEF Init
    <2>2. TrailMatchesAssignments
      BY <2>1 DEF Init, TrailMatchesAssignments
    <2>3. LevelsMatchTrail
      BY <2>1 DEF LevelsMatchTrail
    <2> QED
      BY <2>2, <2>3 DEF TrailInv
  <1> QED
    BY <1>1, <1>2, <1>3, <1>4 DEF TrailIInv, TypeOK

(* Steps that leave the trail and its bookkeeping alone.                   *)
LEMMA SameTrail ==
  ASSUME TrailTypes, TrailInv, UNCHANGED <<trailVars, phases>>
  PROVE  TrailTypes' /\ TrailInv'
  BY DEF trailVars, TrailTypes, TrailInv, TrailMatchesAssignments, LevelsMatchTrail,
         CurrentLevel, Value

(* The watchers registerClause() and registerLemma() make.                 *)
LEMMA WatcherForType ==
  ASSUME ClauseTypes, NEW c \in Clauses, NEW i \in {1, 2}
  PROVE  /\ lits[c][i] \in Lits
         /\ WatcherFor(c, i) \in Watcher
  <1>1. lits[c] \in Seq(Lits) /\ Len(lits[c]) >= 2 /\ Len(lits[c]) \in Nat
    BY LenProperties DEF ClauseTypes, IsClause
  <1>2. i \in 1 .. Len(lits[c]) /\ 3 - i \in 1 .. Len(lits[c])
    BY <1>1
  <1>3. lits[c][i] \in Lits /\ lits[c][3 - i] \in Lits
    BY <1>1, <1>2, ElementOfSeq
  <1> QED
    BY <1>3 DEF WatcherFor, Watcher

LEMMA AttachStep ==
  ASSUME ClauseTypes, WatcherTypes, NEW c \in Clauses,
         Attach(c), maxVar' = maxVar, dirty' = dirty
  PROVE  ClauseTypes' /\ WatcherTypes'
  <1>1. /\ lits[c][1] \in Lits /\ lits[c][2] \in Lits
        /\ WatcherFor(c, 1) \in Watcher /\ WatcherFor(c, 2) \in Watcher
    BY WatcherForType
  <1>2. \A W \in [Lits -> SUBSET Watcher] : WithWatchersOf(c, W) \in [Lits -> SUBSET Watcher]
    BY <1>1 DEF WithWatchersOf
  <1>3. ClauseTypes'
    BY DEF Attach, ClauseTypes
  <1>4. WatcherTypes'
    BY <1>2 DEF Attach, WatcherTypes
  <1> QED
    BY <1>3, <1>4

----------------------------------------------------------------------------
(* Making an unassigned literal true and starting or continuing a          *)
(* propagation.                                                            *)
LEMMA StartStep ==
  ASSUME TrailIInv, NEW l \in Lits, NEW r \in Clauses \cup {NoClause},
         NEW m \in {"include", "exclude"},
         Value(l) = 0, Assign(l, r), StartPropagation(l, m), phases' = phases
  PROVE  TrailTypes' /\ TrailInv' /\ CallTypes' /\ QueueInv'
  <1>1. TrailTypes /\ TrailInv
    BY DEF TrailIInv, TypeOK
  <1>2. /\ TrailTypes' /\ TrailInv'
        /\ Len(trail') = Len(trail) + 1
        /\ trail'[Len(trail) + 1] = l
        /\ Len(trail) \in Nat
    BY <1>1, AssignStep, LenProperties DEF TrailTypes
  <1>3. CallTypes'
    BY <1>2 DEF StartPropagation, CallTypes
  <1>4. QueueInv'
    BY <1>2 DEF StartPropagation, QueueInv
  <1> QED
    BY <1>2, <1>3, <1>4

LEMMA ForceStep ==
  ASSUME TrailIInv, NEW l \in Lits, NEW r \in Clauses, pc # "idle",
         Value(l) = 0, Assign(l, r), Enqueue, todo' \subseteq todo,
         UNCHANGED <<phases, pc, cur, mode, qhead, conflict>>
  PROVE  TrailTypes' /\ TrailInv' /\ CallTypes' /\ QueueInv'
  <1>1. TrailTypes /\ TrailInv /\ CallTypes /\ QueueInv
    BY DEF TrailIInv, TypeOK
  <1>2. /\ TrailTypes' /\ TrailInv'
        /\ Len(trail') = Len(trail) + 1
        /\ \A i \in 1 .. Len(trail) : trail'[i] = trail[i]
        /\ Len(trail) \in Nat
    BY <1>1, AssignStep, LenProperties DEF TrailTypes
  <1>3. CallTypes'
    BY <1>1 DEF Enqueue, CallTypes
  <1>4. QueueInv'
    <2>1. qend = Len(trail) /\ qhead <= qend /\ qhead \in Nat
      BY <1>1 DEF QueueInv, CallTypes
    <2>2. PICK i \in 1 .. qhead : cur = trail[i]
      BY <1>1 DEF QueueInv
    <2>3. cur' = trail'[i]
      BY <1>2, <2>1, <2>2
    <2> QED
      BY <1>2, <2>1, <2>3 DEF QueueInv, Enqueue
  <1> QED
    BY <1>2, <1>3, <1>4

LEMMA RegisterCallStep == TrailIInv /\ RegisterCall => TrailIInv'
  <1> SUFFICES ASSUME TrailIInv, RegisterCall
               PROVE  TrailIInv'
    OBVIOUS
  <1>1. ClauseTypes /\ TrailTypes /\ WatcherTypes /\ CallTypes /\ TrailInv /\ QueueInv
    BY DEF TrailIInv, TypeOK
  <1>2. ASSUME NEW c \in Clauses, RegisterClause(c)
        PROVE  TrailIInv'
    <2>1. ClauseTypes' /\ WatcherTypes'
      BY <1>1, <1>2, AttachStep DEF RegisterClause
    <2>2. TrailTypes' /\ TrailInv'
      BY <1>1, <1>2, SameTrail DEF RegisterClause
    <2>3. CallTypes' /\ QueueInv'
      BY <1>1, <1>2 DEF RegisterClause, callVars, trailVars, CallTypes, QueueInv
    <2> QED
      BY <2>1, <2>2, <2>3 DEF TrailIInv, TypeOK
  <1>3. ASSUME NEW c \in Clauses, RegisterLemma(c)
        PROVE  TrailIInv'
    <2>1. ClauseTypes' /\ WatcherTypes'
      BY <1>1, <1>3, AttachStep DEF RegisterLemma
    <2>2. lits[c][1] \in Lits
      BY <1>1, WatcherForType
    <2>3. TrailTypes' /\ TrailInv' /\ CallTypes' /\ QueueInv'
      BY <1>3, <2>2, StartStep DEF RegisterLemma
    <2> QED
      BY <2>1, <2>3 DEF TrailIInv, TypeOK
  <1> QED
    BY <1>2, <1>3 DEF RegisterCall

LEMMA TrailCallStep == TrailIInv /\ TrailCall => TrailIInv'
  <1> SUFFICES ASSUME TrailIInv, TrailCall
               PROVE  TrailIInv'
    OBVIOUS
  <1>1. /\ ClauseTypes /\ TrailTypes /\ WatcherTypes /\ CallTypes /\ TrailInv /\ QueueInv
        /\ Len(trail) \in Nat /\ Len(levelLimits) \in Nat /\ Len(levelLimits) >= 1
        /\ levelLimits \in Seq(Nat)
    BY LenProperties DEF TrailIInv, TypeOK, TrailTypes
  <1>2. ASSUME NEW l \in Lits, NEW m \in {"include", "exclude"}, AppendLit(l, m)
        PROVE  TrailIInv'
    <2>1. ClauseTypes' /\ WatcherTypes'
      BY <1>1, <1>2 DEF AppendLit, clauseVars, watcherVars, ClauseTypes, WatcherTypes
    <2>2. TrailTypes' /\ TrailInv' /\ CallTypes' /\ QueueInv'
      BY <1>2, StartStep DEF AppendLit
    <2> QED
      BY <2>1, <2>2 DEF TrailIInv, TypeOK
  <1>3. ASSUME NewLevel
        PROVE  TrailIInv'
    <2>1. ClauseTypes' /\ WatcherTypes' /\ CallTypes' /\ QueueInv'
      BY <1>1, <1>3 DEF NewLevel, clauseVars, watcherVars, callVars, ClauseTypes, WatcherTypes,
                        CallTypes, QueueInv
    <2>2. /\ levelLimits' \in Seq(Nat)
          /\ Len(levelLimits') = Len(levelLimits) + 1
          /\ \A k \in 1 .. Len(levelLimits) : levelLimits'[k] = levelLimits[k]
          /\ levelLimits'[Len(levelLimits) + 1] = Len(trail)
      BY <1>1, <1>3, AppendProperties DEF NewLevel
    <2>3. TrailTypes'
      BY <1>1, <1>3, <2>2 DEF NewLevel, TrailTypes
    <2>4. TrailMatchesAssignments'
      BY <1>1, <1>3 DEF NewLevel, TrailInv, TrailMatchesAssignments, Value
    <2>5. LevelsMatchTrail'
      <3>1. /\ levelLimits[1] = 0
            /\ \A k \in 1 .. Len(levelLimits) : levelLimits[k] <= Len(trail)
            /\ \A k, m \in 1 .. Len(levelLimits) : k < m => levelLimits[k] <= levelLimits[m]
            /\ \A i \in 1 .. Len(trail), k \in 1 .. Len(levelLimits) :
                 levelLimits[k] < i <=> level[VarOf(trail[i])] >= k - 1
            /\ \A i \in 1 .. Len(trail) : level[VarOf(trail[i])] <= Len(levelLimits) - 1
        BY <1>1 DEF TrailInv, LevelsMatchTrail, CurrentLevel
      <3>2. \A i \in 1 .. Len(trail) : level[VarOf(trail[i])] \in Nat
        BY <1>1, LitFacts, ElementOfSeq DEF TrailTypes
      <3>3. \A k \in 1 .. Len(levelLimits) + 1 :
              k \in 1 .. Len(levelLimits) \/ k = Len(levelLimits) + 1
        BY <1>1
      <3>4. trail' = trail /\ level' = level /\ CurrentLevel' = Len(levelLimits)
        BY <1>1, <1>3, <2>2 DEF NewLevel, CurrentLevel
      <3>5. /\ levelLimits'[1] = 0
            /\ \A k \in 1 .. Len(levelLimits) + 1 : levelLimits'[k] <= Len(trail)
            /\ \A i \in 1 .. Len(trail) : level[VarOf(trail[i])] <= Len(levelLimits)
        <4>1. \A k \in 1 .. Len(levelLimits) : levelLimits'[k] <= Len(trail)
          BY <2>2, <3>1
        <4>2. levelLimits'[Len(levelLimits) + 1] <= Len(trail)
          BY <1>1, <2>2
        <4>3. \A i \in 1 .. Len(trail) : level[VarOf(trail[i])] <= Len(levelLimits)
          BY <1>1, <3>1, <3>2
        <4>4. levelLimits'[1] = 0
          BY <1>1, <2>2, <3>1
        <4> QED
          BY <3>3, <4>1, <4>2, <4>3, <4>4
      <3>6. ASSUME NEW k \in 1 .. Len(levelLimits) + 1, NEW m \in 1 .. Len(levelLimits) + 1, k < m
            PROVE  levelLimits'[k] <= levelLimits'[m]
        <4>1. k \in 1 .. Len(levelLimits)
          BY <1>1, <3>3, <3>6
        <4>2. CASE m \in 1 .. Len(levelLimits)
          BY <2>2, <3>1, <3>6, <4>1, <4>2
        <4>3. CASE m = Len(levelLimits) + 1
          BY <2>2, <3>1, <4>1, <4>3
        <4> QED
          BY <3>3, <4>2, <4>3
      <3>7. ASSUME NEW i \in 1 .. Len(trail), NEW k \in 1 .. Len(levelLimits) + 1
            PROVE  levelLimits'[k] < i <=> level[VarOf(trail[i])] >= k - 1
        <4>1. CASE k \in 1 .. Len(levelLimits)
          BY <2>2, <3>1, <4>1
        <4>2. CASE k = Len(levelLimits) + 1
          <5>1. ~(levelLimits'[k] < i)
            BY <1>1, <2>2, <4>2
          <5>2. ~(level[VarOf(trail[i])] >= k - 1)
            BY <1>1, <3>1, <3>2, <4>2
          <5> QED
            BY <5>1, <5>2
        <4> QED
          BY <3>3, <4>1, <4>2
      <3> QED
        BY <2>2, <3>4, <3>5, <3>6, <3>7 DEF LevelsMatchTrail
    <2> QED
      BY <2>1, <2>3, <2>4, <2>5 DEF TrailIInv, TypeOK, TrailInv
  <1>4. ASSUME NEW k \in 0 .. CurrentLevel, UndoToLevel(k)
        PROVE  TrailIInv'
    <2>1. k \in 0 .. Len(levelLimits) - 2
      BY <1>1, <1>4 DEF UndoToLevel, CurrentLevel
    <2>2. k + 1 \in 1 .. Len(levelLimits) /\ k + 1 # Len(levelLimits) /\ (k + 1) + 1 = k + 2
      BY <1>1, <2>1
    <2>3. levelLimits[k + 2] \in Nat /\ levelLimits[k + 2] <= Len(trail)
      <3>1. k + 2 \in 1 .. Len(levelLimits)
        BY <1>1, <2>1
      <3> QED
        BY <1>1, <3>1, ElementOfSeq DEF TrailInv, LevelsMatchTrail
    <2>4. TrailTypes' /\ TrailInv'
      BY <1>1, <1>4, <2>2, <2>3, PopStep DEF UndoToLevel
    <2>5. ClauseTypes' /\ WatcherTypes' /\ CallTypes' /\ QueueInv'
      BY <1>1, <1>4 DEF UndoToLevel, clauseVars, watcherVars, ClauseTypes, WatcherTypes,
                        CallTypes, QueueInv
    <2> QED
      BY <2>4, <2>5 DEF TrailIInv, TypeOK
  <1>5. ASSUME UndoAll
        PROVE  TrailIInv'
    <2>1. 0 \in 0 .. Len(trail) /\ 1 \in 1 .. Len(levelLimits)
      BY <1>1
    <2>2. TrailTypes' /\ TrailInv'
      BY <1>1, <1>5, <2>1, PopStep DEF UndoAll
    <2>3. ClauseTypes' /\ WatcherTypes' /\ CallTypes' /\ QueueInv'
      BY <1>1, <1>5 DEF UndoAll, clauseVars, watcherVars, ClauseTypes, WatcherTypes,
                        CallTypes, QueueInv
    <2> QED
      BY <2>2, <2>3 DEF TrailIInv, TypeOK
  <1>6. ASSUME NEW v \in Vars, IncreaseMaxVar(v)
        PROVE  TrailIInv'
    <2>1. TrailTypes' /\ TrailInv'
      BY <1>1, <1>6, SameTrail DEF IncreaseMaxVar
    <2>2. ClauseTypes' /\ WatcherTypes' /\ CallTypes' /\ QueueInv'
      BY <1>1, <1>6 DEF IncreaseMaxVar, clauseVars, watcherVars, trailVars, callVars,
                        ClauseTypes, WatcherTypes, CallTypes, QueueInv
    <2> QED
      BY <2>1, <2>2 DEF TrailIInv, TypeOK
  <1> QED
    BY <1>2, <1>3, <1>4, <1>5, <1>6 DEF TrailCall

(* Reporting, changing, deleting and unregistering clauses.                *)
LEMMA ModificationStep ==
  TrailIInv /\ (ReportCall \/ EditLiterals \/ ClearClauses) => TrailIInv'
  <1> SUFFICES ASSUME TrailIInv, ReportCall \/ EditLiterals \/ ClearClauses
               PROVE  TrailIInv'
    OBVIOUS
  <1>1. ClauseTypes /\ TrailTypes /\ WatcherTypes /\ CallTypes /\ TrailInv /\ QueueInv
    BY DEF TrailIInv, TypeOK
  <1>2. \A c \in Clauses : /\ IsClause(lits[c])
                           /\ lits[c] \in Seq(Lits)
                           /\ lits[c][1] \in Lits /\ lits[c][2] \in Lits
    BY <1>1, WatcherForType DEF ClauseTypes, IsClause
  <1>3. ASSUME NEW c \in Clauses, RegisterClauseModification(c) \/ DeleteClause(c)
        PROVE  TrailIInv'
    <2>1. TrailTypes' /\ TrailInv'
      BY <1>1, <1>3, SameTrail DEF RegisterClauseModification, DeleteClause
    <2>2. ClauseTypes'
      BY <1>1, <1>3 DEF RegisterClauseModification, DeleteClause, ClauseTypes
    <2>3. WatcherTypes'
      BY <1>1, <1>2, <1>3 DEF RegisterClauseModification, DeleteClause, MarkDirty, watcherVars,
                              WatcherTypes
    <2>4. CallTypes' /\ QueueInv'
      BY <1>1, <1>3 DEF RegisterClauseModification, DeleteClause, trailVars, callVars, CallTypes,
                        QueueInv
    <2> QED
      BY <2>1, <2>2, <2>3, <2>4 DEF TrailIInv, TypeOK
  <1>4. ASSUME NEW c \in Clauses, NEW d \in Seq(Lits), IsClause(d),
               lits' = [lits EXCEPT ![c] = d],
               UNCHANGED <<redundant, scheduled, registered, announced, maxVar, trailVars, phases,
                           watcherVars, dirty, callVars>>
        PROVE  TrailIInv'
    <2>1. TrailTypes' /\ TrailInv'
      BY <1>1, <1>4, SameTrail
    <2>2. lits' \in [Clauses -> Seq(Lits)] /\ \A b \in Clauses : IsClause(lits'[b])
      BY <1>1, <1>2, <1>4 DEF ClauseTypes
    <2>3. ClauseTypes'
      BY <1>1, <1>4, <2>2 DEF ClauseTypes
    <2>4. WatcherTypes' /\ CallTypes' /\ QueueInv'
      BY <1>1, <1>4 DEF watcherVars, trailVars, callVars, WatcherTypes, CallTypes, QueueInv
    <2> QED
      BY <2>1, <2>3, <2>4 DEF TrailIInv, TypeOK
  <1>5. ASSUME NEW c \in Clauses, NEW i \in Vars, NEW j \in Vars, ExchangeLiterals(c, i, j)
        PROVE  TrailIInv'
    <2>1. i \in 1 .. Len(lits[c]) /\ j \in 1 .. Len(lits[c])
      BY <1>5 DEF ExchangeLiterals
    <2>2. IsClause(SwapAt(lits[c], i, j))
      BY <1>2, <2>1, SwapKeepsClause
    <2>3. SwapAt(lits[c], i, j) \in Seq(Lits)
      BY <2>2 DEF IsClause
    <2> QED
      BY <1>4, <1>5, <2>2, <2>3 DEF ExchangeLiterals
  <1>6. ASSUME NEW c \in Clauses, DropLastLiteral(c)
        PROVE  TrailIInv'
    <2>1. Len(lits[c]) \in Nat /\ Len(lits[c]) >= 3
      BY <1>2, <1>6, LenProperties DEF DropLastLiteral, Modifiable
    <2>2. IsClause(SubSeq(lits[c], 1, Len(lits[c]) - 1))
      BY <1>2, <2>1, ShorteningKeepsClause
    <2>3. SubSeq(lits[c], 1, Len(lits[c]) - 1) \in Seq(Lits)
      BY <2>2 DEF IsClause
    <2> QED
      BY <1>4, <1>6, <2>2, <2>3 DEF DropLastLiteral
  <1>7. ASSUME ClearClauses
        PROVE  TrailIInv'
    <2>1. TrailTypes' /\ TrailInv'
      BY <1>1, <1>7, SameTrail DEF ClearClauses
    <2>2. ClauseTypes' /\ WatcherTypes' /\ CallTypes' /\ QueueInv'
      BY <1>1, <1>7 DEF ClearClauses, trailVars, callVars, ClauseTypes, WatcherTypes,
                        CallTypes, QueueInv
    <2> QED
      BY <2>1, <2>2 DEF TrailIInv, TypeOK
  <1> QED
    BY <1>3, <1>5, <1>6, <1>7 DEF ReportCall, EditLiterals

(* Steps of a propagation that leave the trail alone.                      *)
LEMMA PropagateStep == TrailIInv /\ Propagate => TrailIInv'
  <1> SUFFICES ASSUME TrailIInv, Propagate
               PROVE  TrailIInv'
    OBVIOUS
  <1>1. ClauseTypes /\ TrailTypes /\ WatcherTypes /\ CallTypes /\ TrailInv /\ QueueInv
    BY DEF TrailIInv, TypeOK
  <1>2. Len(trail) \in Nat /\ \A i \in 1 .. Len(trail) : trail[i] \in Lits
    BY <1>1, LenProperties, ElementOfSeq DEF TrailTypes
  <1>3. \A w \in todo : /\ w \in Watcher
                        /\ w.clause \in Clauses /\ w.idx \in {1, 2} /\ w.blocker \in Lits
    BY <1>1 DEF CallTypes, Watcher
  <1>4. ASSUME NEW l \in Lits, CleanupWatchers(l)
        PROVE  TrailIInv'
    <2>1. TrailTypes' /\ TrailInv'
      BY <1>1, <1>4, SameTrail DEF CleanupWatchers
    <2>2. ClauseTypes' /\ CallTypes' /\ QueueInv'
      BY <1>1, <1>4 DEF CleanupWatchers, clauseVars, trailVars, callVars, ClauseTypes, CallTypes,
                        QueueInv
    <2>3. \A w \in watchers[l] : /\ w.clause \in Clauses /\ w.idx \in {1, 2}
                                 /\ WatcherFor(w.clause, w.idx) \in Watcher
      BY <1>1, WatcherForType DEF WatcherTypes, Watcher
    <2>4. \A w \in watchers[l] :
            [WatcherFor(w.clause, w.idx) EXCEPT !.red = FALSE] \in Watcher
      BY <2>3 DEF Watcher
    <2>5. watchers' \in [Lits -> SUBSET Watcher]
      BY <1>1, <1>4, <2>3 DEF CleanupWatchers, WatcherTypes, Kept, Misplaced
    <2>6. binWatchers' \in [Lits -> SUBSET Watcher]
      BY <1>1, <1>4, <2>4 DEF CleanupWatchers, WatcherTypes, Kept, NowBinary
    <2>7. WatcherTypes'
      BY <1>1, <1>4, <2>5, <2>6 DEF CleanupWatchers, WatcherTypes
    <2> QED
      BY <2>1, <2>2, <2>7 DEF TrailIInv, TypeOK
  <1>5. ASSUME CleanupDone \/ BinariesDone
        PROVE  TrailIInv'
    <2>1. TrailTypes' /\ TrailInv'
      BY <1>1, <1>5, SameTrail DEF CleanupDone, BinariesDone
    <2>2. ClauseTypes' /\ WatcherTypes'
      BY <1>1, <1>5 DEF CleanupDone, BinariesDone, clauseVars, watcherVars, ClauseTypes,
                        WatcherTypes
    <2>3. QueueInv' /\ cur \in Lits
      <3>1. pc # "idle" /\ UNCHANGED <<trail, cur, qhead, qend>>
        BY <1>5 DEF CleanupDone, BinariesDone, trailVars
      <3> QED
        BY <1>1, <1>2, <3>1 DEF QueueInv, CallTypes
    <2>4. Neg(cur) \in Lits
      BY <2>3, LitFacts
    <2>5. CallTypes'
      BY <1>1, <1>5, <2>4 DEF CleanupDone, BinariesDone, CallTypes, WatcherTypes
    <2> QED
      BY <2>1, <2>2, <2>3, <2>5 DEF TrailIInv, TypeOK
  <1>6. ASSUME NEW w \in todo, BinaryConflict(w) \/ LongConflict(w) \/ BinarySkip(w) \/ SkipWatcher(w)
        PROVE  TrailIInv'
    <2>1. TrailTypes' /\ TrailInv'
      BY <1>1, <1>6, SameTrail DEF BinaryConflict, LongConflict, BinarySkip, SkipWatcher
    <2>2. ClauseTypes' /\ WatcherTypes'
      BY <1>1, <1>6 DEF BinaryConflict, LongConflict, BinarySkip, SkipWatcher, clauseVars,
                        watcherVars, ClauseTypes, WatcherTypes
    <2>3. CallTypes' /\ QueueInv'
      BY <1>1, <1>3, <1>6 DEF BinaryConflict, LongConflict, BinarySkip, SkipWatcher, Return,
                              trailVars, CallTypes, QueueInv
    <2> QED
      BY <2>1, <2>2, <2>3 DEF TrailIInv, TypeOK
  <1>7. ASSUME NEW w \in todo, BinaryForce(w)
        PROVE  TrailIInv'
    <2>1. TrailTypes' /\ TrailInv' /\ CallTypes' /\ QueueInv'
      BY <1>3, <1>7, ForceStep DEF BinaryForce
    <2>2. ClauseTypes' /\ WatcherTypes'
      BY <1>1, <1>7 DEF BinaryForce, clauseVars, watcherVars, ClauseTypes, WatcherTypes
    <2> QED
      BY <2>1, <2>2 DEF TrailIInv, TypeOK
  <1>8. ASSUME NEW w \in todo, LongForce(w)
        PROVE  TrailIInv'
    <2>1. OtherWatched(w) \in Lits
      BY <1>1, <1>3, WatcherForType, 3 - w.idx \in {1, 2} DEF OtherWatched
    <2>2. pc # "idle"
      BY <1>8 DEF LongForce, Examined, Visiting
    <2>3. TrailTypes' /\ TrailInv' /\ CallTypes' /\ QueueInv'
      BY <1>3, <1>8, <2>1, <2>2, ForceStep DEF LongForce
    <2>4. ClauseTypes' /\ WatcherTypes'
      BY <1>1, <1>8 DEF LongForce, clauseVars, watcherVars, ClauseTypes, WatcherTypes
    <2> QED
      BY <2>3, <2>4 DEF TrailIInv, TypeOK
  <1>9. ASSUME NEW w \in todo, MoveWatcher(w)
        PROVE  TrailIInv'
    <2>1. TrailTypes' /\ TrailInv'
      BY <1>1, <1>9, SameTrail DEF MoveWatcher
    <2>2. CallTypes' /\ QueueInv'
      BY <1>1, <1>9 DEF MoveWatcher, trailVars, CallTypes, QueueInv
    <2>3. PICK i \in 3 .. Len(lits[w.clause]) :
            /\ lits' = [lits EXCEPT ![w.clause] = SwapAt(@, w.idx, i)]
            /\ Relocate(w, lits[w.clause][i])
      BY <1>9 DEF MoveWatcher
    <2>4. /\ IsClause(lits[w.clause]) /\ lits[w.clause] \in Seq(Lits)
          /\ Len(lits[w.clause]) \in Nat
          /\ w.idx \in 1 .. Len(lits[w.clause]) /\ i \in 1 .. Len(lits[w.clause])
      BY <1>1, <1>3, <2>3, LenProperties DEF ClauseTypes, IsClause
    <2>5. IsClause(SwapAt(lits[w.clause], w.idx, i))
      BY <2>4, SwapKeepsClause
    <2>6. ClauseTypes'
      <3>1. lits' \in [Clauses -> Seq(Lits)] /\ \A c \in Clauses : IsClause(lits'[c])
        BY <1>1, <1>3, <2>3, <2>5 DEF ClauseTypes, IsClause
      <3> QED
        BY <1>1, <1>9, <3>1 DEF ClauseTypes, MoveWatcher
    <2>7. WatcherTypes'
      <3>1. w \in Watcher
        BY <1>1 DEF CallTypes
      <3>2. \A l \in Lits : watchers'[l] \in SUBSET Watcher
        BY <3>1, <1>1, <2>3 DEF WatcherTypes, Relocate
      <3>3. watchers' \in [Lits -> SUBSET Watcher]
        BY <3>2, <1>1, <2>3 DEF WatcherTypes, Relocate
      <3> QED
        BY <3>3, <1>1, <1>9 DEF WatcherTypes, MoveWatcher
    <2> QED
      BY <2>1, <2>2, <2>6, <2>7 DEF TrailIInv, TypeOK
  <1>10. ASSUME NextLiteral
         PROVE  TrailIInv'
    <2>1. TrailTypes' /\ TrailInv'
      BY <1>1, <1>10, SameTrail DEF NextLiteral
    <2>2. ClauseTypes' /\ WatcherTypes'
      BY <1>1, <1>10 DEF NextLiteral, clauseVars, watcherVars, ClauseTypes, WatcherTypes
    <2>3. /\ qhead \in Nat /\ qend = Len(trail) /\ qhead + 1 <= qend
          /\ trail[qhead + 1] \in Lits
      <3>1. qhead \in Nat /\ qend = Len(trail) /\ qhead <= qend /\ qhead # qend
        BY <1>1, <1>10 DEF NextLiteral, QueueInv, CallTypes
      <3>2. qhead + 1 <= qend
        BY <1>2, <3>1
      <3> QED
        BY <1>2, <3>1, <3>2
    <2>4. CallTypes'
      BY <1>1, <1>10, <2>3, LitFacts DEF NextLiteral, CallTypes, WatcherTypes
    <2>5. QueueInv'
      <3>1. qhead + 1 \in 1 .. qhead + 1
        BY <2>3
      <3> QED
        BY <1>2, <1>10, <2>3, <3>1 DEF NextLiteral, QueueInv, trailVars
    <2> QED
      BY <2>1, <2>2, <2>4, <2>5 DEF TrailIInv, TypeOK
  <1>11. ASSUME FixpointReached
         PROVE  TrailIInv'
    <2>1. TrailTypes' /\ TrailInv'
      BY <1>1, <1>11, SameTrail DEF FixpointReached
    <2>2. ClauseTypes' /\ WatcherTypes' /\ CallTypes' /\ QueueInv'
      BY <1>1, <1>11 DEF FixpointReached, Return, clauseVars, watcherVars, ClauseTypes,
                         WatcherTypes, CallTypes, QueueInv
    <2> QED
      BY <2>1, <2>2 DEF TrailIInv, TypeOK
  <1> QED
    BY <1>4, <1>5, <1>6, <1>7, <1>8, <1>9, <1>10, <1>11 DEF Propagate

LEMMA StutterStep == TrailIInv /\ UNCHANGED vars => TrailIInv'
  <1> SUFFICES ASSUME TrailIInv, UNCHANGED vars
               PROVE  TrailIInv'
    OBVIOUS
  <1>1. TrailTypes' /\ TrailInv'
    BY SameTrail DEF vars, TrailIInv, TypeOK
  <1>2. ClauseTypes' /\ WatcherTypes' /\ CallTypes' /\ QueueInv'
    BY DEF vars, clauseVars, watcherVars, trailVars, callVars, TrailIInv, TypeOK,
           ClauseTypes, WatcherTypes, CallTypes, QueueInv
  <1> QED
    BY <1>1, <1>2 DEF TrailIInv, TypeOK

THEOREM NextTrailIInv == TrailIInv /\ [Next]_vars => TrailIInv'
  BY PropagateStep, RegisterCallStep, TrailCallStep, ModificationStep, StutterStep DEF Next

----------------------------------------------------------------------------
(* Every variable keeps its type, whatever calls are made: clauses stay    *)
(* clauses, phases stay signs and watcher entries stay watchers.           *)
THEOREM TypeCorrect == Spec => []TypeOK
  <1>1. TrailIInv => TypeOK
    BY DEF TrailIInv
  <1> QED
    BY <1>1, InitTrailIInv, NextTrailIInv, PTL DEF Spec

(* The trail, the value map, the recorded levels and the level limits      *)
(* agree after any sequence of calls and inside every propagation.         *)
THEOREM TrailCorrect == Spec => []TrailInv
  <1>1. TrailIInv => TrailInv
    BY DEF TrailIInv
  <1> QED
    BY <1>1, InitTrailIInv, NextTrailIInv, PTL DEF Spec

----------------------------------------------------------------------------
Listed(l) == watchers[l] \cup binWatchers[l]

(* A watcher is in the list of the literal at its position, or in one that *)
(* the next propagation cleans up.  A clause without watchers is one that  *)
(* was not registered since clearClauses().                                *)
PlacementInv ==
  \A l \in Lits : \A w \in Listed(l) :
    /\ w.clause \in registered \cup scheduled
    /\ lits[w.clause][w.idx] = l \/ (w \in watchers[l] /\ l \in dirty)

(* There is at most one watcher per clause and position.                   *)
UniqueInv ==
  /\ \A l, m \in Lits : \A w \in Listed(l), x \in Listed(m) :
       w.clause = x.clause /\ w.idx = x.idx => w = x /\ l = m
  /\ \A l \in Lits : watchers[l] \cap binWatchers[l] = {}

(* The binary watchers know the whole clause.                              *)
BinaryInv ==
  \A l \in Lits : \A w \in binWatchers[l] :
    /\ Len(lits[w.clause]) = 2
    /\ w.blocker = lits[w.clause][3 - w.idx]

(* The watchers of a clause that has become binary are about to be moved.  *)
LongInv ==
  \A l \in Lits : \A w \in watchers[l] : Len(lits[w.clause]) = 2 => l \in dirty

ExistenceInv ==
  \A c \in registered \ scheduled, i \in {1, 2} :
    \E l \in Lits : \E w \in Listed(l) : w.clause = c /\ w.idx = i

(* A clause that may be changed has its watchers in dirty lists only, and  *)
(* no list is dirty while watchers are visited.                            *)
AnnouncedInv ==
  /\ announced \subseteq registered
  /\ pc = "idle" => \A l \in Lits : \A w \in watchers[l] : w.clause \in announced => l \in dirty
  /\ pc \in {"binaries", "long"} => dirty = {} /\ announced = {}

(* A traversal has only watchers of the literal it is about ahead of it.   *)
TodoInv ==
  /\ pc = "binaries" => todo \subseteq binWatchers[Neg(cur)]
  /\ pc = "long" => todo \subseteq watchers[Neg(cur)]
  /\ pc # "idle" => conflict = NoClause

PlacedInv == PlacementInv /\ UniqueInv /\ BinaryInv /\ LongInv /\ ExistenceInv

WatchIInv == PlacedInv /\ AnnouncedInv /\ TodoInv

(* The edges of the implication graph and the last conflict.  A clause     *)
(* that may be changed is the reason of no assignment.                     *)
AnnouncedEdges ==
  \A c \in announced, i \in 1 .. Len(trail) : reason[VarOf(trail[i])] # c

EdgeIInv == ReasonInv /\ ConflictInv /\ AnnouncedEdges

----------------------------------------------------------------------------
(* The first two literals of a clause differ from each other and from the  *)
(* rest.                                                                   *)
LEMMA ClauseFacts ==
  ASSUME ClauseTypes, NEW c \in Clauses
  PROVE  /\ IsClause(lits[c])
         /\ lits[c] \in Seq(Lits) /\ Len(lits[c]) \in Nat /\ Len(lits[c]) >= 2
         /\ \A i \in 1 .. Len(lits[c]) : lits[c][i] \in Lits
         /\ \A i, j \in 1 .. Len(lits[c]) : i # j => lits[c][i] # lits[c][j]
  <1>1. IsClause(lits[c]) /\ lits[c] \in Seq(Lits)
    BY DEF ClauseTypes, IsClause
  <1>2. Len(lits[c]) \in Nat /\ \A i \in 1 .. Len(lits[c]) : lits[c][i] \in Lits
    BY <1>1, LenProperties, ElementOfSeq
  <1>3. Len(lits[c]) >= 2
    BY <1>1 DEF IsClause
  <1>4. \A i, j \in 1 .. Len(lits[c]) : i # j => VarOf(lits[c][i]) # VarOf(lits[c][j])
    BY <1>1 DEF IsClause
  <1> QED
    BY <1>1, <1>2, <1>3, <1>4

(* Steps that touch neither clauses nor watchers, but may report or delete *)
(* a clause.                                                               *)
LEMMA SameWatchers ==
  ASSUME PlacedInv, UNCHANGED <<lits, binWatchers, watchers>>, dirty \subseteq dirty',
         registered \cup scheduled \subseteq registered' \cup scheduled',
         registered' \ scheduled' \subseteq registered \ scheduled
  PROVE  PlacedInv'
  <1>1. \A l \in Lits : Listed(l)' = Listed(l)
    BY DEF Listed
  <1>2. PlacementInv'
    BY <1>1 DEF PlacedInv, PlacementInv
  <1>3. UniqueInv' /\ BinaryInv' /\ LongInv'
    BY <1>1 DEF PlacedInv, UniqueInv, BinaryInv, LongInv
  <1>4. ExistenceInv'
    BY <1>1 DEF PlacedInv, ExistenceInv
  <1> QED
    BY <1>2, <1>3, <1>4 DEF PlacedInv

LEMMA AttachPlaced ==
  ASSUME ClauseTypes, WatcherTypes, PlacedInv, NEW c \in Clauses,
         NotParticipating(c), Attach(c), dirty' = dirty
  PROVE  PlacedInv'
  <1> DEFINE l(i) == lits[c][i]
             w(i) == WatcherFor(c, i)
  <1>1. /\ l(1) \in Lits /\ l(2) \in Lits /\ l(1) # l(2)
        /\ Len(lits[c]) \in Nat /\ Len(lits[c]) >= 2
    BY ClauseFacts
  <1>2. \A i \in {1, 2} : w(i).clause = c /\ w(i).idx = i /\ w(i).blocker = lits[c][3 - i]
    BY DEF WatcherFor
  <1>3. \A k \in Lits : \A x \in Listed(k) : x.clause # c
    BY DEF NotParticipating, Listed
  <1>4. /\ lits' = lits /\ scheduled' = scheduled /\ registered' = registered \cup {c}
        /\ watchers \in [Lits -> SUBSET Watcher] /\ binWatchers \in [Lits -> SUBSET Watcher]
    BY DEF Attach, WatcherTypes
  <1> DEFINE new(k) == {w(i) : i \in {j \in {1, 2} : l(j) = k}}
  <1>5. /\ Len(lits[c]) = 2 =>
             \A k \in Lits : watchers'[k] = watchers[k] /\ binWatchers'[k] = binWatchers[k] \cup new(k)
        /\ Len(lits[c]) # 2 =>
             \A k \in Lits : watchers'[k] = watchers[k] \cup new(k) /\ binWatchers'[k] = binWatchers[k]
    <2>1. ASSUME NEW W \in [Lits -> SUBSET Watcher], NEW k \in Lits
          PROVE  WithWatchersOf(c, W)[k] = W[k] \cup new(k)
      <3>1. new(k) = (IF k = l(1) THEN {w(1)} ELSE {}) \cup (IF k = l(2) THEN {w(2)} ELSE {})
        OBVIOUS
      <3>2. WithWatchersOf(c, W)[k] = CASE k = l(1) -> W[k] \cup {w(1)}
                                        [] k = l(2) -> W[k] \cup {w(2)}
                                        [] OTHER -> W[k]
        BY <1>1 DEF WithWatchersOf
      <3> HIDE DEF new, w
      <3> QED
        BY <1>1, <3>1, <3>2
    <2> HIDE DEF new
    <2>2. CASE Len(lits[c]) = 2
      <3>1. watchers' = watchers /\ binWatchers' = WithWatchersOf(c, binWatchers)
        BY <2>2 DEF Attach
      <3> QED
        BY <1>4, <2>1, <2>2, <3>1
    <2>3. CASE Len(lits[c]) # 2
      <3>1. ~(Len(lits[c]) <= 2)
        <4>1. Len(lits[c]) \in Nat /\ Len(lits[c]) >= 2
          BY ClauseFacts
        <4>2. \A n \in Nat : n >= 2 /\ n # 2 => ~(n <= 2)
          OBVIOUS
        <4> QED
          BY <2>3, <4>1, <4>2, Zenon
      <3>2. watchers' = WithWatchersOf(c, watchers) /\ binWatchers' = binWatchers
        BY <3>1 DEF Attach
      <3> QED
        BY <1>4, <2>1, <2>3, <3>2
    <2> QED
      BY <2>2, <2>3
  <1>6. \A k \in Lits : Listed(k)' = Listed(k) \cup new(k)
    BY <1>5 DEF Listed
  <1>7. \A k \in Lits : \A x \in new(k) : \E i \in {1, 2} : k = l(i) /\ x = w(i)
    OBVIOUS
  <1>8. \A i \in {1, 2} : w(i) \in new(l(i))
    OBVIOUS
  <1> HIDE DEF new, w
  <1>9. PlacementInv'
    <2> SUFFICES ASSUME NEW k \in Lits, NEW x \in Listed(k)'
                 PROVE  /\ x.clause \in registered \cup {c} \cup scheduled
                        /\ lits[x.clause][x.idx] = k \/ (x \in watchers'[k] /\ k \in dirty)
      BY <1>4 DEF PlacementInv
    <2>1. CASE x \in Listed(k)
      <3>1. watchers[k] \subseteq watchers'[k]
        BY <1>1, <1>5
      <3> QED
        BY <2>1, <3>1 DEF PlacedInv, PlacementInv
    <2>2. CASE x \in new(k)
      BY <1>2, <1>7, <2>2
    <2> QED
      BY <1>6, <2>1, <2>2
  <1>10. UniqueInv'
    <2>1. \A k \in Lits : \A x \in new(k) : x.clause = c
      BY <1>2, <1>7
    <2>2. \A k \in Lits : watchers'[k] \cap binWatchers'[k] = {}
      BY <1>3, <1>5, <2>1 DEF PlacedInv, UniqueInv, Listed
    <2>3. ASSUME NEW k \in Lits, NEW m \in Lits, NEW x \in Listed(k)', NEW y \in Listed(m)',
                 x.clause = y.clause, x.idx = y.idx
          PROVE  x = y /\ k = m
      <3>1. CASE x \in Listed(k) /\ y \in Listed(m)
        BY <2>3, <3>1 DEF PlacedInv, UniqueInv
      <3>2. CASE x \in new(k) /\ y \in new(m)
        BY <1>2, <1>7, <2>3, <3>2
      <3> QED
        BY <1>3, <1>6, <2>1, <2>3, <3>1, <3>2
    <2> QED
      BY <2>2, <2>3 DEF UniqueInv
  <1>11. BinaryInv'
    <2>1. ASSUME NEW k \in Lits, NEW x \in binWatchers'[k]
          PROVE  Len(lits[x.clause]) = 2 /\ x.blocker = lits[x.clause][3 - x.idx]
      <3>1. CASE x \in binWatchers[k]
        BY <3>1 DEF PlacedInv, BinaryInv
      <3>2. CASE Len(lits[c]) = 2 /\ x \in new(k)
        BY <1>2, <1>7, <3>2
      <3> QED
        BY <1>5, <2>1, <3>1, <3>2
    <2> QED
      BY <1>4, <2>1 DEF BinaryInv
  <1>12. LongInv'
    <2>1. ASSUME NEW k \in Lits, NEW x \in watchers'[k], Len(lits[x.clause]) = 2
          PROVE  k \in dirty
      <3>1. CASE x \in watchers[k]
        BY <2>1, <3>1 DEF PlacedInv, LongInv
      <3>2. CASE Len(lits[c]) # 2 /\ x \in new(k)
        BY <1>2, <1>7, <2>1, <3>2
      <3> QED
        BY <1>5, <2>1, <3>1, <3>2
    <2> QED
      BY <1>4, <2>1 DEF LongInv
  <1>13. ExistenceInv'
    <2> SUFFICES ASSUME NEW b \in (registered \cup {c}) \ scheduled, NEW i \in {1, 2}
                 PROVE  \E k \in Lits : \E x \in Listed(k)' : x.clause = b /\ x.idx = i
      BY <1>4 DEF ExistenceInv
    <2>1. CASE b = c
      <3>1. PICK k \in Lits : w(i) \in new(k)
        BY <1>1, <1>8
      <3>2. w(i) \in Listed(k)' /\ w(i).clause = c /\ w(i).idx = i
        BY <1>2, <1>6, <3>1
      <3> QED
        BY <2>1, <3>2
    <2>2. CASE b \in registered
      <3>1. PICK k \in Lits : \E x \in Listed(k) : x.clause = b /\ x.idx = i
        BY <2>2 DEF PlacedInv, ExistenceInv
      <3> QED
        BY <1>6, <3>1
    <2> QED
      BY <2>1, <2>2
  <1> QED
    BY <1>9, <1>10, <1>11, <1>12, <1>13 DEF PlacedInv

(* The watcher that leaves the list of ~cur watches the same position of   *)
(* the clause afterwards, where the new literal now is.                    *)
LEMMA MovePlaced ==
  ASSUME ClauseTypes, WatcherTypes, PlacedInv,
         NEW f \in Lits, NEW w \in watchers[f], NEW c \in Clauses, c = w.clause,
         w.idx \in {1, 2}, cur \in Lits, f = Neg(cur),
         NEW i \in 3 .. Len(lits[c]),
         lits' = [lits EXCEPT ![c] = SwapAt(@, w.idx, i)],
         Relocate(w, lits[c][i]),
         dirty = {}, UNCHANGED <<registered, scheduled, binWatchers, dirty>>
  PROVE  PlacedInv'
  <1> DEFINE p == w.idx
             l == lits[c][i]
  <1>1. /\ lits[c] \in Seq(Lits) /\ Len(lits[c]) \in Nat
        /\ \A j \in 1 .. Len(lits[c]) : lits[c][j] \in Lits
        /\ \A j, k \in 1 .. Len(lits[c]) : j # k => lits[c][j] # lits[c][k]
    BY ClauseFacts
  <1>2. /\ i \in 1 .. Len(lits[c]) /\ p \in 1 .. Len(lits[c]) /\ 3 - p \in 1 .. Len(lits[c])
        /\ p # i /\ 3 - p # i /\ 3 - p # p
        /\ Len(lits[c]) # 2
    BY <1>1
  <1>3. w \in Listed(f)
    BY DEF Listed
  <1>0. \A k \in Lits : \A x \in Listed(k) :
          x.clause \in registered \cup scheduled /\ lits[x.clause][x.idx] = k
    BY DEF PlacedInv, PlacementInv
  <1>4. lits[c][p] = f
    BY <1>0, <1>3
  <1>5. l \in Lits /\ l # f
    BY <1>1, <1>2, <1>4
  <1>6. /\ lits \in [Clauses -> Seq(Lits)]
        /\ \A b \in Clauses : b # c => lits'[b] = lits[b]
        /\ lits'[c] = SwapAt(lits[c], p, i)
    BY DEF ClauseTypes
  <1>7. lits'[c][p] = l /\ lits'[c][3 - p] = lits[c][3 - p]
    <2>1. lits[c] \in [1 .. Len(lits[c]) -> Lits]
      BY <1>1, LenProperties
    <2> QED
      BY <1>2, <1>6, <2>1 DEF SwapAt
  <1>8. /\ watchers'[f] = watchers[f] \ {w}
        /\ watchers'[l] = watchers[l] \cup {w}
        /\ \A k \in Lits : k # f /\ k # l => watchers'[k] = watchers[k]
        /\ binWatchers' = binWatchers
    BY <1>5 DEF Relocate, WatcherTypes
  <1>9. \A k \in Lits : w \notin binWatchers[k]
    BY <1>0, <1>3, <1>4 DEF PlacedInv, UniqueInv, Listed
  <1>10. \A k \in Lits : w \in Listed(k) => k = f
    BY <1>0, <1>4
  <1> HIDE DEF p, l
  <1>11. \A k \in Lits : \A x : x # w => (x \in Listed(k)' <=> x \in Listed(k))
    BY <1>8 DEF Listed
  <1>12. \A k \in Lits : w \in Listed(k)' <=> k = l
    BY <1>5, <1>8, <1>9, <1>10 DEF Listed
  <1>13. \A k \in Lits : \A x \in Listed(k) : x # w /\ x.clause = c => x.idx # p
    BY <1>3 DEF PlacedInv, UniqueInv, p
  <1>14. \A k \in Lits : \A x \in Listed(k) : x.clause \in Clauses /\ x.idx \in {1, 2}
    BY DEF Listed, WatcherTypes, Watcher
  <1>15. PlacementInv'
    <2> SUFFICES ASSUME NEW k \in Lits, NEW x \in Listed(k)'
                 PROVE  x.clause \in registered \cup scheduled /\ lits'[x.clause][x.idx] = k
      BY DEF PlacementInv
    <2>1. CASE x = w
      BY <1>0, <1>3, <1>7, <1>12, <2>1 DEF p
    <2>2. CASE x # w
      <3>1. /\ x \in Listed(k)
            /\ x.clause \in registered \cup scheduled /\ lits[x.clause][x.idx] = k
            /\ x.clause \in Clauses /\ x.idx \in {1, 2}
        BY <1>0, <1>11, <1>14, <2>2
      <3>2. CASE x.clause # c
        BY <1>6, <3>1, <3>2
      <3>3. CASE x.clause = c
        <4>1. x.idx = 3 - p
          BY <1>13, <2>2, <3>1, <3>3, w.idx \in {1, 2} DEF p
        <4> QED
          BY <1>7, <3>1, <3>3, <4>1
      <3> QED
        BY <3>2, <3>3
    <2> QED
      BY <2>1, <2>2
  <1>16. UniqueInv'
    <2>1. \A k, m \in Lits : \A x \in Listed(k)', y \in Listed(m)' :
            x.clause = y.clause /\ x.idx = y.idx /\ x # w /\ y # w => x = y /\ k = m
      BY <1>11 DEF PlacedInv, UniqueInv
    <2>2. \A k, m \in Lits : \A x \in Listed(k)', y \in Listed(m)' :
            x.clause = y.clause /\ x.idx = y.idx => (x = w <=> y = w)
      BY <1>3, <1>11, <1>13 DEF p
    <2>3. \A k, m \in Lits : w \in Listed(k)' /\ w \in Listed(m)' => k = m
      BY <1>12
    <2>4. \A k, m \in Lits : \A x \in Listed(k)', y \in Listed(m)' :
            x.clause = y.clause /\ x.idx = y.idx => x = y /\ k = m
      BY <2>1, <2>2, <2>3
    <2>5. \A k \in Lits : watchers'[k] \cap binWatchers'[k] = {}
      BY <1>8, <1>9 DEF PlacedInv, UniqueInv
    <2> QED
      BY <2>4, <2>5 DEF UniqueInv
  <1>17. BinaryInv'
    <2>1. \A k \in Lits : \A x \in binWatchers[k] : x.clause # c /\ x.clause \in Clauses
      BY <1>2, <1>14 DEF PlacedInv, BinaryInv, Listed
    <2> QED
      BY <1>6, <1>8, <2>1 DEF PlacedInv, BinaryInv
  <1>18. LongInv'
    <2>1. \A k \in Lits : \A x \in watchers[k] : Len(lits[x.clause]) # 2
      BY DEF PlacedInv, LongInv
    <2>2. \A k \in Lits : \A x \in watchers'[k] : \E m \in Lits : x \in watchers[m]
      BY <1>8
    <2>3. \A k \in Lits : \A x \in watchers[k] : x.clause \in Clauses
      BY <1>14 DEF Listed
    <2>4. \A e \in Clauses : Len(lits'[e]) = Len(lits[e])
      <3>1. Len(SwapAt(lits[c], p, i)) = Len(lits[c])
        BY <1>1, <1>2, ClauseFacts, SwapKeepsClause
      <3> QED
        BY <1>6, <3>1
    <2> QED
      BY <2>1, <2>2, <2>3, <2>4 DEF LongInv
  <1>19. ExistenceInv'
    <2> SUFFICES ASSUME NEW e \in registered \ scheduled, NEW j \in {1, 2}
                 PROVE  \E k \in Lits : \E x \in Listed(k)' : x.clause = e /\ x.idx = j
      BY DEF ExistenceInv
    <2>1. PICK k \in Lits : \E x \in Listed(k) : x.clause = e /\ x.idx = j
      BY DEF PlacedInv, ExistenceInv
    <2>2. PICK x \in Listed(k) : x.clause = e /\ x.idx = j
      BY <2>1
    <2>3. CASE x # w
      BY <1>11, <2>2, <2>3
    <2>4. CASE x = w
      BY <1>5, <1>12, <2>2, <2>4
    <2> QED
      BY <2>3, <2>4
  <1> QED
    BY <1>15, <1>16, <1>17, <1>18, <1>19 DEF PlacedInv

(* Changing the literals of a reported clause: its watchers are all in     *)
(* lists that the next propagation cleans up.                              *)
LEMMA EditPlaced ==
  ASSUME ClauseTypes, WatcherTypes, PlacedInv, AnnouncedInv, pc = "idle",
         NEW c \in announced, Len(lits[c]) # 2, NEW d,
         lits' = [lits EXCEPT ![c] = d],
         UNCHANGED <<registered, scheduled, binWatchers, watchers, dirty>>
  PROVE  PlacedInv'
  <1>1. /\ lits \in [Clauses -> Seq(Lits)]
        /\ \A b \in Clauses : b # c => lits'[b] = lits[b]
    BY DEF ClauseTypes
  <1>2. \A k \in Lits : \A x \in Listed(k) : x.clause \in Clauses
    BY DEF Listed, WatcherTypes, Watcher
  <1>3. \A k \in Lits : \A x \in binWatchers[k] : x.clause # c
    BY DEF PlacedInv, BinaryInv
  <1>4. \A k \in Lits : \A x \in watchers[k] : x.clause = c => k \in dirty
    BY DEF AnnouncedInv
  <1>5. \A k \in Lits : Listed(k)' = Listed(k)
    BY DEF Listed
  <1>6. PlacementInv'
    <2> SUFFICES ASSUME NEW k \in Lits, NEW x \in Listed(k)
                 PROVE  /\ x.clause \in registered \cup scheduled
                        /\ lits'[x.clause][x.idx] = k \/ (x \in watchers[k] /\ k \in dirty)
      BY <1>5 DEF PlacementInv
    <2>1. CASE x.clause = c
      BY <1>3, <1>4, <2>1 DEF PlacedInv, PlacementInv, Listed
    <2>2. CASE x.clause # c
      <3>1. lits'[x.clause] = lits[x.clause]
        BY <1>1, <1>2, <2>2
      <3> QED
        BY <3>1 DEF PlacedInv, PlacementInv
    <2> QED
      BY <2>1, <2>2
  <1>7. UniqueInv'
    BY <1>5 DEF PlacedInv, UniqueInv
  <1>8. BinaryInv'
    <2>1. \A k \in Lits : \A x \in binWatchers[k] : lits'[x.clause] = lits[x.clause]
      BY <1>1, <1>2, <1>3 DEF Listed
    <2> QED
      BY <2>1 DEF PlacedInv, BinaryInv
  <1>9. LongInv'
    <2> SUFFICES ASSUME NEW k \in Lits, NEW x \in watchers[k], Len(lits'[x.clause]) = 2
                 PROVE  k \in dirty
      BY DEF LongInv
    <2>1. CASE x.clause = c
      BY <1>4, <2>1
    <2>2. CASE x.clause # c
      <3>1. lits'[x.clause] = lits[x.clause]
        BY <1>1, <1>2, <2>2 DEF Listed
      <3> QED
        BY <3>1 DEF PlacedInv, LongInv
    <2> QED
      BY <2>1, <2>2
  <1>10. ExistenceInv'
    BY <1>5 DEF PlacedInv, ExistenceInv
  <1> QED
    BY <1>6, <1>7, <1>8, <1>9, <1>10 DEF PlacedInv

LEMMA ClearPlaced ==
  ASSUME ClearClauses
  PROVE  PlacedInv'
  <1>1. \A k \in Lits : watchers'[k] = {} /\ binWatchers'[k] = {}
    BY DEF ClearClauses
  <1>2. registered' = {}
    BY DEF ClearClauses
  <1> QED
    BY <1>1, <1>2 DEF PlacedInv, PlacementInv, UniqueInv, BinaryInv, LongInv, ExistenceInv, Listed

(* Cleaning a list removes the watchers of deleted clauses and puts the    *)
(* others where they belong: binary watchers for the clauses that have     *)
(* become binary, and the list of the literal now at their position for    *)
(* those of the clauses whose literals have changed places.                *)
LEMMA CleanupPlaced ==
  ASSUME ClauseTypes, WatcherTypes, PlacedInv, NEW l \in Lits, CleanupWatchers(l)
  PROVE  PlacedInv'
  <1> DEFINE at(w) == lits[w.clause][w.idx]
             r(w) == WatcherFor(w.clause, w.idx)
             b(w) == [WatcherFor(w.clause, w.idx) EXCEPT !.red = FALSE]
  <1>1. /\ UNCHANGED <<lits, redundant, registered, scheduled>> /\ dirty' = dirty \ {l}
        /\ watchers \in [Lits -> SUBSET Watcher] /\ binWatchers \in [Lits -> SUBSET Watcher]
    BY DEF CleanupWatchers, clauseVars, WatcherTypes
  <1>2. \A k \in Lits : \A x :
          x \in watchers'[k] <=>
            \/ x \in watchers[k] /\ k # l
            \/ /\ x \in watchers[k] /\ k = l
               /\ x.clause \notin scheduled /\ Len(lits[x.clause]) # 2 /\ at(x) = l
            \/ \E w \in Misplaced(l) : x = r(w) /\ at(w) = k
    BY <1>1 DEF CleanupWatchers, Kept, Misplaced, NowBinary
  <1>3. \A k \in Lits : \A x :
          x \in binWatchers'[k] <=>
            \/ x \in binWatchers[k] /\ (k = l => x.clause \notin scheduled)
            \/ \E w \in NowBinary(l) : x = b(w) /\ at(w) = k
    BY <1>1 DEF CleanupWatchers, Kept
  <1>4. \A w : /\ r(w).clause = w.clause /\ r(w).idx = w.idx
               /\ b(w).clause = w.clause /\ b(w).idx = w.idx
               /\ b(w).blocker = lits[w.clause][3 - w.idx]
    BY DEF WatcherFor
  <1>5. \A w \in watchers[l] : w.clause \in Clauses /\ w.idx \in {1, 2} /\ at(w) \in Lits
    BY WatcherForType DEF WatcherTypes, Watcher
  <1>6. /\ \A w \in Misplaced(l) : /\ w \in watchers[l] /\ w.clause \notin scheduled
                                   /\ Len(lits[w.clause]) # 2 /\ at(w) # l
        /\ \A w \in NowBinary(l) : /\ w \in watchers[l] /\ w.clause \notin scheduled
                                   /\ Len(lits[w.clause]) = 2
    BY DEF Misplaced, NowBinary
  <1>7. \A w \in watchers[l] :
          \/ w \in Misplaced(l) \/ w \in NowBinary(l) \/ w.clause \in scheduled
          \/ Len(lits[w.clause]) # 2 /\ at(w) = l
    BY DEF Misplaced, NowBinary
  <1>8. \A k \in Lits : \A x \in binWatchers[k] : at(x) = k /\ Len(lits[x.clause]) = 2
    BY DEF PlacedInv, PlacementInv, UniqueInv, BinaryInv, Listed
  <1>9. \A w \in watchers[l] : w.clause \in registered \cup scheduled
    BY DEF PlacedInv, PlacementInv, Listed
  <1>10. \A k \in Lits : \A x \in watchers[k] :
           x.clause \in registered \cup scheduled /\ (at(x) = k \/ k \in dirty)
    BY DEF PlacedInv, PlacementInv, Listed
  <1>11. \A k \in Lits : \A x \in binWatchers[k] : x.clause \in registered \cup scheduled
    BY DEF PlacedInv, PlacementInv, Listed
  <1> HIDE DEF at, b, r
  <1>12. PlacementInv'
    <2>1. \A k \in Lits : \A x \in watchers'[k] :
            /\ x.clause \in registered \cup scheduled
            /\ lits[x.clause][x.idx] = k \/ k \in dirty'
      BY <1>1, <1>2, <1>4, <1>6, <1>9, <1>10 DEF at
    <2>2. \A k \in Lits : \A x \in binWatchers'[k] :
            x.clause \in registered \cup scheduled /\ lits[x.clause][x.idx] = k
      <3> SUFFICES ASSUME NEW k \in Lits, NEW x \in binWatchers'[k]
                   PROVE  x.clause \in registered \cup scheduled /\ at(x) = k
        BY DEF at
      <3>1. CASE x \in binWatchers[k]
        BY <1>8, <1>11, <3>1
      <3>2. CASE \E w \in NowBinary(l) : x = b(w) /\ at(w) = k
        <4>1. PICK w \in NowBinary(l) : x = b(w) /\ at(w) = k
          BY <3>2
        <4>2. at(x) = at(w)
          BY <1>4, <4>1 DEF at
        <4> QED
          BY <1>4, <1>6, <1>9, <4>1, <4>2
      <3> QED
        BY <1>3, <3>1, <3>2
    <2> QED
      BY <1>1, <2>1, <2>2 DEF PlacementInv, Listed
  <1>13. BinaryInv'
    <2>1. \A k \in Lits : \A x \in binWatchers'[k] :
            Len(lits[x.clause]) = 2 /\ x.blocker = lits[x.clause][3 - x.idx]
      BY <1>3, <1>4, <1>6 DEF PlacedInv, BinaryInv
    <2> QED
      BY <1>1, <2>1 DEF BinaryInv
  <1>14. \A k \in Lits : \A x \in watchers'[k] :
           Len(lits[x.clause]) = 2 => k # l /\ x \in watchers[k]
    BY <1>2, <1>4, <1>6
  <1>15. LongInv'
    BY <1>1, <1>14 DEF PlacedInv, LongInv
  (* Where a watcher comes from: it stayed, or it replaces one of the list. *)
  <1> DEFINE Moved == Misplaced(l) \cup NowBinary(l)
             new(w) == IF Len(lits[w.clause]) = 2 THEN b(w) ELSE r(w)
             From(w, m, x, k) == \/ m = l /\ w \in Moved /\ x = new(w) /\ k = at(w)
                                 \/ ~(m = l /\ w \in Moved) /\ x = w /\ k = m
  <1>16. \A w \in Moved : w \in watchers[l] /\ w \notin binWatchers[l]
    BY <1>6 DEF PlacedInv, UniqueInv
  <1>17. ASSUME NEW k \in Lits, NEW x \in Listed(k)'
         PROVE  \E m \in Lits : \E w \in Listed(m) :
                  w.clause = x.clause /\ w.idx = x.idx /\ From(w, m, x, k)
    <2>1. CASE \E w \in Misplaced(l) : x = r(w) /\ at(w) = k
      <3>1. PICK w \in Misplaced(l) : x = r(w) /\ at(w) = k
        BY <2>1
      <3>2. w \in Listed(l) /\ From(w, l, x, k) /\ w.clause = x.clause /\ w.idx = x.idx
        BY <1>4, <1>6, <3>1 DEF Listed
      <3> QED
        BY <3>2
    <2>2. CASE \E w \in NowBinary(l) : x = b(w) /\ at(w) = k
      <3>1. PICK w \in NowBinary(l) : x = b(w) /\ at(w) = k
        BY <2>2
      <3>2. w \in Listed(l) /\ From(w, l, x, k) /\ w.clause = x.clause /\ w.idx = x.idx
        BY <1>4, <1>6, <3>1 DEF Listed
      <3> QED
        BY <3>2
    <2>3. CASE x \in Listed(k) /\ ~(k = l /\ x \in Moved)
      BY <2>3
    <2>4. x \in watchers'[k] \/ x \in binWatchers'[k]
      BY <1>17 DEF Listed
    <2>5. CASE x \in watchers[k] /\ k = l /\ Len(lits[x.clause]) # 2 /\ at(x) = l
      <3>1. x \in Listed(k) /\ x \notin Moved
        BY <1>6, <2>5 DEF Listed
      <3> QED
        BY <2>3, <3>1
    <2>6. CASE x \in binWatchers[k]
      <3>1. x \in Listed(k) /\ ~(k = l /\ x \in Moved)
        BY <1>16, <2>6 DEF Listed
      <3> QED
        BY <2>3, <3>1
    <2>7. CASE x \in watchers[k] /\ k # l
      <3>1. x \in Listed(k)
        BY <2>7 DEF Listed
      <3> QED
        BY <2>3, <2>7, <3>1
    <2> HIDE DEF From, Moved
    <2> QED
      BY <1>2, <1>3, <2>1, <2>2, <2>4, <2>5, <2>6, <2>7
  <1>18. UniqueInv'
    <2>1. ASSUME NEW k \in Lits, NEW m \in Lits, NEW x \in Listed(k)', NEW y \in Listed(m)',
                 x.clause = y.clause, x.idx = y.idx
          PROVE  x = y /\ k = m
      <3>1. PICK n \in Lits : \E w \in Listed(n) :
              w.clause = x.clause /\ w.idx = x.idx /\ From(w, n, x, k)
        BY <1>17
      <3>2. PICK w \in Listed(n) : w.clause = x.clause /\ w.idx = x.idx /\ From(w, n, x, k)
        BY <3>1
      <3>3. PICK o \in Lits : \E v \in Listed(o) :
              v.clause = y.clause /\ v.idx = y.idx /\ From(v, o, y, m)
        BY <1>17
      <3>4. PICK v \in Listed(o) : v.clause = y.clause /\ v.idx = y.idx /\ From(v, o, y, m)
        BY <3>3
      <3>5. v = w /\ o = n
        BY <2>1, <3>2, <3>4 DEF PlacedInv, UniqueInv
      <3> HIDE DEF Moved, new
      <3> QED
        BY <3>2, <3>4, <3>5
    <2>2. ASSUME NEW k \in Lits, NEW x \in watchers'[k], x \in binWatchers'[k]
          PROVE  FALSE
      <3>1. Len(lits[x.clause]) = 2
        BY <1>1, <1>13, <2>2 DEF BinaryInv
      <3>2. k # l /\ x \in watchers[k]
        BY <1>14, <3>1
      <3>3. x \notin binWatchers[k]
        BY <3>2 DEF PlacedInv, UniqueInv
      <3>4. PICK w \in NowBinary(l) : x = b(w)
        BY <1>3, <2>2, <3>3
      <3>5. w \in Listed(l) /\ x \in Listed(k) /\ w.clause = x.clause /\ w.idx = x.idx
        BY <1>4, <1>6, <3>2, <3>4 DEF Listed
      <3> QED
        BY <3>2, <3>5 DEF PlacedInv, UniqueInv
    <2>3. \A k \in Lits : watchers'[k] \cap binWatchers'[k] = {}
      BY <2>2
    <2> QED
      BY <2>1, <2>3 DEF UniqueInv
  <1>19. ExistenceInv'
    <2> SUFFICES ASSUME NEW c \in registered \ scheduled, NEW i \in {1, 2}
                 PROVE  \E k \in Lits : \E x \in Listed(k)' : x.clause = c /\ x.idx = i
      BY <1>1 DEF ExistenceInv
    <2>1. PICK m \in Lits : \E w \in Listed(m) : w.clause = c /\ w.idx = i
      BY DEF PlacedInv, ExistenceInv
    <2>2. PICK w \in Listed(m) : w.clause = c /\ w.idx = i
      BY <2>1
    <2>3. CASE w \in Listed(m)'
      BY <2>2, <2>3
    <2>4. CASE w \in watchers[l] /\ w \in Misplaced(l)
      <3>1. r(w) \in watchers'[at(w)] /\ at(w) \in Lits
        BY <1>2, <1>5, <2>4
      <3>2. PICK k \in Lits : r(w) \in watchers'[k]
        BY <3>1
      <3>3. r(w) \in Listed(k)'
        BY <3>2 DEF Listed
      <3> QED
        BY <1>4, <2>2, <3>3
    <2>5. CASE w \in watchers[l] /\ w \in NowBinary(l)
      <3>1. b(w) \in binWatchers'[at(w)] /\ at(w) \in Lits
        BY <1>3, <1>5, <2>5
      <3>2. PICK k \in Lits : b(w) \in binWatchers'[k]
        BY <3>1
      <3>3. b(w) \in Listed(k)'
        BY <3>2 DEF Listed
      <3> QED
        BY <1>4, <2>2, <3>3
    <2>6. CASE w \in watchers[m] /\ m # l
      BY <1>2, <2>3, <2>6 DEF Listed
    <2>7. CASE w \in watchers[m] /\ m = l /\ Len(lits[w.clause]) # 2 /\ at(w) = l
      BY <1>2, <2>2, <2>3, <2>7 DEF Listed
    <2>8. CASE w \in binWatchers[m]
      BY <1>3, <2>2, <2>3, <2>8 DEF Listed
    <2> QED
      BY <1>7, <2>2, <2>4, <2>5, <2>6, <2>7, <2>8 DEF Listed
  <1> QED
    BY <1>12, <1>13, <1>15, <1>18, <1>19 DEF PlacedInv

----------------------------------------------------------------------------
THEOREM InitWatchIInv == Init => WatchIInv
  BY DEF Init, WatchIInv, PlacedInv, PlacementInv, UniqueInv, BinaryInv, LongInv, ExistenceInv,
         AnnouncedInv, TodoInv, Listed

(* The calls that report, change, delete or unregister clauses.            *)
LEMMA ModificationWatch ==
  ASSUME TrailIInv, WatchIInv, ReportCall \/ EditLiterals \/ ClearClauses
  PROVE  WatchIInv'
  <1>1. ClauseTypes /\ WatcherTypes /\ PlacedInv /\ AnnouncedInv
    BY DEF TrailIInv, TypeOK, WatchIInv
  <1>2. pc = "idle" /\ pc' = "idle"
    BY DEF ReportCall, RegisterClauseModification, DeleteClause, EditLiterals, ExchangeLiterals,
           DropLastLiteral, ClearClauses, Idle, callVars
  <1>3. TodoInv'
    BY <1>2 DEF TodoInv
  <1>4. \A l \in Lits : \A w \in watchers[l] : lits[w.clause][w.idx] = l \/ l \in dirty
    BY <1>1 DEF PlacedInv, PlacementInv, Listed
  <1>5. \A l \in Lits : \A w \in watchers[l] : w.idx \in {1, 2}
    BY <1>1 DEF WatcherTypes, Watcher
  <1>6. ASSUME NEW c \in Clauses, RegisterClauseModification(c)
        PROVE  PlacedInv' /\ AnnouncedInv'
    <2>1. /\ UNCHANGED <<lits, binWatchers, watchers, registered, scheduled>>
          /\ announced' = announced \cup {c} /\ c \in registered
          /\ dirty' = dirty \cup {lits[c][1], lits[c][2]}
      BY <1>6 DEF RegisterClauseModification, MarkDirty, watcherVars
    <2>2. PlacedInv'
      BY <1>1, <2>1, SameWatchers
    <2>3. \A l \in Lits : \A w \in watchers[l] : w.clause \in announced' => l \in dirty'
      BY <1>1, <1>2, <1>4, <1>5, <2>1 DEF AnnouncedInv
    <2> QED
      BY <1>1, <1>2, <2>1, <2>2, <2>3 DEF AnnouncedInv
  <1>7. ASSUME NEW c \in Clauses, DeleteClause(c)
        PROVE  PlacedInv' /\ AnnouncedInv'
    <2>1. /\ UNCHANGED <<lits, binWatchers, watchers>>
          /\ announced' = announced \ {c} /\ registered' = registered \ {c}
          /\ scheduled' = scheduled \cup {c} /\ dirty \subseteq dirty'
      BY <1>7 DEF DeleteClause, MarkDirty, watcherVars
    <2>2. PlacedInv'
      BY <1>1, <2>1, SameWatchers
    <2> QED
      BY <1>1, <1>2, <2>1, <2>2 DEF AnnouncedInv
  <1>8. ASSUME EditLiterals
        PROVE  PlacedInv' /\ AnnouncedInv'
    <2>1. PICK c \in announced : Modifiable(c) /\ \E d : lits' = [lits EXCEPT ![c] = d]
      BY <1>8 DEF EditLiterals, ExchangeLiterals, DropLastLiteral
    <2>2. PICK d : lits' = [lits EXCEPT ![c] = d]
      BY <2>1
    <2>3. UNCHANGED <<registered, scheduled, announced, binWatchers, watchers, dirty>>
      BY <1>8 DEF EditLiterals, ExchangeLiterals, DropLastLiteral, watcherVars
    <2>4. Len(lits[c]) # 2
      <3>1. Len(lits[c]) \in Nat /\ Len(lits[c]) >= 3
        BY <1>1, <2>1, LenProperties DEF Modifiable, ClauseTypes
      <3>2. \A n \in Nat : n >= 3 => n # 2
        OBVIOUS
      <3> QED
        BY <3>1, <3>2, Zenon
    <2>5. PlacedInv'
      BY <1>1, <1>2, <2>2, <2>3, <2>4, EditPlaced
    <2> QED
      BY <1>1, <1>2, <2>3, <2>5 DEF AnnouncedInv
  <1>9. ASSUME ClearClauses
        PROVE  PlacedInv' /\ AnnouncedInv'
    <2>1. registered' = {} /\ announced' = {}
      BY <1>9 DEF ClearClauses
    <2> QED
      BY <1>2, <1>9, <2>1, ClearPlaced DEF AnnouncedInv
  <1> QED
    BY <1>3, <1>6, <1>7, <1>8, <1>9 DEF ReportCall, WatchIInv

THEOREM NextWatchIInv == TrailIInv /\ WatchIInv /\ [Next]_vars => WatchIInv'
  <1> SUFFICES ASSUME TrailIInv, WatchIInv, [Next]_vars
               PROVE  WatchIInv'
    OBVIOUS
  <1>1. /\ ClauseTypes /\ TrailTypes /\ WatcherTypes /\ CallTypes /\ QueueInv
        /\ PlacedInv /\ AnnouncedInv /\ TodoInv
    BY DEF TrailIInv, TypeOK, WatchIInv
  <1>2. \A w \in todo : w.clause \in Clauses /\ w.idx \in {1, 2} /\ w.blocker \in Lits
    BY <1>1 DEF CallTypes, Watcher
  <1>3. pc # "idle" => cur \in Lits /\ Neg(cur) \in Lits
    <2>1. ASSUME pc # "idle" PROVE cur \in Lits
      <3>1. PICK i \in 1 .. qhead : cur = trail[i]
        BY <1>1, <2>1 DEF QueueInv
      <3>2. i \in 1 .. Len(trail)
        BY <1>1, <2>1, <3>1, LenProperties DEF QueueInv, CallTypes, TrailTypes
      <3> QED
        BY <1>1, <3>1, <3>2, ElementOfSeq DEF TrailTypes
    <2> QED
      BY <2>1, LitFacts
  <1>4. ASSUME NEW c \in Clauses, RegisterClause(c) \/ RegisterLemma(c)
        PROVE  WatchIInv'
    <2>1. PlacedInv'
      BY <1>1, <1>4, AttachPlaced DEF RegisterClause, RegisterLemma
    <2>2. AnnouncedInv'
      <3>1. /\ announced' = announced /\ registered' = registered \cup {c} /\ c \notin registered
            /\ dirty' = dirty /\ pc = "idle" /\ pc' \in {"idle", "cleanup"} /\ Attach(c)
        BY <1>4 DEF RegisterClause, RegisterLemma, StartPropagation, Idle, callVars, Attach,
                    NotParticipating
      <3>2. \A l \in Lits : \A w \in watchers'[l] : w \in watchers[l] \/ w.clause = c
        BY <1>1, <3>1 DEF Attach, WithWatchersOf, WatcherFor, WatcherTypes
      <3> QED
        BY <1>1, <3>1, <3>2 DEF AnnouncedInv
    <2>3. TodoInv'
      BY <1>1, <1>4 DEF RegisterClause, RegisterLemma, StartPropagation, Idle, callVars, TodoInv
    <2> QED
      BY <2>1, <2>2, <2>3 DEF WatchIInv
  <1>5. ASSUME TrailCall
        PROVE  WatchIInv'
    <2>1. /\ UNCHANGED <<lits, registered, scheduled, announced, binWatchers, watchers, dirty>>
          /\ pc = "idle"
      BY <1>5 DEF TrailCall, AppendLit, NewLevel, UndoToLevel, UndoAll, IncreaseMaxVar,
                  Idle, clauseVars, watcherVars
    <2>2. pc' = "idle" \/ (pc' = "cleanup" /\ conflict' = NoClause)
      BY <1>5 DEF TrailCall, AppendLit, StartPropagation, NewLevel, UndoToLevel, UndoAll,
                  IncreaseMaxVar, Idle, callVars
    <2>3. PlacedInv'
      BY <1>1, <2>1, SameWatchers
    <2>4. AnnouncedInv'
      BY <1>1, <2>1, <2>2 DEF AnnouncedInv
    <2> QED
      BY <2>2, <2>3, <2>4 DEF WatchIInv, TodoInv
  <1>6. ASSUME ReportCall \/ EditLiterals \/ ClearClauses
        PROVE  WatchIInv'
    BY <1>6, ModificationWatch
  <1>7. ASSUME NEW l \in Lits, CleanupWatchers(l)
        PROVE  WatchIInv'
    <2>1. PlacedInv'
      BY <1>1, <1>7, CleanupPlaced
    <2>2. TodoInv'
      BY <1>1, <1>7 DEF CleanupWatchers, callVars, TodoInv
    <2>3. AnnouncedInv'
      BY <1>1, <1>7 DEF CleanupWatchers, clauseVars, callVars, AnnouncedInv
    <2> QED
      BY <2>1, <2>2, <2>3 DEF WatchIInv
  <1>8. ASSUME CleanupDone \/ BinariesDone \/ NextLiteral \/ FixpointReached
        PROVE  WatchIInv'
    <2>1. PlacedInv'
      BY <1>1, <1>8, SameWatchers DEF CleanupDone, BinariesDone, NextLiteral, FixpointReached,
                                      clauseVars, watcherVars
    <2>3. AnnouncedInv'
      BY <1>1, <1>8 DEF CleanupDone, BinariesDone, NextLiteral, FixpointReached, Return,
                        clauseVars, AnnouncedInv
    <2>2. TodoInv'
      BY <1>1, <1>8 DEF CleanupDone, BinariesDone, NextLiteral, FixpointReached, Return,
                        watcherVars, TodoInv
    <2> QED
      BY <2>1, <2>2, <2>3 DEF WatchIInv
  <1>9. ASSUME NEW w \in todo,
               \/ BinaryConflict(w) \/ BinaryForce(w) \/ BinarySkip(w)
               \/ SkipWatcher(w) \/ LongConflict(w) \/ LongForce(w)
        PROVE  WatchIInv'
    <2>1. /\ UNCHANGED <<lits, registered, scheduled, announced, binWatchers, watchers, dirty>>
          /\ pc \in {"binaries", "long"}
      BY <1>9 DEF BinaryConflict, BinaryForce, BinarySkip, SkipWatcher, LongConflict, LongForce,
                  Examined, Visiting, clauseVars, watcherVars
    <2>2. \/ pc' = "idle"
          \/ pc # "idle" /\ todo' \subseteq todo /\ UNCHANGED <<pc, cur, conflict>>
      BY <1>9 DEF BinaryConflict, BinaryForce, BinarySkip, SkipWatcher, LongConflict, LongForce,
                  Examined, Visiting, Return
    <2>3. PlacedInv'
      BY <1>1, <2>1, SameWatchers
    <2>4. TodoInv'
      BY <1>1, <2>1, <2>2 DEF TodoInv
    <2>5. AnnouncedInv'
      BY <1>1, <2>1, <2>2 DEF AnnouncedInv
    <2> QED
      BY <2>3, <2>4, <2>5 DEF WatchIInv
  <1>10. ASSUME NEW w \in todo, MoveWatcher(w)
         PROVE  WatchIInv'
    <2>1. /\ pc = "long" /\ w \in watchers[Neg(cur)] /\ cur \in Lits /\ Neg(cur) \in Lits
          /\ todo \subseteq watchers[Neg(cur)] /\ conflict = NoClause
      BY <1>1, <1>3, <1>10 DEF MoveWatcher, Examined, Visiting, TodoInv
    <2>2. PICK i \in 3 .. Len(lits[w.clause]) :
            /\ lits' = [lits EXCEPT ![w.clause] = SwapAt(@, w.idx, i)]
            /\ Relocate(w, lits[w.clause][i])
      BY <1>10 DEF MoveWatcher
    <2>3. PlacedInv'
      <3>1. dirty = {} /\ UNCHANGED <<registered, scheduled, binWatchers, dirty>>
        BY <1>1, <1>10, <2>1 DEF MoveWatcher, AnnouncedInv
      <3> QED
        BY <1>1, <1>2, <2>1, <2>2, <3>1, MovePlaced
    <2>4. TodoInv'
      <3>1. todo' = todo \ {w} /\ UNCHANGED <<pc, cur, conflict>>
        BY <1>10 DEF MoveWatcher
      <3>2. watchers[Neg(cur)] \ {w} \subseteq watchers'[Neg(cur)]
        BY <1>1, <2>1, <2>2 DEF Relocate, WatcherTypes
      <3> QED
        BY <2>1, <3>1, <3>2 DEF TodoInv
    <2>5. AnnouncedInv'
      BY <1>1, <1>10, <2>1 DEF MoveWatcher, AnnouncedInv
    <2> QED
      BY <2>3, <2>4, <2>5 DEF WatchIInv
  <1>11. ASSUME UNCHANGED vars
         PROVE  WatchIInv'
    BY <1>1, <1>11, SameWatchers DEF vars, clauseVars, watcherVars, callVars, WatchIInv,
                                     AnnouncedInv, TodoInv
  <1> QED
    BY <1>4, <1>5, <1>6, <1>7, <1>8, <1>9, <1>10, <1>11 DEF Next, Propagate, RegisterCall

(* Between any two steps of any sequence of calls, with any changes of the *)
(* clauses they report: every registered clause has exactly two watchers,  *)
(* one for each of its first two literals, which are in the lists of these *)
(* literals or in lists to be cleaned up before any watcher is visited.    *)
THEOREM TwoWatchersCorrect == Spec => []TwoWatchers
  <1>1. TrailIInv /\ WatchIInv => TwoWatchers
    <2> SUFFICES ASSUME TrailIInv, WatchIInv, NEW c \in registered \ scheduled, NEW i \in {1, 2}
                 PROVE  \E l \in Lits : \E w \in Listed(l) :
                          /\ w.clause = c
                          /\ w.idx = i
                          /\ \/ l = lits[c][i] /\ (w \in binWatchers[l] <=> Len(lits[c]) = 2)
                             \/ l \in dirty /\ pc \in {"idle", "cleanup"} /\ w \in watchers[l]
                          /\ \A m \in Lits : \A x \in Listed(m) :
                               x.clause = c /\ x.idx = i => x = w /\ m = l
      BY DEF TwoWatchers, Listed
    <2>1. PICK l \in Lits : \E w \in Listed(l) : w.clause = c /\ w.idx = i
      BY DEF WatchIInv, PlacedInv, ExistenceInv
    <2>2. PICK w \in Listed(l) : w.clause = c /\ w.idx = i
      BY <2>1
    <2>3. \A m \in Lits : \A x \in Listed(m) : x.clause = c /\ x.idx = i => x = w /\ m = l
      BY <2>2 DEF WatchIInv, PlacedInv, UniqueInv
    <2>4. \/ l = lits[c][i] /\ (w \in binWatchers[l] <=> Len(lits[c]) = 2)
          \/ l \in dirty /\ w \in watchers[l]
      <3>1. w \in binWatchers[l] => Len(lits[c]) = 2
        BY <2>2 DEF WatchIInv, PlacedInv, BinaryInv
      <3>2. w \in watchers[l] /\ Len(lits[c]) = 2 => l \in dirty
        BY <2>2 DEF WatchIInv, PlacedInv, LongInv
      <3>3. lits[c][i] = l \/ (w \in watchers[l] /\ l \in dirty)
        BY <2>2 DEF WatchIInv, PlacedInv, PlacementInv
      <3> QED
        BY <2>2, <3>1, <3>2, <3>3 DEF Listed
    <2>5. l \in dirty => pc \in {"idle", "cleanup"}
      BY DEF WatchIInv, AnnouncedInv, TrailIInv, TypeOK, CallTypes
    <2> QED
      BY <2>2, <2>3, <2>4, <2>5
  <1> QED
    BY <1>1, InitTrailIInv, NextTrailIInv, InitWatchIInv, NextWatchIInv, PTL DEF Spec

----------------------------------------------------------------------------
(* Reasons and conflicts.                                                  *)

(* While watchers are visited, every one of them is where it belongs.      *)
LEMMA TraversalPlaced ==
  ASSUME WatchIInv, pc \in {"binaries", "long"}
  PROVE  /\ announced = {} /\ dirty = {}
         /\ \A l \in Lits : \A w \in watchers[l] \cup binWatchers[l] :
              w.clause \in registered \cup scheduled /\ lits[w.clause][w.idx] = l
  <1>1. announced = {} /\ dirty = {}
    BY DEF WatchIInv, AnnouncedInv
  <1> QED
    BY <1>1 DEF WatchIInv, PlacedInv, PlacementInv, Listed

(* A false literal has its negation on the trail.                          *)
LEMMA FalseOnTrail ==
  ASSUME TrailIInv, NEW l \in Lits, Value(l) = -1
  PROVE  \E p \in 1 .. Len(trail) : trail[p] = Neg(l)
  <1>1. TrailTypes /\ TrailMatchesAssignments
    BY DEF TrailIInv, TypeOK, TrailInv
  <1>2. /\ l \in Int /\ l # 0 /\ Neg(l) \in Lits /\ VarOf(l) \in Vars
        /\ assignments[VarOf(l)] # 0
    BY <1>1, LitFacts, ValueFacts DEF Lits, TrailTypes
  <1>3. PICK p \in 1 .. Len(trail) : VarOf(trail[p]) = VarOf(l)
    BY <1>1, <1>2 DEF TrailMatchesAssignments
  <1>4. trail[p] \in Lits /\ trail[p] \in Int /\ Value(trail[p]) = 1
    BY <1>1, <1>3, ElementOfSeq, LitFacts DEF TrailTypes, TrailMatchesAssignments
  <1>5. trail[p] = l \/ trail[p] = -l
    BY <1>2, <1>3, <1>4 DEF VarOf
  <1>6. trail[p] # l
    BY <1>4
  <1> QED
    BY <1>3, <1>5, <1>6 DEF Neg

(* The literal being propagated is true.                                   *)
LEMMA CurTrue ==
  ASSUME TrailIInv, pc # "idle"
  PROVE  /\ cur \in Lits /\ Neg(cur) \in Lits
         /\ Value(Neg(cur)) = -1
  <1>1. TrailTypes /\ CallTypes /\ QueueInv /\ TrailMatchesAssignments
    BY DEF TrailIInv, TypeOK, TrailInv
  <1>2. PICK i \in 1 .. qhead : cur = trail[i]
    BY <1>1 DEF QueueInv
  <1>3. i \in 1 .. Len(trail)
    BY <1>1, <1>2, LenProperties DEF QueueInv, CallTypes, TrailTypes
  <1>4. cur \in Lits /\ Value(cur) = 1
    BY <1>1, <1>2, <1>3, ElementOfSeq DEF TrailTypes, TrailMatchesAssignments
  <1>5. Neg(cur) \in Lits /\ cur \in Int /\ cur # 0
    BY <1>4, LitFacts DEF Lits
  <1>6. Value(Neg(cur)) = -Value(cur)
    <2>1. CASE cur > 0
      BY <1>5, <2>1 DEF Value, Neg
    <2>2. CASE cur < 0
      <3>1. -cur > 0 /\ Value(Neg(cur)) = assignments[-cur] /\ Value(cur) = -assignments[-cur]
        BY <1>5, <2>2 DEF Value, Neg
      <3>2. -cur \in Vars
        BY <1>4, <2>2, NumVarsAssumption DEF Lits, Vars
      <3>3. assignments[-cur] \in {-1, 0, 1}
        BY <1>1, <3>2 DEF TrailTypes
      <3> QED
        BY <3>1, <3>3
    <2> QED
      BY <1>5, <2>1, <2>2
  <1> QED
    BY <1>4, <1>5, <1>6

(* Forcing a literal by a clause whose other literals are all false.       *)
LEMMA ForceEdge ==
  ASSUME TrailIInv, ReasonInv, AnnouncedEdges, NEW l \in Lits, NEW r \in Clauses \cup {NoClause},
         Value(l) = 0, Assign(l, r), phases' = phases, lits' = lits,
         announced' = announced, r \notin announced,
         r # NoClause =>
           /\ l \in {lits[r][1], lits[r][2]}
           /\ \A j \in 1 .. Len(lits[r]) : lits[r][j] = l \/ Value(lits[r][j]) = -1
  PROVE  ReasonInv' /\ AnnouncedEdges'
  <1>1. TrailTypes /\ TrailInv /\ ClauseTypes
    BY DEF TrailIInv, TypeOK
  <1>2. /\ Len(trail) \in Nat
        /\ Len(trail') = Len(trail) + 1
        /\ trail'[Len(trail) + 1] = l
        /\ \A i \in 1 .. Len(trail) : trail'[i] = trail[i] /\ trail[i] \in Lits
    BY <1>1, AssignStep, LenProperties, ElementOfSeq DEF TrailTypes
  <1>3. VarOf(l) \in Vars /\ \A i \in 1 .. Len(trail) : VarOf(trail[i]) \in Vars /\ VarOf(trail[i]) # VarOf(l)
    <2>1. VarOf(l) \in Vars /\ assignments[VarOf(l)] = 0
      BY <1>1, LitFacts, ValueFacts DEF TrailTypes
    <2>2. \A i \in 1 .. Len(trail) : VarOf(trail[i]) \in Vars /\ assignments[VarOf(trail[i])] # 0
      <3> SUFFICES ASSUME NEW i \in 1 .. Len(trail)
                   PROVE  VarOf(trail[i]) \in Vars /\ assignments[VarOf(trail[i])] # 0
        OBVIOUS
      <3>1. trail[i] \in Lits /\ Value(trail[i]) = 1
        BY <1>1, <1>2 DEF TrailInv, TrailMatchesAssignments
      <3>2. /\ VarOf(trail[i]) \in Vars /\ SignOf(trail[i]) \in {-1, 1}
            /\ assignments[VarOf(trail[i])] = SignOf(trail[i])
        BY <1>1, <3>1, LitFacts, ValueFacts DEF TrailTypes
      <3> QED
        BY <3>2
    <2> QED
      BY <2>1, <2>2
  <1>4. /\ reason'[VarOf(l)] = r
        /\ \A v \in Vars : v # VarOf(l) => reason'[v] = reason[v]
    BY <1>1, <1>3 DEF Assign, TrailTypes
  <1>7. AnnouncedEdges'
    <2> SUFFICES ASSUME NEW c \in announced, NEW i \in 1 .. Len(trail) + 1
                 PROVE  reason'[VarOf(trail'[i])] # c
      BY <1>2 DEF AnnouncedEdges
    <2>1. CASE i \in 1 .. Len(trail)
      <3>1. reason'[VarOf(trail'[i])] = reason[VarOf(trail[i])]
        BY <1>2, <1>3, <1>4, <2>1
      <3> QED
        BY <2>1, <3>1 DEF AnnouncedEdges
    <2>2. CASE i = Len(trail) + 1
      BY <1>2, <1>4, <2>2
    <2> QED
      BY <1>2, <2>1, <2>2
  <1> SUFFICES ASSUME NEW i \in 1 .. Len(trail) + 1, reason'[VarOf(trail'[i])] # NoClause,
                      NEW q, q = reason'[VarOf(trail'[i])]
               PROVE  /\ trail'[i] \in {lits[q][1], lits[q][2]}
                      /\ \A j \in 1 .. Len(lits[q]) :
                           \/ lits[q][j] = trail'[i]
                           \/ \E p \in 1 .. i - 1 : trail'[p] = Neg(lits[q][j])
    <2>1. Len(trail') = Len(trail) + 1
      BY <1>2
    <2> QED
      BY <1>7, <2>1 DEF ReasonInv
  <1>5. CASE i \in 1 .. Len(trail)
    <2>1. trail'[i] = trail[i] /\ q = reason[VarOf(trail[i])]
      BY <1>2, <1>3, <1>4, <1>5
    <2>2. \A p \in 1 .. i - 1 : trail'[p] = trail[p]
      BY <1>2, <1>5
    <2>3. /\ trail[i] \in {lits[q][1], lits[q][2]}
          /\ \A j \in 1 .. Len(lits[q]) :
               lits[q][j] = trail[i] \/ \E p \in 1 .. i - 1 : trail[p] = Neg(lits[q][j])
      <3> DEFINE t == trail[i]
                 r0 == reason[VarOf(t)]
      <3>1. r0 = q /\ r0 # NoClause
        BY <2>1
      <3>2. /\ t \in {lits[r0][1], lits[r0][2]}
            /\ \A j \in 1 .. Len(lits[r0]) :
                 lits[r0][j] = t \/ \E p \in 1 .. i - 1 : trail[p] = Neg(lits[r0][j])
        BY <3>1, <1>5 DEF ReasonInv
      <3> QED
        BY <3>1, <3>2
    <2> QED
      BY <2>1, <2>2, <2>3
  <1>6. CASE i = Len(trail) + 1
    <2>1. trail'[i] = l /\ q = r /\ r \in Clauses
      BY <1>2, <1>4, <1>6
    <2>2. ASSUME NEW j \in 1 .. Len(lits[r]), lits[r][j] # l
          PROVE  \E p \in 1 .. i - 1 : trail'[p] = Neg(lits[r][j])
      <3>1. lits[r][j] \in Lits /\ Value(lits[r][j]) = -1
        BY <1>1, <2>1, <2>2, ClauseFacts
      <3>2. PICK p \in 1 .. Len(trail) : trail[p] = Neg(lits[r][j])
        BY <3>1, FalseOnTrail
      <3>3. p \in 1 .. i - 1 /\ trail'[p] = trail[p]
        BY <1>2, <1>6
      <3> QED
        BY <3>2, <3>3
    <2> QED
      BY <2>1, <2>2
  <1> QED
    BY <1>2, <1>5, <1>6

(* Steps that keep the reasons: trail and clauses unchanged, or the trail  *)
(* cut back.                                                               *)
LEMMA SameEdges ==
  ASSUME ReasonInv, AnnouncedEdges, UNCHANGED <<trail, reason, lits>>, announced' \subseteq announced
  PROVE  ReasonInv' /\ AnnouncedEdges'
  <1>1. ReasonInv'
    BY DEF ReasonInv
  <1>2. AnnouncedEdges'
    BY DEF AnnouncedEdges
  <1> QED
    BY <1>1, <1>2

LEMMA PopEdges ==
  ASSUME TrailTypes, ReasonInv, AnnouncedEdges, NEW n \in 0 .. Len(trail), PopTrailTo(n),
         UNCHANGED <<reason, lits, announced>>
  PROVE  ReasonInv' /\ AnnouncedEdges'
  <1>1. Len(trail) \in Nat /\ \A i \in 1 .. Len(trail) : trail[i] \in Lits
    BY LenProperties, ElementOfSeq DEF TrailTypes
  <1>2. \A i \in 1 .. n : i \in 1 .. Len(trail) /\ trail[i] \in Lits
    BY <1>1
  <1>3. Len(trail') = n /\ \A i \in 1 .. n : trail'[i] = trail[i]
    BY <1>1, <1>2, SubSeqProperties DEF PopTrailTo
  <1>4. \A i \in 1 .. n : \A p \in 1 .. i - 1 : p \in 1 .. n
    BY <1>1
  <1>5. ReasonInv'
    BY <1>2, <1>3, <1>4 DEF ReasonInv
  <1>6. AnnouncedEdges'
    BY <1>2, <1>3 DEF AnnouncedEdges
  <1> QED
    BY <1>5, <1>6

(* Changing the literals of a clause that is the reason of no assignment.  *)
LEMMA ChangeEdges ==
  ASSUME ClauseTypes, TrailTypes, ReasonInv, AnnouncedEdges, NEW c \in Clauses, NEW d,
         \A i \in 1 .. Len(trail) : reason[VarOf(trail[i])] # c,
         lits' = [lits EXCEPT ![c] = d], UNCHANGED <<trail, reason, announced>>
  PROVE  ReasonInv' /\ AnnouncedEdges'
  <1>1. ASSUME NEW i \in 1 .. Len(trail), reason[VarOf(trail[i])] # NoClause
        PROVE  lits'[reason[VarOf(trail[i])]] = lits[reason[VarOf(trail[i])]]
    <2>1. trail[i] \in Lits
      BY ElementOfSeq DEF TrailTypes
    <2>2. reason[VarOf(trail[i])] \in Clauses /\ reason[VarOf(trail[i])] # c
      BY <1>1, <2>1, LitFacts DEF TrailTypes
    <2> QED
      BY <2>2 DEF ClauseTypes
  <1>2. AnnouncedEdges'
    BY DEF AnnouncedEdges
  <1> SUFFICES ASSUME NEW i \in 1 .. Len(trail), NEW r, r = reason[VarOf(trail[i])], r # NoClause
               PROVE  /\ trail[i] \in {lits'[r][1], lits'[r][2]}
                      /\ \A j \in 1 .. Len(lits'[r]) :
                           lits'[r][j] = trail[i] \/ \E p \in 1 .. i - 1 : trail[p] = Neg(lits'[r][j])
    BY <1>2 DEF ReasonInv
  <1>3. lits'[r] = lits[r]
    BY <1>1
  <1>4. /\ trail[i] \in {lits[r][1], lits[r][2]}
        /\ \A j \in 1 .. Len(lits[r]) :
             lits[r][j] = trail[i] \/ \E p \in 1 .. i - 1 : trail[p] = Neg(lits[r][j])
    BY DEF ReasonInv
  <1> QED
    BY <1>3, <1>4

(* A watcher moves only in a clause that is no reason: the propagated      *)
(* literal is false in it and its other watched literal is not true.       *)
LEMMA MoveEdges ==
  ASSUME TrailIInv, WatchIInv, ReasonInv, AnnouncedEdges, NEW w \in todo, MoveWatcher(w)
  PROVE  ReasonInv' /\ AnnouncedEdges'
  <1>1. /\ pc = "long" /\ ~LooksSat(w)
        /\ UNCHANGED <<trail, reason, announced>>
        /\ \E i \in 3 .. Len(lits[w.clause]) :
             lits' = [lits EXCEPT ![w.clause] = SwapAt(@, w.idx, i)]
    BY DEF MoveWatcher, Examined, Visiting, trailVars
  <1>2. /\ w.clause \in Clauses /\ w.idx \in {1, 2}
        /\ ClauseTypes /\ TrailInv /\ TrailTypes
    BY DEF TrailIInv, TypeOK, CallTypes, Watcher
  <1>3. Neg(cur) \in Lits /\ Value(Neg(cur)) = -1
    BY <1>1, CurTrue
  <1>4. lits[w.clause][w.idx] = Neg(cur)
    <2>1. w \in watchers[Neg(cur)]
      BY <1>1 DEF WatchIInv, TodoInv
    <2> QED
      BY <1>1, <1>3, <2>1, TraversalPlaced
  <1>5. Value(OtherWatched(w)) # 1
    BY <1>1 DEF LooksSat
  <1>6. ASSUME NEW i \in 1 .. Len(trail)
        PROVE  reason[VarOf(trail[i])] # w.clause
    <2> SUFFICES ASSUME reason[VarOf(trail[i])] = w.clause
                 PROVE  FALSE
      OBVIOUS
    <2>1. w.clause # NoClause
      BY <1>2, ClausesAssumption
    <2>2. trail[i] = lits[w.clause][1] \/ trail[i] = lits[w.clause][2]
      BY <2>1 DEF ReasonInv
    <2>3. Value(trail[i]) = 1
      BY <1>2 DEF TrailInv, TrailMatchesAssignments
    <2>4. trail[i] = lits[w.clause][w.idx] \/ trail[i] = OtherWatched(w)
      BY <1>2, <2>2 DEF OtherWatched
    <2> QED
      BY <1>3, <1>4, <1>5, <2>3, <2>4
  <1> QED
    BY <1>1, <1>2, <1>6, ChangeEdges

(* isReason() recognises the reasons.                                      *)
LEMMA EdgesRecognised ==
  ASSUME TrailIInv, ReasonInv
  PROVE  ReasonsRecognised
  <1> SUFFICES ASSUME NEW i \in 1 .. Len(trail),
                      NEW r, r = reason[VarOf(trail[i])], r # NoClause
               PROVE  IsReason(r)
    BY DEF ReasonsRecognised
  <1>1. trail # <<>>
    OBVIOUS
  <1>2. trail[i] = lits[r][1] \/ trail[i] = lits[r][2]
    BY DEF ReasonInv
  <1>3. level[VarOf(trail[i])] <= CurrentLevel
    BY DEF TrailIInv, TrailInv, LevelsMatchTrail
  <1> QED
    BY <1>1, <1>2, <1>3 DEF IsReason

THEOREM InitEdgeIInv == Init => EdgeIInv
  BY DEF Init, EdgeIInv, ReasonInv, ConflictInv, AnnouncedEdges

THEOREM NextEdgeIInv == TrailIInv /\ WatchIInv /\ EdgeIInv /\ [Next]_vars => EdgeIInv'
  <1> SUFFICES ASSUME TrailIInv, WatchIInv, EdgeIInv, [Next]_vars
               PROVE  EdgeIInv'
    OBVIOUS
  <1>1. /\ ClauseTypes /\ TrailTypes /\ WatcherTypes /\ CallTypes /\ TodoInv /\ PlacedInv
        /\ TrailInv /\ ReasonInv /\ ConflictInv /\ AnnouncedEdges
    BY DEF TrailIInv, TypeOK, WatchIInv, EdgeIInv
  <1>2. /\ \A w \in todo : w.clause \in Clauses /\ w.idx \in {1, 2} /\ w.blocker \in Lits
        /\ NoClause \notin Clauses
    BY <1>1, ClausesAssumption DEF CallTypes, Watcher
  <1>3. ASSUME NEW c \in Clauses, RegisterClause(c)
        PROVE  EdgeIInv'
    <2>1. UNCHANGED <<trail, reason, lits, announced>> /\ conflict' = NoClause
      BY <1>3 DEF RegisterClause, Attach, Idle, trailVars, callVars
    <2> QED
      BY <1>1, <2>1, SameEdges DEF EdgeIInv, ConflictInv
  <1>4. ASSUME NEW c \in Clauses, RegisterLemma(c)
        PROVE  EdgeIInv'
    <2>1. /\ lits' = lits /\ phases' = phases /\ conflict' = NoClause
          /\ lits[c][1] \in Lits /\ Value(lits[c][1]) = 0
          /\ Assign(lits[c][1], c) /\ announced' = announced /\ c \notin announced
          /\ \A j \in 2 .. Len(lits[c]) : Value(lits[c][j]) = -1
      BY <1>1, <1>4, WatcherForType DEF RegisterLemma, Attach, StartPropagation, NotParticipating,
                                          WatchIInv, AnnouncedInv
    <2>2. \A j \in 1 .. Len(lits[c]) : lits[c][j] = lits[c][1] \/ Value(lits[c][j]) = -1
      <3>1. \A j \in 1 .. Len(lits[c]) : j = 1 \/ j \in 2 .. Len(lits[c])
        BY <1>1, ClauseFacts
      <3> QED
        BY <2>1, <3>1
    <2>3. ReasonInv' /\ AnnouncedEdges'
      BY <1>1, <2>1, <2>2, ForceEdge
    <2> QED
      BY <2>1, <2>3 DEF EdgeIInv, ConflictInv
  <1>5. ASSUME NEW l \in Lits, NEW m \in {"include", "exclude"}, AppendLit(l, m)
        PROVE  EdgeIInv'
    <2>1. /\ lits' = lits /\ phases' = phases /\ conflict' = NoClause
          /\ Value(l) = 0 /\ Assign(l, NoClause)
          /\ announced' = announced /\ NoClause \notin announced
      BY <1>1, <1>2, <1>5 DEF AppendLit, StartPropagation, clauseVars, ClauseTypes
    <2>2. ReasonInv' /\ AnnouncedEdges'
      BY <1>1, <2>1, ForceEdge
    <2> QED
      BY <2>1, <2>2 DEF EdgeIInv, ConflictInv
  <1>6. ASSUME NewLevel \/ (\E v \in Vars : IncreaseMaxVar(v)) \/ ClearClauses
               \/ \E c \in Clauses : DeleteClause(c)
        PROVE  EdgeIInv'
    <2>1. /\ UNCHANGED <<trail, reason, lits>> /\ conflict' = NoClause
          /\ announced' \subseteq announced
      BY <1>6 DEF NewLevel, IncreaseMaxVar, ClearClauses, DeleteClause, Idle, clauseVars,
                  trailVars, callVars
    <2> QED
      BY <1>1, <2>1, SameEdges DEF EdgeIInv, ConflictInv
  <1>7. ASSUME NEW k \in 0 .. CurrentLevel, UndoToLevel(k)
        PROVE  EdgeIInv'
    <2>1. levelLimits[k + 2] \in 0 .. Len(trail)
      <3>1. /\ levelLimits \in Seq(Nat) /\ Len(levelLimits) \in Nat /\ Len(trail) \in Nat
            /\ k \in 0 .. Len(levelLimits) - 2
        BY <1>1, <1>7, LenProperties DEF UndoToLevel, CurrentLevel, TrailTypes
      <3>2. k + 2 \in 1 .. Len(levelLimits)
        BY <3>1
      <3>3. levelLimits[k + 2] \in Nat /\ levelLimits[k + 2] <= Len(trail)
        BY <1>1, <3>1, <3>2, ElementOfSeq DEF TrailInv, LevelsMatchTrail
      <3> QED
        BY <3>1, <3>3
    <2>2. ReasonInv' /\ AnnouncedEdges'
      BY <1>1, <1>7, <2>1, PopEdges DEF UndoToLevel, clauseVars
    <2> QED
      BY <1>7, <2>2 DEF UndoToLevel, EdgeIInv, ConflictInv
  <1>8. ASSUME UndoAll
        PROVE  EdgeIInv'
    <2>1. 0 \in 0 .. Len(trail)
      BY <1>1, LenProperties DEF TrailTypes
    <2>2. ReasonInv' /\ AnnouncedEdges'
      BY <1>1, <1>8, <2>1, PopEdges DEF UndoAll, clauseVars
    <2> QED
      BY <1>8, <2>2 DEF UndoAll, EdgeIInv, ConflictInv
  <1>9. ASSUME NEW c \in Clauses, RegisterClauseModification(c)
        PROVE  EdgeIInv'
    <2>1. /\ UNCHANGED <<trail, reason, lits>> /\ conflict' = NoClause
          /\ announced' = announced \cup {c} /\ ~IsReason(c)
      BY <1>9 DEF RegisterClauseModification, Idle, trailVars, callVars
    <2>2. \A i \in 1 .. Len(trail) : reason[VarOf(trail[i])] # c
      BY <1>1, <1>2, <2>1, EdgesRecognised DEF ReasonsRecognised
    <2>3. AnnouncedEdges'
      BY <1>1, <2>1, <2>2 DEF AnnouncedEdges
    <2>4. ReasonInv'
      BY <1>1, <2>1 DEF ReasonInv
    <2> QED
      BY <2>1, <2>3, <2>4 DEF EdgeIInv, ConflictInv
  <1>19. ASSUME EditLiterals
         PROVE  EdgeIInv'
    <2>1. PICK c \in announced : \E d : lits' = [lits EXCEPT ![c] = d]
      BY <1>19 DEF EditLiterals, ExchangeLiterals, DropLastLiteral
    <2>2. PICK d : lits' = [lits EXCEPT ![c] = d]
      BY <2>1
    <2>3. UNCHANGED <<trail, reason, announced>> /\ conflict' = NoClause
      BY <1>19 DEF EditLiterals, ExchangeLiterals, DropLastLiteral, Idle, trailVars, callVars
    <2>4. c \in Clauses /\ \A i \in 1 .. Len(trail) : reason[VarOf(trail[i])] # c
      BY <1>1 DEF ClauseTypes, AnnouncedEdges
    <2> QED
      BY <1>1, <2>2, <2>3, <2>4, ChangeEdges DEF EdgeIInv, ConflictInv
  <1>10. ASSUME \/ \E l \in Lits : CleanupWatchers(l)
                \/ CleanupDone \/ BinariesDone \/ NextLiteral \/ FixpointReached
         PROVE  EdgeIInv'
    <2>1. /\ UNCHANGED <<trail, reason, lits>> /\ conflict' = NoClause
          /\ announced' \subseteq announced
      BY <1>1, <1>10 DEF CleanupWatchers, CleanupDone, BinariesDone, NextLiteral, FixpointReached,
                         Return, TodoInv, clauseVars, trailVars, callVars
    <2> QED
      BY <1>1, <2>1, SameEdges DEF EdgeIInv, ConflictInv
  <1>11. ASSUME NEW w \in todo, BinarySkip(w) \/ SkipWatcher(w)
         PROVE  EdgeIInv'
    <2>1. UNCHANGED <<trail, reason, lits, announced>> /\ conflict' = NoClause
      BY <1>1, <1>11 DEF BinarySkip, SkipWatcher, Visiting, TodoInv, clauseVars, trailVars
    <2> QED
      BY <1>1, <2>1, SameEdges DEF EdgeIInv, ConflictInv
  <1>12. ASSUME NEW w \in todo, MoveWatcher(w)
         PROVE  EdgeIInv'
    <2>1. conflict' = NoClause
      BY <1>1, <1>12 DEF MoveWatcher, Examined, Visiting, TodoInv
    <2> QED
      BY <1>1, <1>12, <2>1, MoveEdges DEF EdgeIInv, ConflictInv
  (* All literals but the other watched one are false in a clause that     *)
  (* forces a literal or is in conflict.                                   *)
  <1>13. ASSUME NEW w \in todo, NEW c \in Clauses, c = w.clause,
                BinaryForce(w) \/ BinaryConflict(w)
         PROVE  \A j \in 1 .. Len(lits[c]) : lits[c][j] = w.blocker \/ Value(lits[c][j]) = -1
    <2>1. /\ pc = "binaries" /\ w \in binWatchers[Neg(cur)]
      BY <1>1, <1>13 DEF BinaryForce, BinaryConflict, TodoInv
    <2>2. Neg(cur) \in Lits /\ Value(Neg(cur)) = -1
      BY <2>1, CurTrue
    <2>3. /\ Len(lits[c]) = 2 /\ w.blocker = lits[c][3 - w.idx] /\ lits[c][w.idx] = Neg(cur)
      <3>1. lits[c][w.idx] = Neg(cur)
        BY <1>13, <2>1, <2>2, TraversalPlaced
      <3> QED
        BY <1>1, <1>13, <2>1, <2>2, <3>1 DEF PlacedInv, BinaryInv
    <2>4. \A j \in 1 .. 2 : j = w.idx \/ j = 3 - w.idx
      BY <1>2
    <2> QED
      BY <2>2, <2>3, <2>4
  <1>14. ASSUME NEW w \in todo, NEW c \in Clauses, c = w.clause,
                LongForce(w) \/ LongConflict(w)
         PROVE  \A j \in 1 .. Len(lits[c]) : lits[c][j] = OtherWatched(w) \/ Value(lits[c][j]) = -1
    <2>1. /\ pc = "long" /\ w \in watchers[Neg(cur)] /\ NoNewWatch(c)
      BY <1>1, <1>14 DEF LongForce, LongConflict, Examined, Visiting, TodoInv
    <2>2. Neg(cur) \in Lits /\ Value(Neg(cur)) = -1
      BY <2>1, CurTrue
    <2>3. lits[c][w.idx] = Neg(cur)
      BY <1>14, <2>1, <2>2, TraversalPlaced
    <2>4. \A j \in 1 .. Len(lits[c]) : j = w.idx \/ j = 3 - w.idx \/ j \in 3 .. Len(lits[c])
      <3>1. Len(lits[c]) \in Nat
        BY <1>1, ClauseFacts
      <3> QED
        BY <1>2, <3>1
    <2>5. OtherWatched(w) = lits[c][3 - w.idx]
      BY <1>14 DEF OtherWatched
    <2> QED
      BY <2>1, <2>2, <2>3, <2>4, <2>5 DEF NoNewWatch
  <1>15. ASSUME NEW w \in todo, BinaryForce(w)
         PROVE  EdgeIInv'
    <2>1. /\ lits' = lits /\ phases' = phases /\ conflict' = NoClause
          /\ Value(w.blocker) = 0 /\ Assign(w.blocker, w.clause)
          /\ announced' = announced /\ w.clause \notin announced
      BY <1>1, <1>15, TraversalPlaced DEF BinaryForce, TodoInv, clauseVars
    <2>2. w.blocker \in {lits[w.clause][1], lits[w.clause][2]}
      <3>1. w \in binWatchers[Neg(cur)] /\ Neg(cur) \in Lits
        BY <1>1, <1>15, CurTrue DEF BinaryForce, TodoInv
      <3>2. w.blocker = lits[w.clause][3 - w.idx]
        BY <1>1, <3>1 DEF PlacedInv, BinaryInv
      <3> QED
        BY <1>2, <3>2
    <2>3. ReasonInv' /\ AnnouncedEdges'
      BY <1>1, <1>2, <1>13, <1>15, <2>1, <2>2, ForceEdge
    <2> QED
      BY <2>1, <2>3 DEF EdgeIInv, ConflictInv
  <1>16. ASSUME NEW w \in todo, LongForce(w)
         PROVE  EdgeIInv'
    <2>1. /\ lits' = lits /\ phases' = phases /\ conflict' = NoClause
          /\ Value(OtherWatched(w)) = 0 /\ Assign(OtherWatched(w), w.clause)
          /\ announced' = announced /\ w.clause \notin announced
      BY <1>1, <1>16, TraversalPlaced DEF LongForce, Examined, Visiting, TodoInv, clauseVars
    <2>2. /\ OtherWatched(w) \in {lits[w.clause][1], lits[w.clause][2]}
          /\ OtherWatched(w) \in Lits
      BY <1>1, <1>2, WatcherForType, 3 - w.idx \in {1, 2} DEF OtherWatched
    <2>3. ReasonInv' /\ AnnouncedEdges'
      BY <1>1, <1>2, <1>14, <1>16, <2>1, <2>2, ForceEdge
    <2> QED
      BY <2>1, <2>3 DEF EdgeIInv, ConflictInv
  <1>17. ASSUME NEW w \in todo, BinaryConflict(w) \/ LongConflict(w)
         PROVE  EdgeIInv'
    <2>1. UNCHANGED <<trail, reason, lits, announced, assignments>> /\ conflict' = w.clause
      BY <1>17 DEF BinaryConflict, LongConflict, Return, clauseVars, trailVars
    <2>2. \A j \in 1 .. Len(lits[w.clause]) : Value(lits[w.clause][j]) = -1
      <3>1. CASE BinaryConflict(w)
        BY <1>2, <1>13, <3>1 DEF BinaryConflict
      <3>2. CASE LongConflict(w)
        BY <1>2, <1>14, <3>2 DEF LongConflict
      <3> QED
        BY <1>17, <3>1, <3>2
    <2>3. ConflictInv'
      BY <2>1, <2>2 DEF ConflictInv, Value
    <2> QED
      BY <1>1, <2>1, <2>3, SameEdges DEF EdgeIInv
  <1>18. ASSUME UNCHANGED vars
         PROVE  EdgeIInv'
    <2>1. UNCHANGED <<trail, reason, lits, announced, assignments, conflict>>
      BY <1>18 DEF vars, clauseVars, trailVars, callVars
    <2> QED
      BY <1>1, <2>1, SameEdges DEF EdgeIInv, ConflictInv, Value
  <1> QED
    BY <1>3, <1>4, <1>5, <1>6, <1>7, <1>8, <1>9, <1>10, <1>11, <1>12, <1>15, <1>16, <1>17, <1>18,
       <1>19
    DEF Next, Propagate, RegisterCall, TrailCall, ReportCall

(* A forced literal is one of the first two of its reason, whose other     *)
(* literals became false earlier: the implication graph the trail records  *)
(* has no cycle and no missing edge.                                       *)
THEOREM ReasonsCorrect == Spec => []ReasonInv
  <1>1. EdgeIInv => ReasonInv
    BY DEF EdgeIInv
  <1> QED
    BY <1>1, InitTrailIInv, NextTrailIInv, InitWatchIInv, NextWatchIInv, InitEdgeIInv,
       NextEdgeIInv, PTL DEF Spec

(* A clause returned as a conflict is falsified until its assignment is    *)
(* undone.                                                                 *)
THEOREM ConflictsCorrect == Spec => []ConflictInv
  <1>1. EdgeIInv => ConflictInv
    BY DEF EdgeIInv
  <1> QED
    BY <1>1, InitTrailIInv, NextTrailIInv, InitWatchIInv, NextWatchIInv, InitEdgeIInv,
       NextEdgeIInv, PTL DEF Spec

(* isReason() says yes to every clause that is a reason.                   *)
THEOREM ReasonsRecognisedCorrect == Spec => []ReasonsRecognised
  <1>1. TrailIInv /\ EdgeIInv => ReasonsRecognised
    BY EdgesRecognised DEF EdgeIInv
  <1> QED
    BY <1>1, InitTrailIInv, NextTrailIInv, InitWatchIInv, NextWatchIInv, InitEdgeIInv,
       NextEdgeIInv, PTL DEF Spec

----------------------------------------------------------------------------
(***************************************************************************)
(* Assignment with the solver as its client: nothing is left to propagate  *)
(* when a call returns, and propagation with watchers implements           *)
(* UnitPropagation.                                                        *)
(***************************************************************************)

LevelOf(l) == level[VarOf(l)]

(* A true literal of the clause is at least as old as the false l, so that *)
(* backtracking never takes it away alone.                                 *)
Witnessed(c, l) ==
  \E j \in 1 .. Len(lits[c]) : Value(lits[c][j]) = 1 /\ LevelOf(lits[c][j]) <= LevelOf(l)

(* The watcher for position i of c will still be visited.                  *)
InQueue(l) == \E p \in qhead + 1 .. qend : trail[p] = l

InTraversal(c, i) ==
  /\ Neg(lits[c][i]) = cur
  /\ \/ pc = "cleanup"
     \/ \E w \in todo : w.clause = c /\ w.idx = i
     \/ pc = "binaries" /\ \E w \in watchers[Neg(cur)] : w.clause = c /\ w.idx = i

Pending(c, i) == pc # "idle" /\ (InQueue(Neg(lits[c][i])) \/ InTraversal(c, i))

(* Why a false watched literal does not hide a unit clause.  The exception *)
(* a conflict makes concerns the current level, which is undone next.      *)
Excused(c, i) ==
  \/ Witnessed(c, lits[c][i])
  \/ LevelOf(lits[c][i]) = CurrentLevel /\ (conflict # NoClause \/ Pending(c, i))

WitnessInv ==
  \A c \in registered, i \in {1, 2} : Value(lits[c][i]) = -1 => Excused(c, i)

(* All that a call propagates is on the level it was made on.              *)
QueueLevels ==
  pc # "idle" =>
    /\ mode = "include"
    /\ LevelOf(cur) = CurrentLevel
    /\ \A p \in qhead + 1 .. qend : LevelOf(trail[p]) = CurrentLevel

(* A blocker, however old, is a literal of its clause.                     *)
BlockerInv == \A l \in Lits : \A w \in Listed(l) : w.blocker \in LitSet(lits[w.clause])

(* The watchers of deleted clauses are gone before a traversal begins.     *)
DirtyInv ==
  /\ \A l \in Lits : \A w \in Listed(l) : w.clause \in scheduled => l \in dirty
  /\ pc \in {"binaries", "long"} => dirty = {}

(* Clauses only exchange their literals.                                   *)
OriginInv == \A c \in Clauses : LitSet(lits[c]) \in {LitSet(f[k]) : f \in Formulas, k \in Clauses}

(* The solver registers no deleted clause, and modifies none.              *)
ClientInv == registered \cap scheduled = {} /\ announced = {}

PropagationIInv == QueueLevels /\ BlockerInv /\ DirtyInv /\ OriginInv /\ WitnessInv

----------------------------------------------------------------------------
LEMMA NegFacts ==
  ASSUME assignments \in [Vars -> {-1, 0, 1}], NEW l \in Lits
  PROVE  /\ Neg(l) \in Lits /\ Neg(Neg(l)) = l /\ Neg(l) # l
         /\ Value(Neg(l)) = -Value(l)
         /\ \A m \in Lits : VarOf(m) = VarOf(l) => m = l \/ m = Neg(l)
  <1>1. l \in Int /\ l # 0 /\ Neg(l) \in Lits /\ VarOf(l) \in Vars
    BY LitFacts DEF Lits
  <1>2. Neg(Neg(l)) = l /\ Neg(l) # l
    BY <1>1 DEF Neg
  <1>3. Value(Neg(l)) = -Value(l)
    <2>1. CASE l > 0
      BY <1>1, <2>1 DEF Value, Neg
    <2>2. CASE l < 0
      <3>1. -l > 0 /\ Value(Neg(l)) = assignments[-l] /\ Value(l) = -assignments[-l]
        BY <1>1, <2>2 DEF Value, Neg
      <3>2. -l \in Vars
        BY <1>1, <2>2, NumVarsAssumption DEF Lits, Vars
      <3>3. assignments[-l] \in {-1, 0, 1}
        BY <3>2
      <3> QED
        BY <3>1, <3>3
    <2> QED
      BY <1>1, <2>1, <2>2
  <1>4. ASSUME NEW m \in Lits, VarOf(m) = VarOf(l)
        PROVE  m = l \/ m = Neg(l)
    <2>1. m \in Int /\ m # 0
      BY DEF Lits
    <2> QED
      BY <1>1, <1>4, <2>1 DEF VarOf, Neg
  <1> QED
    BY <1>1, <1>2, <1>3, <1>4

(* What making a literal true changes.                                     *)
LEMMA AssignValues ==
  ASSUME TrailTypes, NEW l \in Lits, NEW r \in Clauses \cup {NoClause},
         Value(l) = 0, Assign(l, r)
  PROVE  /\ CurrentLevel' = CurrentLevel
         /\ Value(l)' = 1 /\ LevelOf(l)' = CurrentLevel
         /\ \A m \in Lits :
              IF VarOf(m) = VarOf(l)
                THEN /\ Value(m) = 0 /\ LevelOf(m)' = CurrentLevel
                     /\ m = l \/ (m = Neg(l) /\ Value(m)' = -1)
                ELSE Value(m)' = Value(m) /\ LevelOf(m)' = LevelOf(m)
  <1>1. /\ assignments \in [Vars -> {-1, 0, 1}] /\ level \in [Vars -> Nat]
        /\ assignments' = [assignments EXCEPT ![VarOf(l)] = SignOf(l)]
        /\ level' = [level EXCEPT ![VarOf(l)] = CurrentLevel]
        /\ VarOf(l) \in Vars /\ SignOf(l) \in {-1, 1}
        /\ CurrentLevel' = CurrentLevel
    BY LitFacts DEF TrailTypes, Assign, CurrentLevel
  <1>2. assignments' \in [Vars -> {-1, 0, 1}]
    BY <1>1
  <1>3. /\ assignments'[VarOf(l)] = SignOf(l) /\ level'[VarOf(l)] = CurrentLevel
        /\ \A v \in Vars : v # VarOf(l) => assignments'[v] = assignments[v] /\ level'[v] = level[v]
    BY <1>1
  <1>4. \A m \in Lits : /\ m \in Int /\ m # 0 /\ VarOf(m) \in Vars
                        /\ Value(m) = IF m > 0 THEN assignments[VarOf(m)] ELSE -assignments[VarOf(m)]
                        /\ Value(m)' = IF m > 0 THEN assignments'[VarOf(m)] ELSE -assignments'[VarOf(m)]
                        /\ SignOf(m) = IF m > 0 THEN 1 ELSE -1
    BY LitFacts DEF Lits, Value, VarOf, SignOf
  <1>5. ASSUME NEW m \in Lits, VarOf(m) # VarOf(l)
        PROVE  Value(m)' = Value(m) /\ LevelOf(m)' = LevelOf(m)
    BY <1>3, <1>4, <1>5 DEF LevelOf
  <1>6. ASSUME NEW m \in Lits, VarOf(m) = VarOf(l)
        PROVE  /\ Value(m) = 0 /\ LevelOf(m)' = CurrentLevel
               /\ m = l \/ (m = Neg(l) /\ Value(m)' = -1)
    <2>1. assignments[VarOf(l)] = 0
      BY <1>1, ValueFacts
    <2>2. Value(m) = 0 /\ LevelOf(m)' = CurrentLevel
      BY <1>3, <1>4, <1>6, <2>1 DEF LevelOf
    <2>3. m = l \/ m = Neg(l)
      BY <1>1, <1>6, NegFacts
    <2>4. ASSUME m = Neg(l), m # l
          PROVE  Value(m)' = -1
      <3>1. m = -l /\ l \in Int /\ l # 0
        BY <1>4, <2>4 DEF Neg
      <3>2. Value(m)' = IF m > 0 THEN SignOf(l) ELSE -SignOf(l)
        BY <1>3, <1>4, <1>6
      <3> QED
        BY <1>4, <3>1, <3>2
    <2> QED
      BY <2>2, <2>3, <2>4
  <1>7. Value(l)' = 1
    BY <1>3, <1>4
  <1> QED
    BY <1>1, <1>3, <1>5, <1>6, <1>7 DEF LevelOf

----------------------------------------------------------------------------
(* WitnessInv, step by step.                                               *)

(* A call that makes l true: clauses that watch ~l are pending.            *)
LEMMA CallWitness ==
  ASSUME TrailIInv, WitnessInv, Idle,
         NEW l \in Lits, NEW r \in Clauses \cup {NoClause}, NEW up \in {"include", "exclude"},
         Value(l) = 0, Assign(l, r), StartPropagation(l, up), lits' = lits,
         \/ registered' = registered
         \/ /\ registered' = registered \cup {r} /\ r \in Clauses
            /\ lits[r][1] = l
            /\ LevelOf(lits[r][2]) = CurrentLevel
            /\ Value(lits[r][2]) = -1
  PROVE  WitnessInv'
  <1>1. /\ ClauseTypes /\ TrailTypes /\ CallTypes
        /\ registered \subseteq Clauses /\ registered' \subseteq Clauses
        /\ pc' = "cleanup" /\ cur' = l
        /\ pc = "idle" /\ conflict = NoClause
        /\ CurrentLevel \in Nat
    BY LenProperties DEF TrailIInv, TypeOK, ClauseTypes, StartPropagation, Idle, TrailTypes, CurrentLevel
  <1>2. /\ CurrentLevel' = CurrentLevel
        /\ Value(l)' = 1 /\ LevelOf(l)' = CurrentLevel
        /\ \A m \in Lits :
             IF VarOf(m) = VarOf(l)
               THEN /\ Value(m) = 0 /\ LevelOf(m)' = CurrentLevel
                    /\ m = l \/ (m = Neg(l) /\ Value(m)' = -1)
               ELSE Value(m)' = Value(m) /\ LevelOf(m)' = LevelOf(m)
    BY <1>1, AssignValues
  <1> SUFFICES ASSUME NEW c \in registered', NEW i \in {1, 2}, NEW m, m = lits[c][i],
                      Value(m)' = -1
               PROVE  Excused(c, i)'
    BY DEF WitnessInv
  <1>3. c \in Clauses /\ m \in Lits
    BY <1>1, WatcherForType
  <1>4. CASE VarOf(m) = VarOf(l)
    <2>1. LevelOf(m)' = CurrentLevel /\ m = Neg(l)
      BY <1>2, <1>3, <1>4
    <2>2. Neg(m) = l
      BY <1>1, <2>1, NegFacts DEF TrailTypes
    <2>3. Pending(c, i)'
      BY <1>1, <2>2 DEF Pending, InTraversal
    <2> QED
      BY <1>2, <2>1, <2>3 DEF Excused
  <1>5. CASE VarOf(m) # VarOf(l)
    <2>1. Value(m) = -1 /\ LevelOf(m)' = LevelOf(m)
      BY <1>2, <1>3, <1>5
    <2>2. CASE c \in registered
      <3>1. Witnessed(c, m)
        BY <1>1, <2>1, <2>2 DEF WitnessInv, Excused, Pending
      <3>2. PICK j \in 1 .. Len(lits[c]) :
              Value(lits[c][j]) = 1 /\ LevelOf(lits[c][j]) <= LevelOf(m)
        BY <3>1 DEF Witnessed
      <3>3. lits[c][j] \in Lits
        BY <1>1, <1>3, ClauseFacts
      <3>4. Value(lits[c][j])' = 1 /\ LevelOf(lits[c][j])' = LevelOf(lits[c][j])
        <4>1. \A x \in Lits : Value(x) = 1 => Value(x)' = 1 /\ LevelOf(x)' = LevelOf(x)
          BY <1>2
        <4>2. Value(lits[c][j]) = 1 => Value(lits[c][j])' = 1 /\ LevelOf(lits[c][j])' = LevelOf(lits[c][j])
          BY <3>3, <4>1
        <4> QED
          BY <3>2, <4>2
      <3>5. Witnessed(c, m)'
        BY <2>1, <3>2, <3>4 DEF Witnessed
      <3> QED
        BY <3>5 DEF Excused
    <2>3. CASE c \notin registered
      <3>1. c = r /\ lits[c][1] = l /\ LevelOf(lits[r][2]) = CurrentLevel
        BY <2>3
      <3>2. i = 2
        BY <1>5, <3>1
      <3>3. LevelOf(m)' = CurrentLevel
        BY <2>1, <3>1, <3>2
      <3>4. 1 \in 1 .. Len(lits[c]) /\ CurrentLevel <= CurrentLevel
        BY <1>1, <1>3, ClauseFacts
      <3>5. Witnessed(c, m)'
        BY <1>2, <3>1, <3>3, <3>4 DEF Witnessed
      <3> QED
        BY <3>5 DEF Excused
    <2> QED
      BY <2>2, <2>3
  <1> QED
    BY <1>4, <1>5

(* The visit of a watcher that leaves it where it is: its clause is        *)
(* satisfied afterwards.                                                   *)
LEMMA VisitWitness ==
  ASSUME TrailIInv, QueueLevels, WitnessInv, pc # "idle", conflict = NoClause,
         NEW w \in todo,
         UNCHANGED <<lits, registered, watchers, pc, cur, qhead, conflict>>,
         todo' = todo \ {w},
         CurrentLevel' = CurrentLevel,
         \A m \in Lits : Value(m) # 0 => Value(m)' = Value(m) /\ LevelOf(m)' = LevelOf(m),
         \A m \in Lits : Value(m) = 0 /\ Value(m)' = -1 =>
                           LevelOf(m)' = CurrentLevel /\ InQueue(Neg(m))',
         \A m \in Lits : InQueue(m) => InQueue(m)',
         \E j \in 1 .. Len(lits[w.clause]) :
           Value(lits[w.clause][j])' = 1 /\ LevelOf(lits[w.clause][j])' <= CurrentLevel
  PROVE  WitnessInv'
  <1>1. /\ ClauseTypes /\ TrailTypes /\ CallTypes /\ registered \subseteq Clauses
        /\ \A x \in Lits : Value(x) \in {-1, 0, 1} /\ Neg(x) \in Lits
        /\ \A x \in Lits : (Value(x) # 0 => Value(x)' = Value(x) /\ LevelOf(x)' = LevelOf(x))
    BY ValueFacts, LitFacts DEF TrailIInv, TypeOK, ClauseTypes, TrailTypes
  <1> SUFFICES ASSUME NEW c \in registered, NEW i \in {1, 2}, NEW m, m = lits[c][i],
                      Value(m)' = -1
               PROVE  Excused(c, i)'
    BY DEF WitnessInv
  <1>3. c \in Clauses /\ m \in Lits
    BY <1>1, WatcherForType
  <1>4. CASE Value(m) = 0
    <2>1. LevelOf(m)' = CurrentLevel /\ InQueue(Neg(m))'
      BY <1>3, <1>4
    <2> QED
      BY <2>1 DEF Excused, Pending
  <1>5. CASE Value(m) # 0
    <2>1. Value(m) = -1 /\ LevelOf(m)' = LevelOf(m)
      BY <1>1, <1>3, <1>5
    <2>2. CASE Witnessed(c, m)
      <3>2. PICK j \in 1 .. Len(lits[c]) :
              Value(lits[c][j]) = 1 /\ LevelOf(lits[c][j]) <= LevelOf(m)
        BY <2>2 DEF Witnessed
      <3>3. lits[c][j] \in Lits
        BY <1>1, <1>3, ClauseFacts
      <3>4. Value(lits[c][j]) # 0 => Value(lits[c][j])' = Value(lits[c][j]) /\ LevelOf(lits[c][j])' = LevelOf(lits[c][j])
        BY <1>1, <3>3
      <3>5. Witnessed(c, m)'
        BY <2>1, <3>2, <3>4 DEF Witnessed
      <3> QED
        BY <3>5 DEF Excused
    <2>3. CASE ~Witnessed(c, m)
      <3>1. LevelOf(m) = CurrentLevel /\ Pending(c, i)
        BY <2>1, <2>3 DEF WitnessInv, Excused
      <3>2. CASE InQueue(Neg(m))
        <4>1. InQueue(Neg(m))'
          BY <1>1, <1>3, <3>2
        <4> QED
          BY <2>1, <3>1, <4>1 DEF Excused, Pending
      <3>3. CASE InTraversal(c, i) /\ ~(w.clause = c /\ w.idx = i)
        <4>1. (\E x \in todo : x.clause = c /\ x.idx = i) => \E x \in todo' : x.clause = c /\ x.idx = i
          BY <3>3
        <4>2. InTraversal(c, i)'
          BY <3>3, <4>1 DEF InTraversal
        <4> QED
          BY <2>1, <3>1, <4>2 DEF Excused, Pending
      <3>4. CASE w.clause = c /\ w.idx = i
        <4>1. Witnessed(c, m)'
          BY <2>1, <3>1, <3>4 DEF Witnessed
        <4> QED
          BY <4>1 DEF Excused
      <3> QED
        BY <3>1, <3>2, <3>3, <3>4 DEF Pending
    <2> QED
      BY <2>2, <2>3
  <1> QED
    BY <1>4, <1>5

(* Exchanging literals keeps the set of them.                              *)
LEMMA SwapLitSet ==
  ASSUME NEW c, IsClause(c), NEW i \in 1 .. Len(c), NEW j \in 1 .. Len(c)
  PROVE  /\ LitSet(SwapAt(c, i, j)) = LitSet(c)
         /\ Len(SwapAt(c, i, j)) = Len(c)
         /\ \A k \in 1 .. Len(c) :
              SwapAt(c, i, j)[k] = IF k = j THEN c[i] ELSE IF k = i THEN c[j] ELSE c[k]
  <1>1. c \in Seq(Lits) /\ Len(c) \in Nat
    BY LenProperties DEF IsClause
  <1>2. DOMAIN c = 1 .. Len(c)
    BY <1>1
  <1>3. \A k \in 1 .. Len(c) :
              SwapAt(c, i, j)[k] = IF k = j THEN c[i] ELSE IF k = i THEN c[j] ELSE c[k]
    BY <1>2 DEF SwapAt
  <1>4. Len(SwapAt(c, i, j)) = Len(c)
    BY SwapKeepsClause
  <1> DEFINE d == SwapAt(c, i, j)
  <1> HIDE DEF d
  <1>5. LitSet(d) = {d[k] : k \in 1 .. Len(c)}
    BY <1>4 DEF LitSet, d
  <1>6. \A k \in 1 .. Len(c) : \E n \in 1 .. Len(c) : d[k] = c[n]
    BY <1>3 DEF d
  <1>7. \A k \in 1 .. Len(c) : \E n \in 1 .. Len(c) : d[n] = c[k]
    <2> TAKE k \in 1 .. Len(c)
    <2>1. CASE k = i
      BY <1>3, <2>1 DEF d
    <2>2. CASE k = j
      BY <1>3, <2>2 DEF d
    <2>3. CASE k # i /\ k # j
      BY <1>3, <2>3 DEF d
    <2> QED
      BY <2>1, <2>2, <2>3
  <1>8. LitSet(d) = LitSet(c)
    <2>1. LitSet(c) = {c[k] : k \in 1 .. Len(c)}
      BY DEF LitSet
    <2>2. LitSet(d) \subseteq LitSet(c)
      BY <1>5, <1>6, <2>1
    <2>3. LitSet(c) \subseteq LitSet(d)
      BY <1>5, <1>7, <2>1
    <2> QED
      BY <2>2, <2>3
  <1> QED
    BY <1>3, <1>4, <1>8 DEF d

(* A move of a watcher: the new watched literal is not false, and the      *)
(* other one is excused as it was.                                         *)
LEMMA MoveWitness ==
  ASSUME TrailIInv, WatchIInv, QueueLevels, WitnessInv, NEW w \in todo, MoveWatcher(w)
  PROVE  /\ WitnessInv'
         /\ lits' \in [Clauses -> Seq(Lits)]
         /\ \A c \in Clauses : LitSet(lits'[c]) = LitSet(lits[c])
  <1>1. /\ ClauseTypes /\ TrailTypes /\ CallTypes /\ registered \subseteq Clauses
        /\ w.clause \in Clauses /\ w.idx \in {1, 2} /\ conflict = NoClause
        /\ pc = "long" /\ Neg(cur) \in Lits /\ w \in watchers[Neg(cur)] /\ lits[w.clause][w.idx] = Neg(cur)
    <2>1. ClauseTypes /\ TrailTypes /\ CallTypes /\ pc = "long"
      BY DEF TrailIInv, TypeOK, MoveWatcher, Examined, Visiting
    <2>2. Neg(cur) \in Lits
      BY <2>1, CurTrue
    <2>3. w \in watchers[Neg(cur)] /\ conflict = NoClause
      BY <2>1 DEF WatchIInv, TodoInv
    <2>4. lits[w.clause][w.idx] = Neg(cur)
      BY <2>1, <2>2, <2>3, TraversalPlaced
    <2> QED
      BY <2>1, <2>2, <2>3, <2>4 DEF CallTypes, ClauseTypes, Watcher
  <1>2. PICK k \in 3 .. Len(lits[w.clause]) :
          /\ IsNewWatch(w.clause, k)
          /\ lits' = [lits EXCEPT ![w.clause] = SwapAt(@, w.idx, k)]
    BY DEF MoveWatcher
  <1>3. /\ UNCHANGED <<registered, pc, cur, qhead, qend, conflict, assignments, level, levelLimits, trail>>
        /\ todo' = todo \ {w}
    BY DEF MoveWatcher, trailVars
  <1>4. /\ IsClause(lits[w.clause]) /\ Len(lits[w.clause]) \in Nat
        /\ w.idx \in 1 .. Len(lits[w.clause]) /\ k \in 1 .. Len(lits[w.clause]) /\ k \notin {1, 2}
    BY <1>1, <1>2, ClauseFacts
  <1>5. /\ LitSet(lits'[w.clause]) = LitSet(lits[w.clause])
        /\ Len(lits'[w.clause]) = Len(lits[w.clause])
        /\ IsClause(lits'[w.clause])
        /\ \A n \in 1 .. Len(lits[w.clause]) : lits'[w.clause][n] =
             IF n = k THEN lits[w.clause][w.idx] ELSE IF n = w.idx THEN lits[w.clause][k] ELSE lits[w.clause][n]
        /\ \A c \in Clauses : c # w.clause => lits'[c] = lits[c]
    <2>1. lits \in [Clauses -> Seq(Lits)]
      BY <1>1 DEF ClauseTypes
    <2>2. /\ lits'[w.clause] = SwapAt(lits[w.clause], w.idx, k)
          /\ \A c \in Clauses : c # w.clause => lits'[c] = lits[c]
      BY <1>1, <1>2, <2>1
    <2> DEFINE d == SwapAt(lits[w.clause], w.idx, k)
    <2>3. IsClause(d)
      BY <1>4, SwapKeepsClause
    <2>4. /\ LitSet(d) = LitSet(lits[w.clause])
          /\ Len(d) = Len(lits[w.clause])
          /\ \A n \in 1 .. Len(lits[w.clause]) : d[n] =
               IF n = k THEN lits[w.clause][w.idx] ELSE IF n = w.idx THEN lits[w.clause][k] ELSE lits[w.clause][n]
      BY <1>4, SwapLitSet
    <2>5. lits'[w.clause] = d
      BY <2>2
    <2> HIDE DEF d
    <2> QED
      BY <2>2, <2>3, <2>4, <2>5
  <1>6. /\ lits' \in [Clauses -> Seq(Lits)]
        /\ \A c \in Clauses : LitSet(lits'[c]) = LitSet(lits[c])
    <2>1. \A c \in Clauses : LitSet(lits'[c]) = LitSet(lits[c])
      BY <1>5
    <2>2. lits'[w.clause] \in Seq(Lits)
      BY <1>5 DEF IsClause
    <2> QED
      BY <1>1, <1>2, <2>1, <2>2 DEF ClauseTypes, IsClause
  (* Being witnessed depends on the set of literals alone.                 *)
  <1>7. ASSUME NEW c \in Clauses, NEW m, Witnessed(c, m)
        PROVE  Witnessed(c, m)'
    <2>1. PICK j \in 1 .. Len(lits[c]) : Value(lits[c][j]) = 1 /\ LevelOf(lits[c][j]) <= LevelOf(m)
      BY <1>7 DEF Witnessed
    <2>2. lits[c][j] \in LitSet(lits'[c])
      <3>1. lits[c][j] \in LitSet(lits[c])
        BY DEF LitSet
      <3> QED
        BY <1>6, <3>1
    <2>3. PICK n \in 1 .. Len(lits'[c]) : lits'[c][n] = lits[c][j]
      BY <2>2 DEF LitSet
    <2>4. Value(lits[c][n])' = 1 /\ LevelOf(lits[c][n])' <= LevelOf(m)'
      BY <1>3, <2>1, <2>3 DEF Value, LevelOf
    <2> QED
      BY <2>4 DEF Witnessed
  <1>8. WitnessInv'
    <2> SUFFICES ASSUME NEW c \in registered, NEW i \in {1, 2}, NEW m, m = lits'[c][i],
                        Value(m) = -1
                 PROVE  Excused(c, i)'
      BY <1>3 DEF WitnessInv, Value
    <2>1. c \in Clauses
      BY <1>1
    <2>2. ~(c = w.clause /\ i = w.idx)
      <3>1. ASSUME c = w.clause, i = w.idx PROVE FALSE
        <4>1. m = lits[w.clause][k]
          BY <1>4, <1>5, <3>1
        <4> QED
          BY <1>2, <4>1 DEF IsNewWatch
      <3> QED
        BY <3>1
    <2>3. lits'[c][i] = lits[c][i]
      <3>1. i \in 1 .. Len(lits[w.clause])
        BY <1>1, ClauseFacts
      <3> QED
        BY <1>4, <1>5, <2>1, <2>2, <3>1
    <2>4. Excused(c, i)
      BY <2>3 DEF WitnessInv
    <2>5. CASE Witnessed(c, lits[c][i])
      BY <1>7, <2>1, <2>3, <2>5 DEF Excused
    <2>6. CASE LevelOf(m) = CurrentLevel /\ Pending(c, i)
      <3>1. LevelOf(m)' = CurrentLevel'
        BY <1>3, <2>6 DEF LevelOf, CurrentLevel
      <3>2. CASE InQueue(Neg(m))
        <4>1. InQueue(Neg(m))'
          BY <1>3, <3>2 DEF InQueue
        <4> QED
          BY <1>1, <1>3, <3>1, <4>1 DEF Excused, Pending
      <3>3. CASE InTraversal(c, i)
        <4>1. PICK x \in todo : x.clause = c /\ x.idx = i
          BY <1>1, <3>3 DEF InTraversal
        <4>2. x \in todo'
          BY <1>3, <2>2, <4>1
        <4>3. InTraversal(c, i)'
          BY <1>3, <2>3, <3>3, <4>1, <4>2 DEF InTraversal
        <4> QED
          BY <1>1, <1>3, <3>1, <4>3 DEF Excused, Pending
      <3> QED
        BY <2>3, <2>6, <3>2, <3>3 DEF Pending
    <2> QED
      BY <1>1, <2>3, <2>4, <2>5, <2>6 DEF Excused
  <1> QED
    BY <1>6, <1>8

(* From one part of a traversal to the next: what was pending still is.    *)
LEMMA TraversalWitness ==
  ASSUME TrailIInv, WatchIInv, ClientInv, WitnessInv, CleanupDone \/ BinariesDone \/ NextLiteral
  PROVE  WitnessInv'
  <1>1. /\ ClauseTypes /\ TrailTypes /\ CallTypes /\ QueueInv /\ registered \subseteq Clauses
        /\ UNCHANGED <<lits, registered, assignments, level, levelLimits, trail, qend, conflict, watchers, binWatchers>>
        /\ conflict = NoClause /\ pc # "idle" /\ pc' # "idle"
    BY DEF TrailIInv, TypeOK, ClauseTypes, CleanupDone, BinariesDone, NextLiteral, WatchIInv, TodoInv,
           clauseVars, trailVars, watcherVars
  <1>1a. \A l \in Lits : \A w \in watchers[l] \cup binWatchers[l] : lits[w.clause][w.idx] = l
    <2>1. CASE CleanupDone
      <3>1. dirty = {}
        BY <2>1 DEF CleanupDone
      <3> QED
        BY <3>1 DEF WatchIInv, PlacedInv, PlacementInv, Listed
    <2>2. CASE BinariesDone \/ NextLiteral
      <3>1. pc \in {"binaries", "long"}
        BY <2>2 DEF BinariesDone, NextLiteral
      <3> QED
        BY <3>1, TraversalPlaced
    <2> QED
      BY <2>1, <2>2
  <1> SUFFICES ASSUME NEW c \in registered, NEW i \in {1, 2}, NEW m, m = lits[c][i],
                      Value(m) = -1, LevelOf(m) = CurrentLevel, Pending(c, i)
               PROVE  Pending(c, i)'
    <2>1. SUFFICES ASSUME NEW c \in registered, NEW i \in {1, 2}, Value(lits[c][i]) = -1
                   PROVE  Excused(c, i)'
      BY <1>1 DEF WitnessInv, Value
    <2>2. Excused(c, i)
      BY <2>1 DEF WitnessInv
    <2>3. Witnessed(c, lits[c][i]) => Witnessed(c, lits[c][i])'
      BY <1>1 DEF Witnessed, Value, LevelOf
    <2>4. LevelOf(lits[c][i]) = CurrentLevel => (LevelOf(lits[c][i]) = CurrentLevel)'
      BY <1>1 DEF LevelOf, CurrentLevel
    <2> QED
      BY <1>1, <2>1, <2>2, <2>3, <2>4 DEF Excused
  <1>2. c \in Clauses /\ m \in Lits
    BY <1>1, WatcherForType
  <1>3. PICK x \in Listed(m) : x.clause = c /\ x.idx = i
    <2>1. c \in registered \ scheduled
      BY DEF ClientInv
    <2>2. PICK l \in Lits : \E w \in Listed(l) : w.clause = c /\ w.idx = i
      BY <2>1 DEF WatchIInv, PlacedInv, ExistenceInv
    <2>3. PICK w \in Listed(l) : w.clause = c /\ w.idx = i
      BY <2>2
    <2>4. lits[c][i] = l
      BY <1>1a, <2>3 DEF Listed
    <2> QED
      BY <2>3, <2>4
  <1>4. \A l \in Lits : Neg(Neg(l)) = l
    BY <1>1, NegFacts DEF TrailTypes
  <1>5. ASSUME CleanupDone
        PROVE  Pending(c, i)'
    <2>1. /\ pc = "cleanup" /\ pc' = "binaries" /\ todo' = binWatchers[Neg(cur)]
          /\ UNCHANGED <<cur, qhead>>
      BY <1>5 DEF CleanupDone
    <2>2. CASE InQueue(Neg(m))
      BY <1>1, <2>1, <2>2 DEF Pending, InQueue
    <2>3. CASE InTraversal(c, i)
      <3>1. cur = Neg(m) /\ Neg(cur) = m
        BY <1>2, <1>4, <2>3 DEF InTraversal
      <3>2. x \in binWatchers[Neg(cur)] \/ x \in watchers[Neg(cur)]
        BY <1>3, <3>1 DEF Listed
      <3>3. InTraversal(c, i)'
        BY <1>1, <1>3, <2>1, <3>1, <3>2 DEF InTraversal
      <3> QED
        BY <1>1, <3>3 DEF Pending
    <2> QED
      BY <2>2, <2>3 DEF Pending
  <1>6. ASSUME BinariesDone
        PROVE  Pending(c, i)'
    <2>1. /\ pc = "binaries" /\ pc' = "long" /\ todo = {} /\ todo' = watchers[Neg(cur)]
          /\ UNCHANGED <<cur, qhead>>
      BY <1>6 DEF BinariesDone
    <2>2. CASE InQueue(Neg(m))
      BY <1>1, <2>1, <2>2 DEF Pending, InQueue
    <2>3. CASE InTraversal(c, i)
      <3>3. InTraversal(c, i)'
        BY <1>1, <2>1, <2>3 DEF InTraversal
      <3> QED
        BY <1>1, <3>3 DEF Pending
    <2> QED
      BY <2>2, <2>3 DEF Pending
  <1>7. ASSUME NextLiteral
        PROVE  Pending(c, i)'
    <2>1. /\ pc = "long" /\ pc' = "binaries" /\ todo = {} /\ qhead' = qhead + 1
          /\ cur' = trail[qhead + 1] /\ todo' = binWatchers[Neg(cur')]
      BY <1>7 DEF NextLiteral
    <2>2. ~InTraversal(c, i)
      BY <2>1 DEF InTraversal
    <2>3. PICK p \in qhead + 1 .. qend : trail[p] = Neg(m)
      BY <2>2 DEF Pending, InQueue
    <2>4. CASE p = qhead + 1
      <3>1. cur' = Neg(m) /\ Neg(cur') = m
        BY <1>2, <1>4, <2>1, <2>3, <2>4
      <3>2. x \in binWatchers[Neg(cur')] \/ x \in watchers[Neg(cur')]
        BY <1>3, <3>1 DEF Listed
      <3>3. InTraversal(c, i)'
        BY <1>1, <1>3, <2>1, <3>1, <3>2 DEF InTraversal
      <3> QED
        BY <1>1, <3>3 DEF Pending
    <2>5. CASE p # qhead + 1
      <3>1. qhead \in Nat /\ qend \in Nat
        BY <1>1 DEF CallTypes
      <3>2. p \in qhead' + 1 .. qend
        BY <2>1, <2>3, <2>5, <3>1
      <3>3. InQueue(Neg(m))'
        BY <1>1, <2>3, <3>2 DEF InQueue
      <3> QED
        BY <1>1, <3>3 DEF Pending
    <2> QED
      BY <2>4, <2>5
  <1> QED
    BY <1>5, <1>6, <1>7

(* Backtracking: a literal that stays false has a witness that stays true. *)
LEMMA UndoWitness ==
  ASSUME TrailIInv, WitnessInv, NEW k \in 0 .. CurrentLevel, UndoToLevel(k)
  PROVE  WitnessInv'
  <1>1. /\ ClauseTypes /\ TrailTypes /\ TrailInv /\ registered \subseteq Clauses
        /\ UNCHANGED <<lits, registered, level>>
        /\ levelLimits \in Seq(Nat) /\ Len(levelLimits) \in Nat /\ Len(trail) \in Nat
        /\ CurrentLevel = Len(levelLimits) - 1
    BY LenProperties DEF TrailIInv, TypeOK, ClauseTypes, UndoToLevel, clauseVars, TrailTypes, CurrentLevel
  <1>2. k \in Nat /\ k < CurrentLevel /\ k + 2 \in 1 .. Len(levelLimits)
    BY <1>1 DEF UndoToLevel
  <1> DEFINE n      == levelLimits[k + 2]
             popped == {VarOf(trail[i]) : i \in n + 1 .. Len(trail)}
  <1>3. n \in Nat /\ n <= Len(trail)
    BY <1>1, <1>2, ElementOfSeq DEF TrailInv, LevelsMatchTrail
  <1>4. /\ assignments \in [Vars -> {-1, 0, 1}]
        /\ assignments' = [v \in Vars |-> IF v \in popped THEN 0 ELSE assignments[v]]
    BY <1>1 DEF UndoToLevel, PopTrailTo, TrailTypes
  <1>5. /\ \A i \in 1 .. Len(trail) : trail[i] \in Lits
        /\ \A i \in 1 .. Len(trail) : n < i <=> level[VarOf(trail[i])] >= k + 1
        /\ \A v \in Vars : assignments[v] # 0 => \E i \in 1 .. Len(trail) : VarOf(trail[i]) = v
    <2>1. \A i \in 1 .. Len(trail) : levelLimits[k + 2] < i <=> level[VarOf(trail[i])] >= (k + 2) - 1
      BY <1>1, <1>2 DEF TrailInv, LevelsMatchTrail
    <2>2. (k + 2) - 1 = k + 1
      BY <1>2
    <2> QED
      BY <1>1, <2>1, <2>2, ElementOfSeq DEF TrailInv, TrailMatchesAssignments, TrailTypes
  <1>6. ASSUME NEW v \in Vars, assignments[v] # 0
        PROVE  v \in popped <=> level[v] > k
    <2>1. PICK i \in 1 .. Len(trail) : VarOf(trail[i]) = v
      BY <1>5, <1>6
    <2>2. level[v] \in Nat
      BY <1>1 DEF TrailTypes
    <2>3. n < i <=> level[v] > k
      BY <1>2, <1>5, <2>1, <2>2
    <2>4. \A j \in 1 .. Len(trail) : VarOf(trail[j]) = v => j = i
      BY <1>1, <2>1 DEF TrailInv, TrailMatchesAssignments
    <2>5. v \in popped <=> n < i
      <3>1. ASSUME n < i PROVE v \in popped
        BY <1>1, <1>3, <2>1, <3>1
      <3>2. ASSUME v \in popped PROVE n < i
        <4>1. PICK j \in n + 1 .. Len(trail) : VarOf(trail[j]) = v
          BY <3>2
        <4>2. j = i
          BY <1>1, <1>3, <2>4, <4>1
        <4> QED
          BY <1>1, <1>3, <4>1, <4>2
      <3> QED
        BY <3>1, <3>2
    <2> QED
      BY <2>3, <2>5
  <1> HIDE DEF popped
  <1>7. ASSUME NEW m \in Lits
        PROVE  /\ Value(m)' # 0 => Value(m)' = Value(m) /\ Value(m) # 0 /\ LevelOf(m) <= k
               /\ Value(m) # 0 /\ LevelOf(m) <= k => Value(m)' = Value(m)
               /\ LevelOf(m)' = LevelOf(m)
    <2>1. /\ m \in Int /\ m # 0 /\ VarOf(m) \in Vars
          /\ Value(m) = IF m > 0 THEN assignments[VarOf(m)] ELSE -assignments[VarOf(m)]
          /\ Value(m)' = IF m > 0 THEN assignments'[VarOf(m)] ELSE -assignments'[VarOf(m)]
      BY LitFacts DEF Lits, Value, VarOf
    <2>2. /\ assignments[VarOf(m)] \in {-1, 0, 1}
          /\ assignments'[VarOf(m)] = IF VarOf(m) \in popped THEN 0 ELSE assignments[VarOf(m)]
      BY <1>4, <2>1
    <2>3. level[VarOf(m)] \in Nat
      BY <1>1, <2>1 DEF TrailTypes
    <2>4. assignments[VarOf(m)] # 0 => (VarOf(m) \in popped <=> level[VarOf(m)] > k)
      BY <1>6, <2>1
    <2> DEFINE a == assignments[VarOf(m)]
               b == assignments'[VarOf(m)]
               x == level[VarOf(m)]
    <2>5. /\ a \in {-1, 0, 1} /\ b = IF VarOf(m) \in popped THEN 0 ELSE a
          /\ x \in Nat /\ (a # 0 => (VarOf(m) \in popped <=> x > k))
          /\ Value(m) = (IF m > 0 THEN a ELSE -a) /\ Value(m)' = IF m > 0 THEN b ELSE -b
          /\ LevelOf(m) = x /\ LevelOf(m)' = x
      BY <1>1, <2>1, <2>2, <2>3, <2>4 DEF LevelOf
    <2> HIDE DEF a, b, x
    <2>6. b # 0 => b = a /\ x <= k
      BY <1>2, <2>5
    <2>7. a # 0 /\ x <= k => b = a
      BY <1>2, <2>5
    <2>8. a \in {-1, 0, 1} /\ b \in {-1, 0, 1}
      BY <2>5
    <2>9. (Value(m) # 0 <=> a # 0) /\ (Value(m)' # 0 <=> b # 0) /\ (a = b => Value(m)' = Value(m))
      <3>1. CASE m > 0
        BY <2>5, <2>8, <3>1
      <3>2. CASE ~(m > 0)
        <4>1. Value(m) = -a /\ Value(m)' = -b
          BY <2>5, <3>2
        <4> QED
          BY <2>8, <4>1
      <3> QED
        BY <3>1, <3>2
    <2>10. b # 0 => a # 0 /\ a = b /\ x <= k
      BY <2>6
    <2> QED
      BY <2>5, <2>7, <2>9, <2>10
  <1> SUFFICES ASSUME NEW c \in registered, NEW i \in {1, 2}, NEW m, m = lits[c][i],
                      Value(m)' = -1
               PROVE  Excused(c, i)'
    BY <1>1 DEF WitnessInv
  <1>8. c \in Clauses /\ m \in Lits
    BY <1>1, WatcherForType
  <1>9. Value(m) = -1 /\ LevelOf(m) <= k /\ LevelOf(m) \in Nat /\ LevelOf(m)' = LevelOf(m)
    BY <1>1, <1>7, <1>8, LitFacts DEF TrailTypes, LevelOf
  <1>10. LevelOf(m) # CurrentLevel
    BY <1>1, <1>2, <1>9
  <1>11. Witnessed(c, m)
    BY <1>9, <1>10 DEF WitnessInv, Excused
  <1>12. PICK j \in 1 .. Len(lits[c]) : Value(lits[c][j]) = 1 /\ LevelOf(lits[c][j]) <= LevelOf(m)
    BY <1>11 DEF Witnessed
  <1>13. lits[c][j] \in Lits
    BY <1>1, <1>8, ClauseFacts
  <1>14. LevelOf(lits[c][j]) \in Nat
    BY <1>1, <1>13, LitFacts DEF TrailTypes, LevelOf
  <1>15. Value(lits[c][j])' = 1 /\ LevelOf(lits[c][j])' = LevelOf(lits[c][j])
    <2>1. LevelOf(lits[c][j]) <= k
      BY <1>2, <1>9, <1>12, <1>14
    <2>2. \A x \in Lits : Value(x) # 0 /\ LevelOf(x) <= k => Value(x)' = Value(x)
      BY <1>7
    <2>3. \A x \in Lits : LevelOf(x)' = LevelOf(x)
      BY <1>7
    <2>4. Value(lits[c][j]) # 0 /\ LevelOf(lits[c][j]) <= k => Value(lits[c][j])' = Value(lits[c][j])
      BY <1>1, <1>13, <2>2
    <2>5. LevelOf(lits[c][j])' = LevelOf(lits[c][j])
      BY <1>1, <1>13, <2>3
    <2> QED
      BY <1>12, <2>1, <2>4, <2>5
  <1> QED
    BY <1>1, <1>9, <1>12, <1>15 DEF Excused, Witnessed

(* When nothing is assigned, no watched literal is false.                  *)
LEMMA EmptyWitness ==
  TrailTypes /\ TrailMatchesAssignments /\ ClauseTypes /\ trail = <<>> => WitnessInv
  <1> SUFFICES ASSUME TrailTypes, TrailMatchesAssignments, ClauseTypes, trail = <<>>,
                      NEW c \in registered, NEW i \in {1, 2}
               PROVE  Value(lits[c][i]) # -1
    BY DEF WitnessInv
  <1>1. c \in Clauses /\ lits[c][i] \in Lits
    BY WatcherForType DEF ClauseTypes
  <1>2. assignments \in [Vars -> {-1, 0, 1}] /\ \A v \in Vars : assignments[v] = 0
    BY DEF TrailTypes, TrailMatchesAssignments
  <1> QED
    BY <1>1, <1>2, ValueFacts, LitFacts

(* The other steps.                                                        *)
LEMMA FrameWitness ==
  ASSUME WitnessInv, UNCHANGED <<lits, registered, assignments, level, trail, todo, cur, qhead, qend>>,
         \/ UNCHANGED <<levelLimits, conflict, pc, watchers>>
         \/ UNCHANGED <<levelLimits, conflict, pc>> /\ pc = "cleanup"
         \/ pc = "idle" /\ conflict = NoClause /\ UNCHANGED <<pc, conflict>>
  PROVE  WitnessInv'
  <1> SUFFICES ASSUME NEW c \in registered, NEW i \in {1, 2}, Value(lits[c][i]) = -1
               PROVE  Excused(c, i)'
    BY DEF WitnessInv, Value
  <1>1. Excused(c, i)
    BY DEF WitnessInv
  <1>2. Witnessed(c, lits[c][i]) => Witnessed(c, lits[c][i])'
    BY DEF Witnessed, Value, LevelOf
  <1>3. CASE UNCHANGED <<levelLimits, conflict, pc, watchers>>
    BY <1>1, <1>2, <1>3 DEF Excused, LevelOf, CurrentLevel, Pending, InQueue, InTraversal
  <1>4. CASE UNCHANGED <<levelLimits, conflict, pc>> /\ pc = "cleanup"
    BY <1>1, <1>2, <1>4 DEF Excused, LevelOf, CurrentLevel, Pending, InQueue, InTraversal
  <1>5. CASE pc = "idle" /\ conflict = NoClause /\ UNCHANGED <<pc, conflict>>
    BY <1>1, <1>2, <1>5 DEF Excused, Pending
  <1> QED
    BY <1>3, <1>4, <1>5

(* A call ends with a conflict, or with nothing pending.                   *)
LEMMA ReturnWitness ==
  ASSUME WitnessInv, qhead \in Nat, UNCHANGED <<lits, registered, trailVars>>,
         NEW r, Return(r), r # NoClause \/ (conflict = NoClause /\ FixpointReached)
  PROVE  WitnessInv'
  <1> SUFFICES ASSUME NEW c \in registered, NEW i \in {1, 2}, Value(lits[c][i]) = -1
               PROVE  Excused(c, i)'
    BY DEF WitnessInv, Value, trailVars
  <1>1. Excused(c, i)
    BY DEF WitnessInv
  <1>2. Witnessed(c, lits[c][i]) => Witnessed(c, lits[c][i])'
    BY DEF Witnessed, Value, LevelOf, trailVars
  <1>3. LevelOf(lits[c][i]) = CurrentLevel => (LevelOf(lits[c][i]) = CurrentLevel)'
    BY DEF LevelOf, CurrentLevel, trailVars
  <1>4. CASE r # NoClause
    BY <1>1, <1>2, <1>3, <1>4 DEF Excused, Return
  <1>5. CASE conflict = NoClause /\ FixpointReached
    <2>1. pc = "long" /\ todo = {} /\ qhead = qend
      BY <1>5 DEF FixpointReached
    <2>2. qhead + 1 .. qend = {}
      BY <2>1
    <2>3. ~Pending(c, i)
      BY <2>1, <2>2 DEF Pending, InQueue, InTraversal
    <2> QED
      BY <1>1, <1>2, <1>5, <2>3 DEF Excused
  <1> QED
    BY <1>4, <1>5

----------------------------------------------------------------------------
(* The lists and the queue.                                                *)

LEMMA SameLists ==
  ASSUME BlockerInv, DirtyInv, OriginInv, UNCHANGED <<lits, scheduled, watchers, binWatchers, dirty>>,
         pc' \in {"binaries", "long"} => dirty = {}
  PROVE  BlockerInv' /\ DirtyInv' /\ OriginInv'
  BY DEF BlockerInv, DirtyInv, OriginInv, Listed

LEMMA AttachLists ==
  ASSUME ClauseTypes, WatcherTypes, BlockerInv, DirtyInv, OriginInv,
         NEW c \in Clauses, c \notin scheduled, Attach(c), dirty' = dirty,
         pc' \notin {"binaries", "long"}
  PROVE  BlockerInv' /\ DirtyInv' /\ OriginInv'
  <1>1. UNCHANGED <<lits, scheduled>>
    BY DEF Attach
  <1>2. /\ lits[c][1] \in Lits /\ lits[c][2] \in Lits
        /\ {lits[c][1], lits[c][2]} \subseteq LitSet(lits[c])
    <2>1. Len(lits[c]) \in Nat /\ Len(lits[c]) >= 2
      BY ClauseFacts
    <2>2. 1 \in 1 .. Len(lits[c]) /\ 2 \in 1 .. Len(lits[c])
      BY <2>1
    <2> QED
      BY <2>2, WatcherForType DEF LitSet
  <1>3. ASSUME NEW i \in {1, 2}
        PROVE  WatcherFor(c, i).clause = c /\ WatcherFor(c, i).blocker \in LitSet(lits[c])
    BY <1>2 DEF WatcherFor
  <1>4. ASSUME NEW W \in [Lits -> SUBSET Watcher], NEW l \in Lits, NEW w \in WithWatchersOf(c, W)[l]
        PROVE  w \in W[l] \/ w = WatcherFor(c, 1) \/ w = WatcherFor(c, 2)
    BY <1>2 DEF WithWatchersOf
  <1>5. ASSUME NEW l \in Lits, NEW w \in Listed(l)'
        PROVE  w \in Listed(l) \/ (w.clause = c /\ w.blocker \in LitSet(lits[c]))
    <2>1. w \in watchers'[l] \/ w \in binWatchers'[l]
      BY <1>5 DEF Listed
    <2>2. w \in Listed(l) \/ w = WatcherFor(c, 1) \/ w = WatcherFor(c, 2)
      BY <1>4, <2>1 DEF Attach, WatcherTypes, Listed
    <2> QED
      BY <1>3, <2>2
  <1>6. BlockerInv'
    BY <1>1, <1>5 DEF BlockerInv
  <1>7. DirtyInv'
    BY <1>1, <1>5 DEF DirtyInv
  <1>8. OriginInv'
    BY <1>1 DEF OriginInv
  <1> QED
    BY <1>6, <1>7, <1>8

LEMMA CleanupLists ==
  ASSUME ClauseTypes, WatcherTypes, PlacedInv, BlockerInv, DirtyInv, OriginInv,
         NEW l \in Lits, CleanupWatchers(l)
  PROVE  BlockerInv' /\ DirtyInv' /\ OriginInv'
  <1>1. /\ UNCHANGED <<lits, scheduled, pc>> /\ pc = "cleanup"
        /\ dirty' = dirty \ {l}
    BY DEF CleanupWatchers, clauseVars, callVars
  <1>2. ASSUME NEW m \in Lits, NEW w \in Listed(m)'
        PROVE  \/ w \in Listed(m) /\ (m = l => w.clause \notin scheduled)
               \/ \E x \in watchers[l] : /\ x.clause \notin scheduled
                                         /\ w.clause = x.clause
                                         /\ w.blocker = lits[x.clause][3 - x.idx]
    <2>1. CASE w \in watchers'[m]
      <3>1. w \in (IF m = l THEN Kept(watchers[l]) \ (Misplaced(l) \cup NowBinary(l)) ELSE watchers[m])
                  \cup {WatcherFor(y.clause, y.idx) : y \in {x \in Misplaced(l) : lits[x.clause][x.idx] = m}}
        BY <2>1 DEF CleanupWatchers
      <3>2. CASE w \in IF m = l THEN Kept(watchers[l]) \ (Misplaced(l) \cup NowBinary(l)) ELSE watchers[m]
        BY <3>2 DEF Kept, Listed
      <3>3. CASE w \in {WatcherFor(y.clause, y.idx) : y \in {x \in Misplaced(l) : lits[x.clause][x.idx] = m}}
        <4>1. PICK y \in Misplaced(l) : w = WatcherFor(y.clause, y.idx)
          BY <3>3
        <4> QED
          BY <4>1 DEF Misplaced, WatcherFor
      <3> QED
        BY <3>1, <3>2, <3>3
    <2>2. CASE w \in binWatchers'[m]
      <3>1. w \in (IF m = l THEN Kept(binWatchers[l]) ELSE binWatchers[m])
                  \cup {[WatcherFor(y.clause, y.idx) EXCEPT !.red = FALSE] :
                          y \in {x \in NowBinary(l) : lits[x.clause][x.idx] = m}}
        BY <2>2 DEF CleanupWatchers
      <3>2. CASE w \in IF m = l THEN Kept(binWatchers[l]) ELSE binWatchers[m]
        BY <3>2 DEF Kept, Listed
      <3>3. CASE w \in {[WatcherFor(y.clause, y.idx) EXCEPT !.red = FALSE] :
                          y \in {x \in NowBinary(l) : lits[x.clause][x.idx] = m}}
        <4>1. PICK y \in NowBinary(l) : w = [WatcherFor(y.clause, y.idx) EXCEPT !.red = FALSE]
          BY <3>3
        <4> QED
          BY <4>1 DEF NowBinary, WatcherFor
      <3> QED
        BY <3>1, <3>2, <3>3
    <2> QED
      BY <1>2, <2>1, <2>2 DEF Listed
  <1>3. ASSUME NEW x \in watchers[l]
        PROVE  lits[x.clause][3 - x.idx] \in LitSet(lits[x.clause])
    <2>1. x.clause \in Clauses /\ x.idx \in {1, 2}
      BY DEF WatcherTypes, Watcher
    <2>2. 3 - x.idx \in 1 .. Len(lits[x.clause])
      BY <2>1, ClauseFacts
    <2> QED
      BY <2>2 DEF LitSet
  <1>4. BlockerInv'
    BY <1>1, <1>2, <1>3 DEF BlockerInv
  <1>5. DirtyInv'
    <2>1. \A m \in Lits : \A w \in Listed(m)' : w.clause \in scheduled => m \in dirty /\ m # l
      BY <1>2 DEF DirtyInv
    <2> QED
      BY <1>1, <2>1 DEF DirtyInv
  <1>6. OriginInv'
    BY <1>1 DEF OriginInv
  <1> QED
    BY <1>4, <1>5, <1>6

LEMMA DeleteLists ==
  ASSUME ClauseTypes, WatcherTypes, PlacedInv, ClientInv, BlockerInv, DirtyInv, OriginInv,
         NEW c \in Clauses, DeleteClause(c)
  PROVE  BlockerInv' /\ DirtyInv' /\ OriginInv'
  <1>1. /\ UNCHANGED <<lits, watchers, binWatchers>> /\ scheduled' = scheduled \cup {c}
        /\ dirty' = dirty \cup {lits[c][1], lits[c][2]} /\ pc' = "idle"
    BY DEF DeleteClause, MarkDirty, ClientInv, watcherVars, callVars, Idle
  <1>2. ASSUME NEW l \in Lits, NEW w \in Listed(l), w.clause = c
        PROVE  l \in {lits[c][1], lits[c][2]} \/ l \in dirty
    <2>1. w.idx \in {1, 2}
      BY DEF WatcherTypes, Watcher, Listed
    <2>2. lits[c][w.idx] = l \/ l \in dirty
      BY <1>2 DEF PlacedInv, PlacementInv
    <2> QED
      BY <2>1, <2>2
  <1>3. DirtyInv'
    BY <1>1, <1>2 DEF DirtyInv, Listed
  <1> QED
    BY <1>1, <1>3 DEF BlockerInv, OriginInv, Listed

LEMMA MoveLists ==
  ASSUME TrailIInv, WatchIInv, QueueLevels, WitnessInv, BlockerInv, DirtyInv, OriginInv,
         NEW w \in todo, MoveWatcher(w)
  PROVE  BlockerInv' /\ DirtyInv' /\ OriginInv'
  <1>1. /\ ClauseTypes /\ WatcherTypes /\ CallTypes
        /\ UNCHANGED <<scheduled, binWatchers, dirty, pc>> /\ pc = "long"
    BY DEF MoveWatcher, Examined, Visiting, TrailIInv, TypeOK
  <1>2. \A c \in Clauses : LitSet(lits'[c]) = LitSet(lits[c])
    BY MoveWitness
  <1>3. /\ Neg(cur) \in Lits /\ w \in watchers[Neg(cur)]
        /\ w.clause \in Clauses
    BY <1>1, CurTrue DEF WatchIInv, TodoInv, CallTypes, Watcher
  <1>4. PICK k \in 3 .. Len(lits[w.clause]) : Relocate(w, lits[w.clause][k])
    BY DEF MoveWatcher
  <1>5. ASSUME NEW l \in Lits, NEW x \in Listed(l)'
        PROVE  \E m \in Lits : x \in Listed(m)
    <2>1. x \in watchers'[l] \/ x \in binWatchers[l]
      BY <1>1, <1>5 DEF Listed
    <2>2. x \in watchers'[l] => x \in watchers[l] \/ x = w
      BY <1>1, <1>3, <1>4 DEF Relocate, WatcherTypes
    <2> QED
      BY <1>3, <2>1, <2>2 DEF Listed
  <1>6. \A l \in Lits : \A x \in Listed(l) : x.clause \in Clauses
    BY <1>1 DEF WatcherTypes, Watcher, Listed
  <1>7. BlockerInv'
    BY <1>2, <1>5, <1>6 DEF BlockerInv
  <1>8. dirty = {}
    BY <1>1 DEF DirtyInv
  <1>9. DirtyInv'
    BY <1>1, <1>5, <1>8 DEF DirtyInv
  <1>10. OriginInv'
    BY <1>2 DEF OriginInv
  <1> QED
    BY <1>7, <1>9, <1>10

(* A literal is forced: it is on the current level, and in the queue.      *)
LEMMA ForceQueue ==
  ASSUME TrailIInv, QueueLevels, pc # "idle",
         NEW l \in Lits, NEW r \in Clauses, Value(l) = 0, Assign(l, r), Enqueue,
         phases' = phases, UNCHANGED <<pc, cur, mode, qhead>>
  PROVE  /\ QueueLevels'
         /\ InQueue(l)'
         /\ \A m \in Lits : InQueue(m) => InQueue(m)'
  <1>1. /\ TrailTypes /\ TrailInv /\ CallTypes /\ QueueInv
        /\ Len(trail) \in Nat /\ qend = Len(trail) /\ qhead \in Nat /\ qhead <= qend
        /\ qend' = qend + 1
    BY LenProperties DEF TrailIInv, TypeOK, TrailTypes, CallTypes, QueueInv, Enqueue
  <1>2. /\ trail'[qend + 1] = l
        /\ \A p \in 1 .. qend : trail'[p] = trail[p]
    BY <1>1, AssignStep
  <1>3. /\ CurrentLevel' = CurrentLevel /\ LevelOf(l)' = CurrentLevel
        /\ \A m \in Lits : Value(m) = 1 => LevelOf(m)' = LevelOf(m)
    BY <1>1, AssignValues
  <1>4. \A p \in 1 .. qend : trail[p] \in Lits /\ Value(trail[p]) = 1
    BY <1>1, ElementOfSeq DEF TrailTypes, TrailInv, TrailMatchesAssignments
  <1>5. cur \in Lits /\ Value(cur) = 1
    <2>1. PICK i \in 1 .. qhead : cur = trail[i]
      BY <1>1 DEF QueueInv
    <2> QED
      BY <1>1, <1>4, <2>1
  <1>6. mode = "include" /\ LevelOf(cur) = CurrentLevel
    BY DEF QueueLevels
  <1>7. LevelOf(cur)' = CurrentLevel
    BY <1>3, <1>5, <1>6
  <1>8. ASSUME NEW p \in qhead + 1 .. qend + 1
        PROVE  LevelOf(trail[p])' = CurrentLevel
    <2>1. CASE p = qend + 1
      <3>1. trail'[p] = l
        BY <1>2, <2>1
      <3> QED
        BY <1>3, <3>1 DEF LevelOf
    <2>2. CASE p # qend + 1
      <3>1. p \in 1 .. qend /\ p \in qhead + 1 .. qend
        BY <1>1, <2>2
      <3>2. trail'[p] = trail[p] /\ trail[p] \in Lits /\ Value(trail[p]) = 1
        BY <1>2, <1>4, <3>1
      <3>3. LevelOf(trail[p]) = CurrentLevel
        BY <3>1 DEF QueueLevels
      <3>4. \A m \in Lits : Value(m) = 1 => level'[VarOf(m)] = LevelOf(m)
        BY <1>3 DEF LevelOf
      <3>5. level'[VarOf(trail[p])] = LevelOf(trail[p])
        BY <3>2, <3>4
      <3> QED
        BY <3>2, <3>3, <3>5 DEF LevelOf
    <2> QED
      BY <2>1, <2>2
  <1>9. QueueLevels'
    BY <1>1, <1>3, <1>6, <1>7, <1>8 DEF QueueLevels
  <1>10. InQueue(l)'
    <2>1. qend + 1 \in qhead + 1 .. qend + 1
      BY <1>1
    <2> QED
      BY <1>1, <1>2, <2>1 DEF InQueue
  <1>11. ASSUME NEW m \in Lits, InQueue(m)
         PROVE  InQueue(m)'
    <2>1. PICK p \in qhead + 1 .. qend : trail[p] = m
      BY <1>11 DEF InQueue
    <2>2. p \in qhead + 1 .. qend + 1 /\ p \in 1 .. qend
      BY <1>1, <2>1
    <2> QED
      BY <1>1, <1>2, <2>1, <2>2 DEF InQueue
  <1> QED
    BY <1>9, <1>10, <1>11

----------------------------------------------------------------------------
(* The solver is a client that keeps to the documented preconditions.      *)
LEMMA ClientIsClient == [ClientNext]_vars => [Next]_vars
  BY DEF ClientNext, Next, RegisterCall, TrailCall, ReportCall

LEMMA NextClientInv == TypeOK /\ ClientInv /\ [ClientNext]_vars => ClientInv'
  <1> SUFFICES ASSUME TypeOK, ClientInv, [ClientNext]_vars PROVE ClientInv'
    OBVIOUS
  <1>1. ASSUME NEW c \in Clauses \ scheduled, RegisterClause(c) \/ RegisterLemma(c)
        PROVE  ClientInv'
    <2>1. UNCHANGED <<scheduled, announced>> /\ registered' = registered \cup {c}
      BY <1>1 DEF RegisterClause, RegisterLemma, Attach
    <2> QED
      BY <2>1 DEF ClientInv
  <1>2. ASSUME NEW c \in Clauses, DeleteClause(c)
        PROVE  ClientInv'
    <2>1. /\ scheduled' = scheduled \cup {c} /\ registered' = registered \ {c}
          /\ announced' = announced \ {c}
      BY <1>2 DEF DeleteClause
    <2> QED
      BY <2>1 DEF ClientInv
  <1>3. CASE Propagate
    <2>1. UNCHANGED <<scheduled, registered>> /\ announced' \subseteq announced
      BY <1>3 DEF Propagate, CleanupWatchers, CleanupDone, BinaryConflict, BinaryForce, BinarySkip,
                  BinariesDone, SkipWatcher, MoveWatcher, LongConflict, LongForce, NextLiteral,
                  FixpointReached, clauseVars
    <2> QED
      BY <2>1 DEF ClientInv
  <1>4. CASE \/ \E l \in Lits : AppendLit(l, "include")
             \/ NewLevel
             \/ \E k \in 0 .. CurrentLevel : UndoToLevel(k)
             \/ UndoAll
             \/ UNCHANGED vars
    <2>1. UNCHANGED <<scheduled, registered, announced>>
      BY <1>4 DEF AppendLit, NewLevel, UndoToLevel, UndoAll, vars, clauseVars
    <2> QED
      BY <2>1 DEF ClientInv
  <1> QED
    BY <1>1, <1>2, <1>3, <1>4 DEF ClientNext

THEOREM InitPropagationIInv == Init => PropagationIInv
  <1> SUFFICES ASSUME Init PROVE PropagationIInv
    OBVIOUS
  <1>1. \A c \in Clauses : LitSet(lits[c]) \in {LitSet(f[k]) : f \in Formulas, k \in Clauses}
    BY DEF Init
  <1> QED
    BY <1>1 DEF Init, PropagationIInv, QueueLevels, BlockerInv, DirtyInv, OriginInv, WitnessInv, Listed

THEOREM NextPropagationIInv ==
  TrailIInv /\ WatchIInv /\ ClientInv /\ PropagationIInv /\ [ClientNext]_vars => PropagationIInv'
  <1> SUFFICES ASSUME TrailIInv, WatchIInv, ClientInv, PropagationIInv, [ClientNext]_vars
               PROVE  PropagationIInv'
    OBVIOUS
  <1>1. /\ ClauseTypes /\ TrailTypes /\ WatcherTypes /\ CallTypes /\ QueueInv
        /\ TrailInv /\ TrailMatchesAssignments /\ PlacedInv /\ TodoInv
        /\ QueueLevels /\ BlockerInv /\ DirtyInv /\ OriginInv /\ WitnessInv
        /\ qhead \in Nat /\ qend \in Nat
    BY DEF TrailIInv, TypeOK, TrailInv, WatchIInv, PropagationIInv, CallTypes
  <1>2. ClauseTypes' /\ TrailTypes' /\ TrailMatchesAssignments'
    BY ClientIsClient, NextTrailIInv DEF TrailIInv, TypeOK, TrailInv
  <1>3. /\ \A w \in todo : w.clause \in Clauses /\ w.idx \in {1, 2} /\ w.blocker \in Lits
        /\ NoClause \notin Clauses
    BY <1>1, ClausesAssumption DEF CallTypes, Watcher
  <1>3a. trail' = <<>> => WitnessInv'
    <2>1. (TrailTypes /\ TrailMatchesAssignments /\ ClauseTypes /\ trail = <<>>)' => WitnessInv'
      BY EmptyWitness, PTL
    <2> QED
      BY <1>2, <2>1
  <1>4. ASSUME NEW c \in Clauses \ scheduled, trail = <<>>, RegisterClause(c)
        PROVE  PropagationIInv'
    <2>1. /\ Attach(c) /\ dirty' = dirty /\ c \notin scheduled /\ pc' = "idle" /\ trail' = <<>>
      BY <1>4 DEF RegisterClause, Idle, trailVars, callVars
    <2>2. BlockerInv' /\ DirtyInv' /\ OriginInv'
      BY <1>1, <2>1, AttachLists
    <2>3. WitnessInv'
      BY <1>3a, <2>1
    <2> QED
      BY <2>1, <2>2, <2>3 DEF PropagationIInv, QueueLevels
  (* A call that makes a literal true.                                     *)
  <1>5. ASSUME NEW l \in Lits, NEW r \in Clauses \cup {NoClause},
               Value(l) = 0, Assign(l, r), StartPropagation(l, "include")
        PROVE  QueueLevels'
    <2>1. LevelOf(l)' = CurrentLevel /\ CurrentLevel' = CurrentLevel
      BY <1>1, <1>5, AssignValues
    <2>2. /\ mode' = "include" /\ cur' = l
          /\ qhead' = Len(trail) + 1 /\ qend' = Len(trail) + 1 /\ Len(trail) \in Nat
      BY <1>1, <1>5, LenProperties DEF StartPropagation, TrailTypes
    <2>3. qhead' + 1 .. qend' = {}
      BY <2>2
    <2> QED
      BY <2>1, <2>2, <2>3 DEF QueueLevels, LevelOf
  <1>6. ASSUME NEW c \in Clauses \ scheduled, AssertedOnItsLevel(c), RegisterLemma(c)
        PROVE  PropagationIInv'
    <2>1. /\ Attach(c) /\ dirty' = dirty /\ c \notin scheduled /\ pc' = "cleanup" /\ Idle
          /\ lits' = lits /\ registered' = registered \cup {c}
          /\ Value(lits[c][1]) = 0 /\ Assign(lits[c][1], c)
          /\ StartPropagation(lits[c][1], "include")
      BY <1>6 DEF RegisterLemma, StartPropagation, Attach
    <2>2. Len(lits[c]) \in Nat /\ Len(lits[c]) >= 2 /\ lits[c][1] \in Lits
      BY <1>1, ClauseFacts
    <2>3. Value(lits[c][2]) = -1 /\ LevelOf(lits[c][2]) = CurrentLevel
      BY <1>6, <2>2 DEF RegisterLemma, AssertedOnItsLevel, LevelOf
    <2>4. BlockerInv' /\ DirtyInv' /\ OriginInv'
      BY <1>1, <2>1, AttachLists
    <2>5. WitnessInv'
      BY <1>1, <2>1, <2>2, <2>3, CallWitness
    <2>6. QueueLevels'
      BY <1>5, <2>1, <2>2
    <2> QED
      BY <2>4, <2>5, <2>6 DEF PropagationIInv
  <1>7. ASSUME NEW l \in Lits, AppendLit(l, "include")
        PROVE  PropagationIInv'
    <2>1. /\ pc' = "cleanup" /\ Idle /\ UNCHANGED <<lits, registered, scheduled, watchers, binWatchers, dirty>>
          /\ Value(l) = 0 /\ Assign(l, NoClause) /\ StartPropagation(l, "include")
      BY <1>7 DEF AppendLit, StartPropagation, clauseVars, watcherVars
    <2>2. BlockerInv' /\ DirtyInv' /\ OriginInv'
      BY <1>1, <2>1, SameLists
    <2>3. WitnessInv'
      BY <1>1, <2>1, CallWitness
    <2>4. QueueLevels'
      BY <1>5, <2>1
    <2> QED
      BY <2>2, <2>3, <2>4 DEF PropagationIInv
  <1>8. ASSUME NewLevel
        PROVE  PropagationIInv'
    <2>1. /\ pc = "idle" /\ conflict = NoClause
          /\ UNCHANGED <<lits, registered, scheduled, watchers, binWatchers, dirty, assignments, level, trail,
                         todo, cur, qhead, qend, pc, conflict>>
      BY <1>8 DEF NewLevel, Idle, clauseVars, watcherVars, callVars
    <2>2. BlockerInv' /\ DirtyInv' /\ OriginInv'
      BY <1>1, <2>1, SameLists
    <2>3. WitnessInv'
      BY <1>1, <2>1, FrameWitness
    <2> QED
      BY <2>1, <2>2, <2>3 DEF PropagationIInv, QueueLevels
  <1>9. ASSUME NEW k \in 0 .. CurrentLevel, UndoToLevel(k)
        PROVE  PropagationIInv'
    <2>1. pc' = "idle" /\ UNCHANGED <<lits, scheduled, watchers, binWatchers, dirty>>
      BY <1>9 DEF UndoToLevel, clauseVars, watcherVars
    <2>2. BlockerInv' /\ DirtyInv' /\ OriginInv'
      BY <1>1, <2>1, SameLists
    <2>3. WitnessInv'
      BY <1>1, <1>9, UndoWitness
    <2> QED
      BY <2>1, <2>2, <2>3 DEF PropagationIInv, QueueLevels
  <1>10. ASSUME UndoAll
         PROVE  PropagationIInv'
    <2>1. pc' = "idle" /\ UNCHANGED <<lits, scheduled, watchers, binWatchers, dirty>>
      BY <1>10 DEF UndoAll, clauseVars, watcherVars
    <2>2. BlockerInv' /\ DirtyInv' /\ OriginInv'
      BY <1>1, <2>1, SameLists
    <2>3. trail' = <<>>
      BY <1>10 DEF UndoAll, PopTrailTo
    <2>4. WitnessInv'
      BY <1>3a, <2>3
    <2> QED
      BY <2>1, <2>2, <2>4 DEF PropagationIInv, QueueLevels
  <1>11. ASSUME NEW c \in Clauses, trail = <<>>, DeleteClause(c)
         PROVE  PropagationIInv'
    <2>1. pc' = "idle" /\ trail' = <<>>
      BY <1>11 DEF DeleteClause, Idle, trailVars, callVars
    <2>2. BlockerInv' /\ DirtyInv' /\ OriginInv'
      BY <1>1, <1>11, DeleteLists
    <2>3. WitnessInv'
      BY <1>3a, <2>1
    <2> QED
      BY <2>1, <2>2, <2>3 DEF PropagationIInv, QueueLevels
  <1>12. ASSUME NEW l \in Lits, CleanupWatchers(l)
         PROVE  PropagationIInv'
    <2>1. /\ pc = "cleanup"
          /\ UNCHANGED <<lits, registered, assignments, level, levelLimits, trail, todo, cur, mode, qhead, qend, pc, conflict>>
      BY <1>12 DEF CleanupWatchers, clauseVars, trailVars, callVars
    <2>2. BlockerInv' /\ DirtyInv' /\ OriginInv'
      BY <1>1, <1>12, CleanupLists
    <2>3. WitnessInv'
      BY <1>1, <2>1, FrameWitness
    <2>4. QueueLevels'
      BY <1>1, <2>1 DEF QueueLevels, LevelOf, CurrentLevel
    <2> QED
      BY <2>2, <2>3, <2>4 DEF PropagationIInv
  <1>13. ASSUME CleanupDone \/ BinariesDone \/ NextLiteral
         PROVE  PropagationIInv'
    <2>1. /\ UNCHANGED <<lits, scheduled, watchers, binWatchers, dirty, level, levelLimits, trail, mode, qend>>
          /\ pc # "idle" /\ dirty = {}
          /\ \/ UNCHANGED <<cur, qhead>>
             \/ qhead # qend /\ cur' = trail[qhead + 1] /\ qhead' = qhead + 1
      BY <1>1, <1>13 DEF CleanupDone, BinariesDone, NextLiteral, DirtyInv, clauseVars, watcherVars, trailVars
    <2>2. BlockerInv' /\ DirtyInv' /\ OriginInv'
      BY <1>1, <2>1, SameLists
    <2>3. WitnessInv'
      BY <1>1, <1>13, TraversalWitness
    <2>4. QueueLevels'
      <3>1. CASE UNCHANGED <<cur, qhead>>
        BY <1>1, <2>1, <3>1 DEF QueueLevels, LevelOf, CurrentLevel
      <3>2. CASE qhead # qend /\ cur' = trail[qhead + 1] /\ qhead' = qhead + 1
        <4>1. qhead <= qend
          BY <1>1, <2>1 DEF QueueInv
        <4>2. qhead + 1 \in qhead + 1 .. qend /\ qhead' + 1 .. qend' \subseteq qhead + 1 .. qend
          BY <1>1, <2>1, <3>2, <4>1
        <4> QED
          BY <1>1, <2>1, <3>2, <4>2 DEF QueueLevels, LevelOf, CurrentLevel
      <3> QED
        BY <2>1, <3>1, <3>2
    <2> QED
      BY <2>2, <2>3, <2>4 DEF PropagationIInv
  <1>14. ASSUME NEW r, Return(r), UNCHANGED <<clauseVars, trailVars, watcherVars, dirty>>,
                r # NoClause \/ (conflict = NoClause /\ FixpointReached)
         PROVE  PropagationIInv'
    <2>1. UNCHANGED <<lits, registered, scheduled, watchers, binWatchers, dirty>> /\ pc' = "idle"
      BY <1>14 DEF clauseVars, watcherVars, Return
    <2>2. BlockerInv' /\ DirtyInv' /\ OriginInv'
      BY <1>1, <2>1, SameLists
    <2>3. WitnessInv'
      BY <1>1, <1>14, <2>1, ReturnWitness
    <2> QED
      BY <2>1, <2>2, <2>3 DEF PropagationIInv, QueueLevels
  <1>15. ASSUME \/ FixpointReached \/ \E w \in todo : BinaryConflict(w) \/ LongConflict(w)
         PROVE  PropagationIInv'
    <2>1. CASE FixpointReached
      BY <1>1, <1>14, <2>1 DEF FixpointReached, TodoInv
    <2>2. ASSUME NEW w \in todo, BinaryConflict(w) \/ LongConflict(w)
          PROVE  PropagationIInv'
      BY <1>3, <1>14, <2>2 DEF BinaryConflict, LongConflict
    <2> QED
      BY <1>15, <2>1, <2>2
  (* The literal a visit forces, or finds true.                            *)
  <1>16. ASSUME NEW w \in todo, NEW l \in Lits, NEW j \in 1 .. Len(lits[w.clause]),
                l = lits[w.clause][j], pc # "idle", Value(l) = 0,
                Assign(l, w.clause), Enqueue, todo' = todo \ {w},
                UNCHANGED <<clauseVars, phases, watcherVars, dirty, pc, cur, mode, qhead, conflict>>
         PROVE  PropagationIInv'
    <2>1. /\ UNCHANGED <<lits, registered, scheduled, watchers, binWatchers, dirty>>
          /\ w.clause \in Clauses /\ conflict = NoClause /\ CurrentLevel \in Nat
      BY <1>1, <1>3, <1>16, LenProperties DEF clauseVars, watcherVars, TodoInv, TrailTypes, CurrentLevel
    <2>2. BlockerInv' /\ DirtyInv' /\ OriginInv'
      BY <1>1, <1>16, <2>1, SameLists DEF DirtyInv
    <2>3. QueueLevels' /\ InQueue(l)' /\ \A m \in Lits : InQueue(m) => InQueue(m)'
      BY <1>1, <1>16, <2>1, ForceQueue
    <2>4. /\ CurrentLevel' = CurrentLevel
          /\ Value(l)' = 1 /\ LevelOf(l)' = CurrentLevel
          /\ \A m \in Lits :
               IF VarOf(m) = VarOf(l)
                 THEN /\ Value(m) = 0 /\ LevelOf(m)' = CurrentLevel
                      /\ m = l \/ (m = Neg(l) /\ Value(m)' = -1)
                 ELSE Value(m)' = Value(m) /\ LevelOf(m)' = LevelOf(m)
      BY <1>1, <1>16, <2>1, AssignValues
    <2>5. \A m \in Lits : Value(m) # 0 => Value(m)' = Value(m) /\ LevelOf(m)' = LevelOf(m)
      BY <2>4
    <2>6. \A m \in Lits : Value(m) = 0 /\ Value(m)' = -1 =>
                            LevelOf(m)' = CurrentLevel /\ InQueue(Neg(m))'
      <3> TAKE m \in Lits
      <3> HAVE Value(m) = 0 /\ Value(m)' = -1
      <3>1. m = Neg(l) /\ LevelOf(m)' = CurrentLevel
        BY <2>4
      <3>2. Neg(m) = l
        BY <1>1, <3>1, NegFacts DEF TrailTypes
      <3> QED
        BY <2>3, <3>1, <3>2
    <2>7. Value(lits[w.clause][j])' = 1 /\ LevelOf(lits[w.clause][j])' <= CurrentLevel
      <3>1. lits'[w.clause][j] = l
        BY <1>16, <2>1
      <3> QED
        BY <2>1, <2>4, <3>1 DEF Value, LevelOf
    <2>8. WitnessInv'
      BY <1>1, <1>16, <2>1, <2>3, <2>4, <2>5, <2>6, <2>7, VisitWitness
    <2> QED
      BY <2>2, <2>3, <2>8 DEF PropagationIInv
  <1>17. ASSUME NEW w \in todo, NEW j \in 1 .. Len(lits[w.clause]),
                pc # "idle", Value(lits[w.clause][j]) = 1, todo' = todo \ {w},
                UNCHANGED <<clauseVars, trailVars, watcherVars, dirty, pc, cur, mode, qhead, qend, conflict>>
         PROVE  PropagationIInv'
    <2>1. /\ UNCHANGED <<lits, registered, scheduled, watchers, binWatchers, dirty, trail, assignments, level, levelLimits>>
          /\ conflict = NoClause /\ w.clause \in Clauses
      BY <1>1, <1>3, <1>17 DEF clauseVars, watcherVars, trailVars, TodoInv
    <2>2. BlockerInv' /\ DirtyInv' /\ OriginInv'
      BY <1>1, <1>17, <2>1, SameLists DEF DirtyInv
    <2>3. QueueLevels'
      BY <1>1, <1>17, <2>1 DEF QueueLevels, LevelOf, CurrentLevel
    <2>4. CurrentLevel' = CurrentLevel
      BY <2>1 DEF CurrentLevel
    <2>5. \A m \in Lits : Value(m)' = Value(m) /\ LevelOf(m)' = LevelOf(m)
      BY <2>1 DEF Value, LevelOf
    <2>6. \A m \in Lits : InQueue(m) => InQueue(m)'
      BY <1>17, <2>1 DEF InQueue
    <2>7. Value(lits[w.clause][j])' = 1 /\ LevelOf(lits[w.clause][j])' <= CurrentLevel
      <3>1. lits[w.clause][j] \in Lits
        BY <1>1, <2>1, ClauseFacts
      <3>2. PICK p \in 1 .. Len(trail) : VarOf(trail[p]) = VarOf(lits[w.clause][j])
        <4>1. VarOf(lits[w.clause][j]) \in Vars /\ assignments[VarOf(lits[w.clause][j])] # 0
          <5>1. \A x \in Lits : VarOf(x) \in Vars /\ (Value(x) = 0 <=> assignments[VarOf(x)] = 0)
            BY <1>1, ValueFacts, LitFacts DEF TrailTypes
          <5> QED
            BY <1>17, <3>1, <5>1
        <4> QED
          BY <1>1, <4>1 DEF TrailMatchesAssignments
      <3>3. LevelOf(lits[w.clause][j]) <= CurrentLevel
        BY <1>1, <3>2 DEF TrailInv, LevelsMatchTrail, LevelOf
      <3> QED
        BY <1>17, <2>1, <3>3 DEF Value, LevelOf
    <2>8. WitnessInv'
      BY <1>1, <1>17, <2>1, <2>4, <2>5, <2>6, <2>7, VisitWitness
    <2> QED
      BY <2>2, <2>3, <2>8 DEF PropagationIInv
  <1>18. ASSUME NEW w \in todo
         PROVE  /\ 3 - w.idx \in 1 .. Len(lits[w.clause])
                /\ OtherWatched(w) = lits[w.clause][3 - w.idx] /\ OtherWatched(w) \in Lits
                /\ pc \in {"binaries", "long"} =>
                     \E j \in 1 .. Len(lits[w.clause]) : w.blocker = lits[w.clause][j]
    <2>1. w.clause \in Clauses /\ w.idx \in {1, 2}
      BY <1>3
    <2>2. 3 - w.idx \in 1 .. Len(lits[w.clause])
      BY <1>1, <2>1, ClauseFacts
    <2>3. lits[w.clause][3 - w.idx] \in Lits
      BY <1>1, <2>1, <2>2, ClauseFacts
    <2>4. ASSUME pc \in {"binaries", "long"}
          PROVE  \E j \in 1 .. Len(lits[w.clause]) : w.blocker = lits[w.clause][j]
      <3>1. Neg(cur) \in Lits
        BY <2>4, CurTrue
      <3>2. w \in Listed(Neg(cur))
        BY <1>1, <2>4 DEF TodoInv, Listed
      <3> QED
        BY <1>1, <3>1, <3>2 DEF BlockerInv, LitSet
    <2> QED
      BY <2>2, <2>3, <2>4 DEF OtherWatched
  <1>19. ASSUME NEW w \in todo, BinaryForce(w) \/ LongForce(w)
         PROVE  PropagationIInv'
    <2>1. CASE BinaryForce(w)
      <3>1. /\ pc = "binaries" /\ Value(w.blocker) = 0 /\ Assign(w.blocker, w.clause)
            /\ Enqueue /\ todo' = todo \ {w}
            /\ UNCHANGED <<clauseVars, phases, watcherVars, dirty, pc, cur, mode, qhead, conflict>>
        BY <2>1 DEF BinaryForce
      <3>2. PICK j \in 1 .. Len(lits[w.clause]) : w.blocker = lits[w.clause][j]
        BY <1>18, <3>1
      <3> QED
        BY <1>3, <1>16, <3>1, <3>2
    <2>2. CASE LongForce(w)
      <3>1. /\ pc = "long" /\ Value(OtherWatched(w)) = 0 /\ Assign(OtherWatched(w), w.clause)
            /\ Enqueue /\ todo' = todo \ {w}
            /\ UNCHANGED <<clauseVars, phases, watcherVars, dirty, pc, cur, mode, qhead, conflict>>
        BY <2>2 DEF LongForce, Examined, Visiting
      <3> QED
        BY <1>16, <1>18, <3>1
    <2> QED
      BY <1>19, <2>1, <2>2
  <1>20. ASSUME NEW w \in todo, BinarySkip(w) \/ SkipWatcher(w)
         PROVE  PropagationIInv'
    <2>1. /\ pc \in {"binaries", "long"} /\ todo' = todo \ {w}
          /\ UNCHANGED <<clauseVars, trailVars, watcherVars, dirty, pc, cur, mode, qhead, qend, conflict>>
      BY <1>20 DEF BinarySkip, SkipWatcher, Visiting
    <2>2. mode = "include"
      BY <1>1, <2>1 DEF QueueLevels
    <2>3. Value(w.blocker) = 1 \/ Value(OtherWatched(w)) = 1
      BY <1>20, <2>2 DEF BinarySkip, SkipWatcher, Excluded, LooksSat
    <2>4. \E j \in 1 .. Len(lits[w.clause]) : Value(lits[w.clause][j]) = 1
      BY <1>18, <2>1, <2>3
    <2> QED
      BY <1>17, <2>1, <2>4
  <1>21. ASSUME NEW w \in todo, MoveWatcher(w)
         PROVE  PropagationIInv'
    <2>1. BlockerInv' /\ DirtyInv' /\ OriginInv' /\ WitnessInv'
      BY <1>1, <1>21, MoveLists, MoveWitness
    <2>2. UNCHANGED <<pc, mode, cur, qhead, qend, trail, level, levelLimits>>
      BY <1>21 DEF MoveWatcher, trailVars
    <2>3. QueueLevels'
      BY <1>1, <2>2 DEF QueueLevels, LevelOf, CurrentLevel
    <2> QED
      BY <2>1, <2>3 DEF PropagationIInv
  <1>22. ASSUME UNCHANGED vars
         PROVE  PropagationIInv'
    <2>1. UNCHANGED <<lits, registered, scheduled, watchers, binWatchers, dirty, trail, assignments, level, levelLimits,
                      pc, cur, mode, todo, qhead, qend, conflict>>
      BY <1>22 DEF vars, clauseVars, trailVars, watcherVars, callVars
    <2>2. BlockerInv' /\ DirtyInv' /\ OriginInv'
      BY <1>1, <2>1, SameLists DEF DirtyInv
    <2>3. WitnessInv'
      BY <1>1, <2>1, FrameWitness
    <2>4. QueueLevels'
      BY <1>1, <2>1 DEF QueueLevels, LevelOf, CurrentLevel
    <2> QED
      BY <2>2, <2>3, <2>4 DEF PropagationIInv
  <1> QED
    BY <1>4, <1>6, <1>7, <1>8, <1>9, <1>10, <1>11, <1>12, <1>13, <1>15, <1>19, <1>20, <1>21, <1>22
    DEF ClientNext, Propagate

(* When a call has returned without conflict, every registered clause is   *)
(* satisfied or has two unassigned literals, for every set of clauses,     *)
(* after any learning, deleting and backtracking.                          *)
THEOREM FixpointCorrect == ClientSpec => []FixpointInv
  <1>1. TrailIInv /\ PropagationIInv => FixpointInv
    <2> SUFFICES ASSUME TrailIInv, PropagationIInv, Idle, NEW c \in registered, FalsifiedOrUnit(c)
                 PROVE  FALSE
      BY DEF FixpointInv
    <2>1. ClauseTypes /\ TrailTypes /\ c \in Clauses
      BY DEF TrailIInv, TypeOK, ClauseTypes
    <2>2. /\ Len(lits[c]) \in Nat /\ Len(lits[c]) >= 2
          /\ 1 \in 1 .. Len(lits[c]) /\ 2 \in 1 .. Len(lits[c])
          /\ lits[c][1] \in Lits /\ lits[c][2] \in Lits
      BY <2>1, ClauseFacts
    <2>3. ~(Value(lits[c][1]) = 0 /\ Value(lits[c][2]) = 0)
      BY <2>2, 1 # 2 DEF FalsifiedOrUnit
    <2>4. Value(lits[c][1]) \in {-1, 0, 1} /\ Value(lits[c][2]) \in {-1, 0, 1}
      BY <2>1, <2>2, ValueFacts DEF TrailTypes
    <2>5. \A j \in 1 .. Len(lits[c]) : Value(lits[c][j]) # 1
      BY DEF FalsifiedOrUnit
    <2>6. PICK i \in {1, 2} : Value(lits[c][i]) = -1
      BY <2>2, <2>3, <2>4, <2>5
    <2>7. Excused(c, i)
      BY <2>6 DEF PropagationIInv, WitnessInv
    <2>8. Witnessed(c, lits[c][i])
      BY <2>7 DEF Idle, Excused, Pending
    <2> QED
      BY <2>5, <2>8 DEF Witnessed
  <1>2. Init => ClientInv
    BY DEF Init, ClientInv
  <1>3. TrailIInv => TypeOK
    BY DEF TrailIInv
  <1> QED
    BY <1>1, <1>2, <1>3, ClientIsClient, InitTrailIInv, NextTrailIInv, InitWatchIInv, NextWatchIInv,
       NextClientInv, InitPropagationIInv, NextPropagationIInv, PTL DEF ClientSpec

----------------------------------------------------------------------------
(* The implementation of UnitPropagation.                                  *)

(* What the mapping shows of a reason, a conflict and the trail.           *)
Cause(r) == IF r = NoClause THEN {} ELSE LitSet(lits[r])
Active   == {LitSet(lits[c]) : c \in registered}
Because  == [i \in 1 .. Len(trail) |-> Cause(reason[VarOf(trail[i])])]

LEMMA Mapped ==
  /\ UP!Lits = Lits
  /\ \A l : UP!Neg(l) = Neg(l)
  BY DEF UP!Lits, UP!Vars, Lits, Vars, UP!Neg, Neg

(* The trail holds the true literals, and no others.                       *)
LEMMA OnTrail ==
  ASSUME TrailIInv, NEW l \in Lits
  PROVE  /\ UP!True(l) <=> Value(l) = 1
         /\ UP!False(l) <=> Value(l) = -1
         /\ UP!Unassigned(l) <=> Value(l) = 0
  <1>1. TrailTypes /\ TrailMatchesAssignments /\ assignments \in [Vars -> {-1, 0, 1}]
    BY DEF TrailIInv, TypeOK, TrailInv, TrailTypes
  <1>2. ASSUME NEW m \in Lits
        PROVE  UP!True(m) <=> Value(m) = 1
    <2>1. ASSUME Value(m) = 1 PROVE UP!True(m)
      <3>1. Neg(m) \in Lits /\ Value(Neg(m)) = -1 /\ Neg(Neg(m)) = m
        BY <1>1, <2>1, NegFacts
      <3>2. \E p \in 1 .. Len(trail) : trail[p] = Neg(Neg(m))
        BY <3>1, FalseOnTrail
      <3> QED
        BY <3>1, <3>2 DEF UP!True
    <2>2. ASSUME UP!True(m) PROVE Value(m) = 1
      <3>1. PICK p \in 1 .. Len(trail) : trail[p] = m
        BY <2>2 DEF UP!True
      <3> QED
        BY <1>1, <3>1 DEF TrailMatchesAssignments
    <2> QED
      BY <2>1, <2>2
  <1>3. Neg(l) \in Lits /\ Value(Neg(l)) = -Value(l)
    BY <1>1, NegFacts
  <1>4. Value(l) \in {-1, 0, 1}
    BY <1>1, ValueFacts
  <1>5. UP!False(l) <=> Value(Neg(l)) = 1
    BY <1>2, <1>3, Mapped DEF UP!False
  <1>6. Value(Neg(l)) = 1 <=> Value(l) = -1
    BY <1>3, <1>4
  <1> QED
    BY <1>2, <1>4, <1>5, <1>6 DEF UP!Unassigned

(* The reasons are a sequence of clauses beside the trail.                 *)
LEMMA BecauseType ==
  TrailIInv => /\ Because \in Seq(SUBSET Lits)
               /\ Len(Because) = Len(trail)
               /\ \A i \in 1 .. Len(trail) : Because[i] = Cause(reason[VarOf(trail[i])])
               /\ \A r \in Clauses \cup {NoClause} : Cause(r) \in SUBSET Lits
  <1> SUFFICES ASSUME TrailIInv
               PROVE  /\ Because \in Seq(SUBSET Lits)
                      /\ Len(Because) = Len(trail)
                      /\ \A i \in 1 .. Len(trail) : Because[i] = Cause(reason[VarOf(trail[i])])
                      /\ \A r \in Clauses \cup {NoClause} : Cause(r) \in SUBSET Lits
    OBVIOUS
  <1>1. /\ ClauseTypes /\ Len(trail) \in Nat
        /\ \A i \in 1 .. Len(trail) : trail[i] \in Lits
        /\ reason \in [Vars -> Clauses \cup {NoClause}]
    BY LenProperties, ElementOfSeq DEF TrailIInv, TypeOK, TrailTypes
  <1>2. \A r \in Clauses \cup {NoClause} : Cause(r) \in SUBSET Lits
    BY <1>1, ClauseFacts DEF Cause, LitSet
  <1>3. \A i \in 1 .. Len(trail) : Cause(reason[VarOf(trail[i])]) \in SUBSET Lits
    <2> TAKE i \in 1 .. Len(trail)
    <2>1. reason[VarOf(trail[i])] \in Clauses \cup {NoClause}
      BY <1>1, LitFacts
    <2> QED
      BY <1>2, <2>1
  <1>4. Because \in Seq(SUBSET Lits) /\ Len(Because) = Len(trail)
    <2>1. Because \in [1 .. Len(trail) -> SUBSET Lits]
      BY <1>3 DEF Because
    <2>2. Because \in Seq(SUBSET Lits)
      BY <1>1, <2>1
    <2>3. DOMAIN Because = 1 .. Len(trail) /\ DOMAIN Because = 1 .. Len(Because) /\ Len(Because) \in Nat
      BY <2>1, <2>2, LenProperties
    <2>4. \A n, m \in Nat : 1 .. n = 1 .. m => n = m
      OBVIOUS
    <2> QED
      BY <1>1, <2>2, <2>3, <2>4
  <1> QED
    BY <1>2, <1>4 DEF Because

(* Making a literal true appends its reason.                               *)
LEMMA AssignBecause ==
  ASSUME TrailIInv, TrailIInv', NEW l \in Lits, NEW r \in Clauses \cup {NoClause},
         Value(l) = 0, Assign(l, r), lits' = lits
  PROVE  /\ trail' = Append(trail, l)
         /\ Because' = Append(Because, Cause(r))
  <1>1. /\ TrailTypes /\ TrailMatchesAssignments
        /\ trail \in Seq(Lits) /\ Len(trail) \in Nat
        /\ reason \in [Vars -> Clauses \cup {NoClause}]
        /\ assignments \in [Vars -> {-1, 0, 1}]
    BY LenProperties DEF TrailIInv, TypeOK, TrailInv, TrailTypes
  <1>2. /\ trail' = Append(trail, l)
        /\ reason' = [reason EXCEPT ![VarOf(l)] = r]
        /\ VarOf(l) \in Vars
    BY LitFacts DEF Assign
  <1>3. /\ Len(trail') = Len(trail) + 1
        /\ trail'[Len(trail) + 1] = l
        /\ \A i \in 1 .. Len(trail) : trail'[i] = trail[i]
    BY <1>1, <1>2, AppendProperties
  <1>4. ASSUME NEW i \in 1 .. Len(trail)
        PROVE  VarOf(trail[i]) \in Vars /\ VarOf(trail[i]) # VarOf(l)
    <2>1. trail[i] \in Lits /\ Value(trail[i]) = 1
      BY <1>1, ElementOfSeq DEF TrailMatchesAssignments
    <2>2. VarOf(trail[i]) \in Vars /\ assignments[VarOf(trail[i])] # 0
      <3>1. \A x \in Lits : VarOf(x) \in Vars /\ (Value(x) = 0 <=> assignments[VarOf(x)] = 0)
        BY <1>1, ValueFacts, LitFacts
      <3> QED
        BY <2>1, <3>1
    <2>3. assignments[VarOf(l)] = 0
      BY <1>1, ValueFacts
    <2> QED
      BY <2>2, <2>3
  <1>5. /\ Because \in Seq(SUBSET Lits) /\ Len(Because) = Len(trail)
        /\ \A i \in 1 .. Len(trail) : Because[i] = Cause(reason[VarOf(trail[i])])
        /\ Cause(r) \in SUBSET Lits
    BY BecauseType
  <1>6. (TrailIInv)' => /\ Because' \in Seq(SUBSET Lits)
                        /\ Len(Because') = Len(trail')
                        /\ \A i \in 1 .. Len(trail') : Because'[i] = Cause(reason[VarOf(trail[i])])'
    <2>1. (TrailIInv =>
              /\ Because \in Seq(SUBSET Lits)
              /\ Len(Because) = Len(trail)
              /\ \A i \in 1 .. Len(trail) : Because[i] = Cause(reason[VarOf(trail[i])]))'
      BY BecauseType, PTL
    <2> QED
      BY <2>1
  <1>7. ASSUME NEW i \in 1 .. Len(trail)
        PROVE  Because'[i] = Because[i]
    <2>1. reason'[VarOf(trail'[i])] = reason[VarOf(trail[i])]
      BY <1>1, <1>2, <1>3, <1>4
    <2>2. i \in 1 .. Len(trail')
      BY <1>1, <1>3
    <2> QED
      BY <1>5, <1>6, <2>1, <2>2 DEF Cause
  <1>8. Because'[Len(trail) + 1] = Cause(r)
    <2>1. reason'[VarOf(trail'[Len(trail) + 1])] = r
      BY <1>1, <1>2, <1>3
    <2>2. Len(trail) + 1 \in 1 .. Len(trail')
      BY <1>1, <1>3
    <2> QED
      BY <1>6, <2>1, <2>2 DEF Cause
  <1> DEFINE a == Append(Because, Cause(r))
  <1>9. /\ a \in Seq(SUBSET Lits) /\ Len(a) = Len(trail) + 1
        /\ \A i \in 1 .. Len(trail) : a[i] = Because[i]
        /\ a[Len(trail) + 1] = Cause(r)
    BY <1>5, AppendProperties
  <1> HIDE DEF a
  <1>10. \A i \in 1 .. Len(trail) + 1 : Because'[i] = a[i]
    BY <1>1, <1>7, <1>8, <1>9
  <1>11. Because' = a
    BY <1>3, <1>6, <1>9, <1>10, SeqEqual
  <1> QED
    BY <1>2, <1>11 DEF a

(* Backtracking shortens the trail and the reasons alike.                  *)
LEMMA PopBecause ==
  ASSUME TrailIInv, TrailIInv', NEW n \in 0 .. Len(trail), PopTrailTo(n),
         UNCHANGED <<reason, lits>>
  PROVE  Because' = SubSeq(Because, 1, n)
  <1>1. /\ Len(trail) \in Nat /\ trail \in Seq(Lits)
        /\ \A i \in 1 .. Len(trail) : trail[i] \in Lits
    BY LenProperties, ElementOfSeq DEF TrailIInv, TypeOK, TrailTypes
  <1>2. \A i \in 1 .. n : i \in 1 .. Len(trail) /\ trail[i] \in Lits
    BY <1>1
  <1>3. Len(trail') = n /\ \A i \in 1 .. n : trail'[i] = trail[i]
    BY <1>1, <1>2, SubSeqProperties DEF PopTrailTo
  <1>4. /\ Because \in Seq(SUBSET Lits) /\ Len(Because) = Len(trail)
        /\ \A i \in 1 .. Len(trail) : Because[i] = Cause(reason[VarOf(trail[i])])
    BY BecauseType
  <1>5. /\ Because' \in Seq(SUBSET Lits)
        /\ Len(Because') = Len(trail')
        /\ \A i \in 1 .. Len(trail') : Because'[i] = Cause(reason[VarOf(trail[i])])'
    <2>1. (TrailIInv =>
              /\ Because \in Seq(SUBSET Lits)
              /\ Len(Because) = Len(trail)
              /\ \A i \in 1 .. Len(trail) : Because[i] = Cause(reason[VarOf(trail[i])]))'
      BY BecauseType, PTL
    <2> QED
      BY <2>1
  <1>6. \A i \in 1 .. n : Because'[i] = Because[i]
    BY <1>2, <1>3, <1>4, <1>5 DEF Cause
  <1> DEFINE a == SubSeq(Because, 1, n)
  <1>7. a \in Seq(SUBSET Lits) /\ Len(a) = n /\ \A i \in 1 .. n : a[i] = Because[i]
    <2>1. \A i \in 1 .. n : Because[i] \in SUBSET Lits
      BY <1>2, <1>4, ElementOfSeq
    <2> QED
      BY <1>1, <2>1, SubSeqProperties
  <1> HIDE DEF a
  <1>8. Because' = a
    BY <1>3, <1>5, <1>6, <1>7, SeqEqual
  <1> QED
    BY <1>8 DEF a

LEMMA SameBecause ==
  ASSUME TrailIInv, UNCHANGED <<trail, reason>>,
         \A c \in Clauses : LitSet(lits'[c]) = LitSet(lits[c])
  PROVE  Because' = Because
  <1>1. \A i \in 1 .. Len(trail) : reason[VarOf(trail[i])] \in Clauses \cup {NoClause}
    BY LitFacts, ElementOfSeq DEF TrailIInv, TypeOK, TrailTypes
  <1>2. \A r \in Clauses \cup {NoClause} : Cause(r)' = Cause(r)
    BY DEF Cause
  <1>3. \A i \in 1 .. Len(trail) : Cause(reason[VarOf(trail[i])])' = Cause(reason[VarOf(trail[i])])
    BY <1>1, <1>2 DEF Cause
  <1> QED
    BY <1>3 DEF Because, Cause

(* The conflict of the mapping.                                            *)
Falsified == IF conflict = NoClause THEN {} ELSE LitSet(lits[conflict])

LEMMA ReadyWhenIdle ==
  ASSUME ClauseTypes, conflict \in Clauses \cup {NoClause}
  PROVE  /\ Falsified = {} <=> conflict = NoClause
         /\ UP!Ready <=> Idle
  <1>1. \A c \in Clauses : LitSet(lits[c]) # {}
    <2> TAKE c \in Clauses
    <2>1. 1 \in 1 .. Len(lits[c])
      BY ClauseFacts
    <2> QED
      BY <2>1 DEF LitSet
  <1>2. Falsified = {} <=> conflict = NoClause
    BY <1>1 DEF Falsified
  <1> QED
    BY <1>2 DEF UP!Ready, Idle, Falsified

(* A clause all of whose literals but l are false forces l.                *)
LEMMA ForcesWhenUnit ==
  ASSUME TrailIInv, NEW c \in Clauses, NEW l \in LitSet(lits[c]), Value(l) = 0,
         \A j \in 1 .. Len(lits[c]) : lits[c][j] = l \/ Value(lits[c][j]) = -1
  PROVE  UP!Forces(LitSet(lits[c]), l)
  <1>1. ClauseTypes /\ \A j \in 1 .. Len(lits[c]) : lits[c][j] \in Lits
    BY ClauseFacts DEF TrailIInv, TypeOK
  <1>2. l \in Lits
    BY <1>1 DEF LitSet
  <1>3. UP!Unassigned(l)
    BY <1>2, OnTrail
  <1>4. ASSUME NEW m \in LitSet(lits[c]) \ {l}
        PROVE  UP!False(m)
    <2>1. PICK j \in 1 .. Len(lits[c]) : m = lits[c][j]
      BY DEF LitSet
    <2>2. m \in Lits /\ Value(m) = -1
      BY <1>1, <1>4, <2>1
    <2> QED
      BY <2>2, OnTrail
  <1> QED
    BY <1>3, <1>4 DEF UP!Forces

(* The calls that make a literal true.                                     *)
LEMMA AssignStepMapped ==
  ASSUME TrailIInv, TrailIInv', NEW l \in Lits, NEW m, AppendLit(l, m)
  PROVE  UP!Decide(l)
  <1>1. /\ ClauseTypes /\ CallTypes
        /\ Idle /\ Value(l) = 0 /\ Assign(l, NoClause)
        /\ UNCHANGED <<lits, registered>> /\ pc' = "cleanup" /\ conflict' = NoClause
        /\ levelLimits' = levelLimits
    BY DEF TrailIInv, TypeOK, AppendLit, StartPropagation, clauseVars, Assign
  <1>2. trail' = Append(trail, l) /\ Because' = Append(Because, {})
    <2>1. Cause(NoClause) = {}
      BY DEF Cause
    <2> QED
      BY <1>1, <2>1, AssignBecause
  <1>3. UP!Ready /\ UP!Unassigned(l)
    BY <1>1, OnTrail, ReadyWhenIdle DEF CallTypes
  <1>4. Active' = Active
    BY <1>1 DEF Active
  <1>5. pc' # "idle" /\ Falsified' = Falsified
    BY <1>1 DEF Falsified, Idle
  <1> QED
    BY <1>1, <1>2, <1>3, <1>4, <1>5 DEF UP!Decide, Active, Because, Cause, Falsified

LEMMA LemmaStepMapped ==
  ASSUME TrailIInv, TrailIInv', NEW c \in Clauses, RegisterLemma(c)
  PROVE  UP!Learn(LitSet(lits[c]), lits[c][1])
  <1> DEFINE l == lits[c][1]
  <1>1. /\ ClauseTypes /\ CallTypes
        /\ Idle /\ Value(l) = 0 /\ Assign(l, c)
        /\ \A i \in 2 .. Len(lits[c]) : Value(lits[c][i]) = -1
        /\ lits' = lits /\ registered' = registered \cup {c}
        /\ pc' = "cleanup" /\ conflict' = NoClause
        /\ levelLimits' = levelLimits
    BY DEF TrailIInv, TypeOK, RegisterLemma, StartPropagation, Attach, Assign
  <1>2. Len(lits[c]) \in Nat /\ 1 \in 1 .. Len(lits[c]) /\ l \in Lits /\ l \in LitSet(lits[c])
    BY <1>1, ClauseFacts DEF LitSet
  <1>3. \A j \in 1 .. Len(lits[c]) : j = 1 \/ j \in 2 .. Len(lits[c])
    BY <1>2
  <1>4. UP!Forces(LitSet(lits[c]), l)
    BY <1>1, <1>2, <1>3, ForcesWhenUnit
  <1>5. trail' = Append(trail, l) /\ Because' = Append(Because, LitSet(lits[c]))
    <2>1. Cause(c) = LitSet(lits[c])
      BY ClausesAssumption DEF Cause
    <2> QED
      BY <1>1, <1>2, <2>1, AssignBecause
  <1>6. UP!Ready
    BY <1>1, ReadyWhenIdle DEF CallTypes
  <1>7. Active' = Active \cup {LitSet(lits[c])}
    BY <1>1 DEF Active
  <1>8. pc' # "idle" /\ Falsified' = Falsified
    BY <1>1 DEF Falsified, Idle
  <1> QED
    BY <1>1, <1>4, <1>5, <1>6, <1>7, <1>8 DEF UP!Learn, Active, Because, Cause, Falsified

(* The calls that return at once.                                          *)
LEMMA CallStepMapped ==
  ASSUME TrailIInv, TrailIInv', OriginInv,
         \/ \E c \in Clauses : RegisterClause(c)
         \/ \E c \in Clauses : trail = <<>> /\ DeleteClause(c)
         \/ NewLevel
  PROVE  UP!Next
  <1>1. /\ ClauseTypes /\ CallTypes /\ Idle
        /\ UNCHANGED <<lits, trail, reason, pc, conflict>>
    BY DEF TrailIInv, TypeOK, RegisterClause, DeleteClause, NewLevel, Attach, trailVars, callVars, clauseVars
  <1>2. UP!Ready /\ Because' = Because /\ Falsified' = Falsified
    BY <1>1, SameBecause, ReadyWhenIdle DEF CallTypes, Falsified
  <1>3. ASSUME NEW c \in Clauses, RegisterClause(c)
        PROVE  UP!Next
    <2>1. /\ \A i \in 1 .. Len(lits[c]) : Value(lits[c][i]) = 0
          /\ registered' = registered \cup {c} /\ levelLimits' = levelLimits
      BY <1>3 DEF RegisterClause, Attach, trailVars
    <2>2. \A l \in LitSet(lits[c]) : UP!Unassigned(l)
      <3>1. \A i \in 1 .. Len(lits[c]) : lits[c][i] \in Lits
        BY <1>1, ClauseFacts
      <3> QED
        BY <2>1, <3>1, OnTrail DEF LitSet
    <2>3. Active' = Active \cup {LitSet(lits[c])}
      BY <1>1, <2>1 DEF Active
    <2>4. UP!Register(LitSet(lits[c]))
      BY <1>1, <1>2, <2>1, <2>2, <2>3 DEF UP!Register, Active, Because, Cause, Falsified
    <2>5. LitSet(lits[c]) \in {LitSet(f[k]) : f \in Formulas, k \in Clauses}
      BY DEF OriginInv
    <2> QED
      BY <2>4, <2>5 DEF UP!Next
  <1>4. ASSUME NEW c \in Clauses, trail = <<>>, DeleteClause(c)
        PROVE  UP!Next
    <2>1. /\ trail = <<>> /\ registered' = registered \ {c} /\ levelLimits' = levelLimits
      BY <1>4 DEF DeleteClause, trailVars
    <2> DEFINE S == Active \ Active'
    <2>2. Active' \subseteq Active
      BY <1>1, <2>1 DEF Active
    <2>3. Active' = Active \ S /\ S \in SUBSET Active
      BY <2>2
    <2>4. UP!Unregister(S)
      <3> HIDE DEF S
      <3> QED
        BY <1>1, <1>2, <2>1, <2>3 DEF UP!Unregister, Active, Because, Cause, Falsified
    <2> HIDE DEF S
    <2> QED
      BY <2>3, <2>4 DEF UP!Next, Active
  <1>5. ASSUME NewLevel
        PROVE  UP!Next
    <2>1. registered' = registered /\ levelLimits' = Append(levelLimits, Len(trail))
      BY <1>5 DEF NewLevel, clauseVars
    <2>2. Active' = Active
      BY <1>1, <2>1 DEF Active
    <2>3. UP!OpenLevel
      BY <1>1, <1>2, <2>1, <2>2 DEF UP!OpenLevel, Active, Because, Cause, Falsified
    <2> QED
      BY <2>3 DEF UP!Next
  <1> QED
    BY <1>3, <1>4, <1>5

(* Backtracking.                                                           *)
LEMMA UndoStepMapped ==
  ASSUME TrailIInv, TrailIInv', (\E k \in 0 .. CurrentLevel : UndoToLevel(k)) \/ UndoAll
  PROVE  UP!Next
  <1>1. /\ TrailTypes /\ LevelsMatchTrail /\ pc = "idle"
        /\ levelLimits \in Seq(Nat) /\ Len(levelLimits) \in Nat /\ Len(levelLimits) >= 1
        /\ Len(trail) \in Nat
        /\ UNCHANGED <<lits, registered, reason, pc>> /\ conflict' = NoClause
    BY LenProperties DEF TrailIInv, TypeOK, TrailInv, TrailTypes, UndoToLevel, UndoAll, clauseVars
  <1>2. Active' = Active /\ Falsified' = {}
    BY <1>1 DEF Active, Falsified
  <1>3. ASSUME NEW k \in 0 .. CurrentLevel, UndoToLevel(k)
        PROVE  UP!Next
    <2>1. /\ k \in 0 .. Len(levelLimits) - 2 /\ k \in 0 .. Len(levelLimits)
          /\ k + 2 \in 1 .. Len(levelLimits)
          /\ PopTrailTo(levelLimits[k + 2])
          /\ levelLimits' = SubSeq(levelLimits, 1, k + 1)
      BY <1>1, <1>3 DEF UndoToLevel, CurrentLevel
    <2>2. levelLimits[k + 2] \in 0 .. Len(trail)
      <3>1. levelLimits[k + 2] \in Nat
        BY <1>1, <2>1, ElementOfSeq
      <3> QED
        BY <1>1, <2>1, <3>1 DEF LevelsMatchTrail
    <2>3. Because' = SubSeq(Because, 1, levelLimits[k + 2])
      BY <1>1, <2>1, <2>2, PopBecause
    <2>4. trail' = SubSeq(trail, 1, levelLimits[k + 2])
      BY <2>1 DEF PopTrailTo
    <2>5. UP!Undo(k)
      BY <1>1, <1>2, <2>1, <2>3, <2>4 DEF UP!Undo, Active, Because, Cause, Falsified
    <2> QED
      BY <2>1, <2>5 DEF UP!Next
  <1>4. ASSUME UndoAll
        PROVE  UP!Next
    <2>1. PopTrailTo(0) /\ levelLimits' = SubSeq(levelLimits, 1, 1) /\ 0 \in 0 .. Len(trail)
      BY <1>1, <1>4 DEF UndoAll
    <2>2. levelLimits' = <<0>>
      <3>1. levelLimits[1] = 0 /\ \A i \in 1 .. 1 : levelLimits[i] \in Nat
        BY <1>1, ElementOfSeq DEF LevelsMatchTrail
      <3>2. /\ SubSeq(levelLimits, 1, 1) \in Seq(Nat)
            /\ Len(SubSeq(levelLimits, 1, 1)) = 1
            /\ SubSeq(levelLimits, 1, 1)[1] = 0
        BY <3>1, SubSeqProperties
      <3>3. <<0>> \in Seq(Nat) /\ Len(<<0>>) = 1 /\ <<0>>[1] = 0
        OBVIOUS
      <3>4. \A i \in 1 .. 1 : i = 1
        OBVIOUS
      <3> QED
        BY <2>1, <3>2, <3>3, <3>4, SeqEqual
    <2>3. trail' = <<>>
      BY <2>1, SubSeqEmpty DEF PopTrailTo
    <2>4. Because' = <<>>
      <3>1. Because' = SubSeq(Because, 1, 0)
        BY <1>1, <2>1, PopBecause
      <3> QED
        BY <3>1, SubSeqEmpty
    <2>5. UP!Reset
      BY <1>1, <1>2, <2>2, <2>3, <2>4 DEF UP!Reset, Active, Because, Cause, Falsified
    <2> QED
      BY <2>5 DEF UP!Next
  <1> QED
    BY <1>3, <1>4

(* A watcher met by a traversal belongs to a registered clause, and its    *)
(* other literals are false when it forces a literal or is in conflict.    *)
LEMMA UnitOrFalsified ==
  ASSUME TrailIInv, WatchIInv, DirtyInv, NEW w \in todo, NEW l,
         \/ l = w.blocker /\ (BinaryForce(w) \/ BinaryConflict(w))
         \/ l = OtherWatched(w) /\ (LongForce(w) \/ LongConflict(w))
  PROVE  /\ w.clause \in registered /\ w.clause \in Clauses
         /\ l \in LitSet(lits[w.clause]) /\ l \in Lits
         /\ \A j \in 1 .. Len(lits[w.clause]) :
              lits[w.clause][j] = l \/ Value(lits[w.clause][j]) = -1
  <1> DEFINE c == w.clause
  <1>1. /\ ClauseTypes /\ PlacedInv /\ TodoInv /\ pc \in {"binaries", "long"}
        /\ c \in Clauses /\ w.idx \in {1, 2}
    BY DEF TrailIInv, TypeOK, WatchIInv, CallTypes, Watcher, BinaryForce, BinaryConflict,
           LongForce, LongConflict, Examined, Visiting
  <1>2. Neg(cur) \in Lits /\ Value(Neg(cur)) = -1
    BY <1>1, CurTrue
  <1>3. w \in Listed(Neg(cur))
    BY <1>1 DEF TodoInv, Listed
  <1>4. c \in registered /\ lits[c][w.idx] = Neg(cur)
    <2>1. \A x \in Lits : \A y \in Listed(x) :
            y.clause \in registered \cup scheduled /\ lits[y.clause][y.idx] = x
      BY <1>1, TraversalPlaced DEF Listed
    <2>2. c \notin scheduled
      BY <1>1, <1>2, <1>3 DEF DirtyInv
    <2> QED
      BY <1>2, <1>3, <2>1, <2>2
  <1>5. /\ Len(lits[c]) \in Nat /\ Len(lits[c]) >= 2
        /\ w.idx \in 1 .. Len(lits[c]) /\ 3 - w.idx \in 1 .. Len(lits[c])
        /\ \A j \in 1 .. Len(lits[c]) : lits[c][j] \in Lits
    BY <1>1, ClauseFacts
  <1>6. l = lits[c][3 - w.idx]
    <2>1. CASE l = w.blocker /\ (BinaryForce(w) \/ BinaryConflict(w))
      <3>1. w \in binWatchers[Neg(cur)]
        BY <1>1, <2>1 DEF BinaryForce, BinaryConflict, TodoInv
      <3> QED
        BY <1>1, <1>2, <2>1, <3>1 DEF PlacedInv, BinaryInv
    <2>2. CASE l = OtherWatched(w)
      BY <2>2 DEF OtherWatched
    <2> QED
      BY <2>1, <2>2
  <1>7. ASSUME NEW j \in 1 .. Len(lits[c]), j # 3 - w.idx
        PROVE  Value(lits[c][j]) = -1
    <2>1. CASE j = w.idx
      BY <1>2, <1>4, <2>1
    <2>2. CASE j # w.idx
      <3>1. j \in 3 .. Len(lits[c])
        BY <1>1, <1>5, <1>7, <2>2
      <3>2. CASE BinaryForce(w) \/ BinaryConflict(w)
        <4>1. w \in binWatchers[Neg(cur)]
          BY <1>1, <3>2 DEF BinaryForce, BinaryConflict, TodoInv
        <4>2. Len(lits[c]) = 2
          BY <1>1, <1>2, <4>1 DEF PlacedInv, BinaryInv
        <4> QED
          BY <3>1, <4>2
      <3>3. CASE LongForce(w) \/ LongConflict(w)
        BY <3>1, <3>3 DEF LongForce, LongConflict, NoNewWatch
      <3> QED
        BY <3>2, <3>3
    <2> QED
      BY <2>1, <2>2
  <1>8. l \in LitSet(lits[c]) /\ l \in Lits
    BY <1>5, <1>6 DEF LitSet
  <1> QED
    BY <1>1, <1>4, <1>6, <1>7, <1>8

LEMMA ForceStepMapped ==
  ASSUME TrailIInv, TrailIInv', WatchIInv, DirtyInv, NEW w \in todo, BinaryForce(w) \/ LongForce(w)
  PROVE  UP!Next
  <1> DEFINE l == IF pc = "binaries" THEN w.blocker ELSE OtherWatched(w)
             c == w.clause
  <1>1. /\ Value(l) = 0 /\ Assign(l, c) /\ pc # "idle" /\ pc' = pc
        /\ UNCHANGED <<lits, registered, conflict, levelLimits>>
    BY DEF BinaryForce, LongForce, Examined, Visiting, clauseVars, Assign
  <1>2. \/ l = w.blocker /\ (BinaryForce(w) \/ BinaryConflict(w))
        \/ l = OtherWatched(w) /\ (LongForce(w) \/ LongConflict(w))
    BY DEF BinaryForce, LongForce, Examined, Visiting
  <1> HIDE DEF l
  <1>3. /\ c \in registered /\ c \in Clauses /\ l \in LitSet(lits[c]) /\ l \in Lits
        /\ \A j \in 1 .. Len(lits[c]) : lits[c][j] = l \/ Value(lits[c][j]) = -1
    BY <1>2, UnitOrFalsified
  <1>4. UP!Forces(LitSet(lits[c]), l)
    BY <1>1, <1>3, ForcesWhenUnit
  <1>5. trail' = Append(trail, l) /\ Because' = Append(Because, LitSet(lits[c]))
    <2>1. Cause(c) = LitSet(lits[c])
      BY <1>3, ClausesAssumption DEF Cause
    <2> QED
      BY <1>1, <1>3, <2>1, AssignBecause
  <1>6. Active' = Active /\ Falsified' = Falsified /\ LitSet(lits[c]) \in Active
    BY <1>1, <1>3 DEF Active, Falsified
  <1>7. UP!ForceUnit(LitSet(lits[c]), l)
    BY <1>1, <1>4, <1>5, <1>6 DEF UP!ForceUnit, Active, Because, Cause, Falsified
  <1> QED
    BY <1>3, <1>6, <1>7, Mapped DEF UP!Next, Active

LEMMA FailStepMapped ==
  ASSUME TrailIInv, WatchIInv, DirtyInv, NEW w \in todo, BinaryConflict(w) \/ LongConflict(w)
  PROVE  UP!Next
  <1> DEFINE l == IF pc = "binaries" THEN w.blocker ELSE OtherWatched(w)
             c == w.clause
  <1>1. /\ Value(l) = -1 /\ pc # "idle" /\ pc' = "idle" /\ conflict' = c
        /\ UNCHANGED <<lits, registered, trail, reason, levelLimits>>
    BY DEF BinaryConflict, LongConflict, Examined, Visiting, Return, clauseVars, trailVars
  <1>2. \/ l = w.blocker /\ (BinaryForce(w) \/ BinaryConflict(w))
        \/ l = OtherWatched(w) /\ (LongForce(w) \/ LongConflict(w))
    BY DEF BinaryConflict, LongConflict, Examined, Visiting
  <1> HIDE DEF l
  <1>3. /\ c \in registered /\ c \in Clauses
        /\ \A j \in 1 .. Len(lits[c]) : Value(lits[c][j]) = -1
    BY <1>1, <1>2, UnitOrFalsified
  <1>4. UP!Falsified(LitSet(lits[c]))
    <2>1. \A j \in 1 .. Len(lits[c]) : lits[c][j] \in Lits
      BY <1>3, ClauseFacts DEF TrailIInv, TypeOK
    <2> QED
      BY <1>3, <2>1, OnTrail DEF UP!Falsified, LitSet
  <1>5. Because' = Because
    BY <1>1, SameBecause
  <1>6. Active' = Active /\ Falsified' = LitSet(lits[c]) /\ LitSet(lits[c]) \in Active
    BY <1>1, <1>3, ClausesAssumption DEF Active, Falsified
  <1>7. UP!Fail(LitSet(lits[c]))
    BY <1>1, <1>4, <1>5, <1>6 DEF UP!Fail, Active, Because, Cause, Falsified
  <1> QED
    BY <1>6, <1>7 DEF UP!Next, Active

(* With nothing pending, no clause is unit or falsified.                   *)
LEMMA SucceedStepMapped ==
  ASSUME TrailIInv, WatchIInv, WitnessInv, FixpointReached
  PROVE  UP!Next
  <1>1. /\ ClauseTypes /\ TrailTypes /\ CallTypes /\ registered \subseteq Clauses
        /\ pc = "long" /\ todo = {} /\ qhead = qend /\ conflict = NoClause
        /\ pc' = "idle" /\ conflict' = NoClause
        /\ UNCHANGED <<lits, registered, trail, reason, levelLimits>>
    BY DEF TrailIInv, TypeOK, ClauseTypes, WatchIInv, TodoInv, FixpointReached, Return, clauseVars, trailVars
  <1>2. ASSUME NEW c \in registered
        PROVE  \E n, m \in 1 .. Len(lits[c]) :
                 \/ Value(lits[c][n]) = 1
                 \/ n # m /\ Value(lits[c][n]) = 0 /\ Value(lits[c][m]) = 0
    <2>1. c \in Clauses
      BY <1>1
    <2>2. /\ 1 \in 1 .. Len(lits[c]) /\ 2 \in 1 .. Len(lits[c])
          /\ lits[c][1] \in Lits /\ lits[c][2] \in Lits
      BY <1>1, <2>1, ClauseFacts
    <2>3. ASSUME NEW i \in {1, 2}, Value(lits[c][i]) = -1
          PROVE  \E j \in 1 .. Len(lits[c]) : Value(lits[c][j]) = 1
      <3>1. Excused(c, i)
        BY <2>3 DEF WitnessInv
      <3>2. qhead \in Nat /\ \A p \in qhead + 1 .. qend : FALSE
        BY <1>1 DEF CallTypes
      <3>3. ~Pending(c, i)
        BY <1>1, <3>2 DEF Pending, InQueue, InTraversal
      <3> QED
        BY <1>1, <3>1, <3>3 DEF Excused, Witnessed
    <2>4. Value(lits[c][1]) \in {-1, 0, 1} /\ Value(lits[c][2]) \in {-1, 0, 1}
      BY <1>1, <2>2, ValueFacts DEF TrailTypes
    <2>5. CASE Value(lits[c][1]) = -1 \/ Value(lits[c][2]) = -1
      <3>1. PICK j \in 1 .. Len(lits[c]) : Value(lits[c][j]) = 1
        BY <2>3, <2>5
      <3> QED
        BY <3>1
    <2>6. CASE Value(lits[c][1]) = 1 \/ Value(lits[c][2]) = 1
      BY <2>2, <2>6
    <2>7. CASE Value(lits[c][1]) = 0 /\ Value(lits[c][2]) = 0
      BY <2>2, <2>7, 1 # 2
    <2> QED
      BY <2>4, <2>5, <2>6, <2>7
  <1>3. ASSUME NEW c \in registered
        PROVE  ~UP!Falsified(LitSet(lits[c])) /\ \A l \in LitSet(lits[c]) : ~UP!Forces(LitSet(lits[c]), l)
    <2>1. c \in Clauses /\ \A j \in 1 .. Len(lits[c]) : lits[c][j] \in Lits
      BY <1>1, ClauseFacts
    <2>2. \A j \in 1 .. Len(lits[c]) : lits[c][j] \in LitSet(lits[c])
      BY DEF LitSet
    <2>3. PICK n, m \in 1 .. Len(lits[c]) :
            \/ Value(lits[c][n]) = 1
            \/ n # m /\ Value(lits[c][n]) = 0 /\ Value(lits[c][m]) = 0
      BY <1>2
    <2>4. ~UP!False(lits[c][n])
      <3>1. Value(lits[c][n]) # -1
        BY <2>3
      <3> QED
        BY <2>1, <3>1, OnTrail
    <2>5. ~UP!Falsified(LitSet(lits[c]))
      BY <2>2, <2>4 DEF UP!Falsified
    <2>6. ASSUME NEW l \in LitSet(lits[c]), UP!Forces(LitSet(lits[c]), l)
          PROVE  FALSE
      <3>1. l \in Lits
        BY <2>1 DEF LitSet
      <3>2. Value(l) = 0
        BY <2>6, <3>1, OnTrail DEF UP!Forces
      <3>3. lits[c][n] = l
        BY <2>2, <2>4, <2>6 DEF UP!Forces
      <3>4. n # m /\ Value(lits[c][m]) = 0
        BY <2>3, <3>2, <3>3
      <3>5. lits[c][m] # l
        BY <1>1, <2>1, <3>3, <3>4, ClauseFacts
      <3>6. UP!False(lits[c][m])
        BY <2>2, <2>6, <3>5 DEF UP!Forces
      <3> QED
        BY <2>1, <3>4, <3>6, OnTrail
    <2> QED
      BY <2>5, <2>6
  <1>4. UP!Quiescent
    BY <1>3 DEF UP!Quiescent
  <1>5. Because' = Because
    BY <1>1, SameBecause
  <1>6. Active' = Active /\ Falsified' = Falsified
    BY <1>1 DEF Active, Falsified
  <1>7. UP!Succeed
    BY <1>1, <1>4, <1>5, <1>6 DEF UP!Succeed, Active, Because, Cause, Falsified
  <1> QED
    BY <1>7 DEF UP!Next

(* The steps a client of Assignment cannot see.                            *)
LEMMA HiddenStepMapped ==
  ASSUME TrailIInv, WatchIInv, QueueLevels, WitnessInv,
         \/ \E l \in Lits : CleanupWatchers(l)
         \/ CleanupDone \/ BinariesDone \/ NextLiteral
         \/ \E w \in todo : BinarySkip(w) \/ SkipWatcher(w) \/ MoveWatcher(w)
         \/ UNCHANGED vars
  PROVE  UNCHANGED UP!absVars
  <1>1. /\ UNCHANGED <<registered, trail, reason, levelLimits, conflict>>
        /\ (pc' # "idle") <=> (pc # "idle")
    BY DEF CleanupWatchers, CleanupDone, BinariesDone, NextLiteral, BinarySkip, SkipWatcher,
           MoveWatcher, Examined, Visiting, vars, clauseVars, trailVars, callVars
  <1>2. \A c \in Clauses : LitSet(lits'[c]) = LitSet(lits[c])
    <2>1. CASE \E w \in todo : MoveWatcher(w)
      BY <2>1, MoveWitness
    <2>2. CASE ~\E w \in todo : MoveWatcher(w)
      <3>1. lits' = lits
        BY <2>2 DEF CleanupWatchers, CleanupDone, BinariesDone, NextLiteral, BinarySkip,
                    SkipWatcher, vars, clauseVars
      <3> QED
        BY <3>1
    <2> QED
      BY <2>1, <2>2
  <1>3. Because' = Because
    BY <1>1, <1>2, SameBecause
  <1>4. registered \subseteq Clauses /\ conflict \in Clauses \cup {NoClause}
    BY DEF TrailIInv, TypeOK, ClauseTypes, CallTypes
  <1>5. Active' = Active
    <2>1. \A c \in registered : LitSet(lits'[c]) = LitSet(lits[c])
      BY <1>2, <1>4
    <2>2. Active' = {LitSet(lits'[c]) : c \in registered}
      BY <1>1 DEF Active
    <2> QED
      BY <2>1, <2>2 DEF Active
  <1>6. Falsified' = Falsified
    BY <1>1, <1>2, <1>4 DEF Falsified
  <1>7. Because' = Because /\ Active' = Active /\ Falsified' = Falsified /\ ((pc # "idle")' = (pc # "idle"))
    BY <1>1, <1>3, <1>5, <1>6
  <1> QED
    BY <1>1, <1>7 DEF UP!absVars, Active, Because, Cause, Falsified

(* Unit propagation with two watched literals, blockers, dirty marks and a *)
(* queue implements UnitPropagation, for every set of clauses: whatever is *)
(* made true during a call is forced by a clause that has become unit and  *)
(* is recorded as its reason, a conflict is a falsified clause, and a call *)
(* that returns without one leaves no unit clause behind.                  *)
THEOREM UnitPropagationImplemented == ClientSpec => ImplementsUnitPropagation
  <1>1. Init => UP!Init
    <2> SUFFICES ASSUME Init PROVE UP!Init
      OBVIOUS
    <2>1. /\ registered = {} /\ trail = <<>> /\ levelLimits = <<0>>
          /\ pc = "idle" /\ conflict = NoClause
      BY DEF Init
    <2>2. Active = {} /\ Falsified = {}
      BY <2>1 DEF Active, Falsified
    <2>3. Because = <<>>
      <3>1. Because = [i \in 1 .. 0 |-> Cause(reason[VarOf(trail[i])])]
        BY <2>1 DEF Because
      <3> QED
        BY <3>1
    <2> QED
      BY <2>1, <2>2, <2>3 DEF UP!Init, Active, Because, Cause, Falsified
  <1>2. /\ TrailIInv /\ TrailIInv' /\ WatchIInv /\ PropagationIInv
        /\ [ClientNext]_vars
        => [UP!Next]_(UP!absVars)
    <2> SUFFICES ASSUME TrailIInv, TrailIInv', WatchIInv, PropagationIInv, [ClientNext]_vars
                 PROVE  UP!Next \/ UNCHANGED UP!absVars
      OBVIOUS
    <2>1. QueueLevels /\ DirtyInv /\ OriginInv /\ WitnessInv
      BY DEF PropagationIInv
    <2>2. ASSUME NEW l \in Lits, AppendLit(l, "include")
          PROVE  UP!Next
      <3>1. UP!Decide(l)
        BY <2>2, AssignStepMapped
      <3> QED
        BY <3>1, Mapped DEF UP!Next
    <2>3. ASSUME NEW c \in Clauses, RegisterLemma(c)
          PROVE  UP!Next
      <3>1. UP!Learn(LitSet(lits[c]), lits[c][1])
        BY <2>3, LemmaStepMapped
      <3>2. LitSet(lits[c]) \in {LitSet(f[k]) : f \in Formulas, k \in Clauses}
        BY <2>1 DEF OriginInv
      <3>3. lits[c][1] \in Lits
        BY WatcherForType DEF TrailIInv, TypeOK
      <3> QED
        BY <3>1, <3>2, <3>3, Mapped DEF UP!Next
    <2>4. CASE \/ \E c \in Clauses : RegisterClause(c)
               \/ \E c \in Clauses : trail = <<>> /\ DeleteClause(c)
               \/ NewLevel
      BY <2>1, <2>4, CallStepMapped
    <2>5. CASE (\E k \in 0 .. CurrentLevel : UndoToLevel(k)) \/ UndoAll
      BY <2>5, UndoStepMapped
    <2>6. ASSUME NEW w \in todo, BinaryForce(w) \/ LongForce(w)
          PROVE  UP!Next
      BY <2>1, <2>6, ForceStepMapped
    <2>7. ASSUME NEW w \in todo, BinaryConflict(w) \/ LongConflict(w)
          PROVE  UP!Next
      BY <2>1, <2>7, FailStepMapped
    <2>8. CASE FixpointReached
      BY <2>1, <2>8, SucceedStepMapped
    <2>9. CASE \/ \E l \in Lits : CleanupWatchers(l)
               \/ CleanupDone \/ BinariesDone \/ NextLiteral
               \/ \E w \in todo : BinarySkip(w) \/ SkipWatcher(w) \/ MoveWatcher(w)
               \/ UNCHANGED vars
      BY <2>1, <2>9, HiddenStepMapped
    <2> QED
      BY <2>2, <2>3, <2>4, <2>5, <2>6, <2>7, <2>8, <2>9 DEF ClientNext, Propagate
  <1>3. Init => ClientInv
    BY DEF Init, ClientInv
  <1>4. TrailIInv => TypeOK
    BY DEF TrailIInv
  <1> QED
    BY <1>1, <1>2, <1>3, <1>4, ClientIsClient, InitTrailIInv, NextTrailIInv, InitWatchIInv,
       NextWatchIInv, NextClientInv, InitPropagationIInv, NextPropagationIInv, PTL
    DEF ClientSpec, ImplementsUnitPropagation, UP!Spec
=============================================================================
