----------------------------- MODULE TrailProofs -----------------------------
(***************************************************************************)
(* The trail, seen as UnitPropagation keeps it: an inductive invariant of  *)
(* its steps, and what conflict analysis derives from a trail with that    *)
(* invariant.                                                              *)
(***************************************************************************)
EXTENDS ConflictAnalysis, FiniteSetTheorems, SequenceTheorems, TLAPS

(* The first n positions of the trail make l true, or false.               *)
TrueBy(l, n)  == \E p \in 1 .. n : assigned[p] = l
FalseBy(l, n) == \E p \in 1 .. n : assigned[p] = Neg(l)

(* Position i of the trail is on level k or on a lower one.                *)
UpToLevel(k, i) == Len(limits) <= k + 1 \/ i <= limits[k + 2]

(* A clause as the solver stores it.                                       *)
Proper(C) ==
  C \in SUBSET Lits /\ (\A l \in C : Neg(l) \notin C) /\ \E l, m \in C : l # m

ActiveProper == \A C \in active : Proper(C)

----------------------------------------------------------------------------
(* The inductive invariant.                                                *)

(* The trail is divided into levels and has no variable twice.             *)
TrailShape ==
  /\ assigned \in Seq(Lits) /\ because \in Seq(SUBSET Lits)
  /\ Len(because) = Len(assigned)
  /\ limits \in Seq(Nat) /\ Len(limits) >= 1 /\ limits[1] = 0
  /\ \A j, k \in 1 .. Len(limits) : j <= k => limits[j] <= limits[k]
  /\ \A k \in 1 .. Len(limits) : limits[k] <= Len(assigned)
  /\ \A i, j \in 1 .. Len(assigned) : VarOf(assigned[i]) = VarOf(assigned[j]) => i = j

(* A reason forced its literal, and did not before its level was opened.   *)
ReasonsRight ==
  \A i \in 1 .. Len(assigned) : because[i] # {} =>
    /\ because[i] \in active
    /\ assigned[i] \in because[i]
    /\ \A m \in because[i] \ {assigned[i]} : FalseBy(m, i - 1)
    /\ \A k \in 2 .. Len(limits) : limits[k] < i =>
         \E m \in because[i] \ {assigned[i]} : ~FalseBy(m, limits[k])

(* Only a call that has ended has a conflict.                              *)
ConflictRight ==
  /\ busy \in BOOLEAN
  /\ busy => falsified = {}
  /\ falsified # {} => falsified \in active /\ Falsified(falsified)

(* The first n literals of the trail leave nothing to propagate.           *)
QuietAt(n) ==
  \A C \in active : \A l \in C : (\A m \in C \ {l} : FalseBy(m, n)) => TrueBy(l, n)

(* Every level was opened when there was nothing left to propagate.        *)
LevelsQuiet ==
  /\ \A k \in 2 .. Len(limits) : QuietAt(limits[k])
  /\ Ready => QuietAt(Len(assigned))

TrailIInv == TrailShape /\ ReasonsRight /\ ConflictRight /\ LevelsQuiet /\ ActiveProper

----------------------------------------------------------------------------
(* Literals, numbers and recursion.                                        *)

LEMMA LitFacts ==
  /\ \A l \in Lits : Neg(l) \in Lits /\ Neg(Neg(l)) = l /\ Neg(l) # l
  /\ \A l \in Lits : VarOf(l) \in Vars /\ VarOf(Neg(l)) = VarOf(l)
  /\ \A l, m \in Lits : VarOf(l) = VarOf(m) => m = l \/ m = Neg(l)
  /\ Vars \subseteq Lits /\ \A v \in Vars : VarOf(v) = v /\ Neg(v) = -v
  BY NumVarsAssumption DEF Lits, Vars, Neg, VarOf

LEMMA NegInjective ==
  ASSUME NEW l \in Lits, NEW m \in Lits, Neg(l) = Neg(m)
  PROVE  l = m
  BY LitFacts

(* A nonempty set of natural numbers has a least element ...               *)
LEMMA Least ==
  ASSUME NEW T \in SUBSET Nat, T # {}
  PROVE  \E n \in T : \A m \in T : n <= m
  <1> DEFINE Less == {ss \in Nat \X Nat : ss[1] < ss[2]}
  <1>1. IsWellFoundedOn(Less, Nat)
    BY NatLessThanWellFounded DEF OpToRel
  <1>2. \A x, y \in Nat : <<y, x>> \in Less <=> y < x
    OBVIOUS
  <1> HIDE DEF Less
  <1>3. \E x \in T : \A y \in T : ~ (<<y, x>> \in Less)
    BY <1>1, WFMin, Zenon
  <1>4. \A x, y \in Nat : ~(y < x) => x <= y
    OBVIOUS
  <1> QED
    BY <1>2, <1>3, <1>4

(* ... and if it is bounded, a greatest one.                               *)
LEMMA Greatest ==
  ASSUME NEW T \in SUBSET Nat, T # {}, NEW b \in Nat, \A m \in T : m <= b
  PROVE  \E n \in T : \A m \in T : m <= n
  <1> DEFINE D == {d \in Nat : b - d \in T}
  <1>1. \A m \in T : b - m \in D
    OBVIOUS
  <1>2. PICK d \in D : \A e \in D : d <= e
    BY <1>1, Least
  <1>3. \A m \in T : d <= b - m
    BY <1>1, <1>2
  <1>4. b - d \in T /\ \A m \in T : m <= b - d
    BY <1>2, <1>3
  <1> QED
    BY <1>4

(* What a set of numbers has when it has n + 1 whenever it has n.          *)
LEMMA Induction ==
  ASSUME NEW T, 0 \in T, \A n \in Nat : n \in T => n + 1 \in T
  PROVE  \A n \in Nat : n \in T
  <1> SUFFICES ASSUME NEW n \in Nat, n \notin T
               PROVE  FALSE
    OBVIOUS
  <1>1. PICK k \in Nat \ T : \A m \in Nat \ T : k <= m
    BY Least
  <1> QED
    BY <1>1

(* The functions of the walks along the trail: down from b, where each     *)
(* value is computed from the one before it, and up from 1, where each is  *)
(* computed from all the earlier ones.  They exist.                        *)
DownwardFunctions(a, b, V, base, step) ==
  {f \in [a .. b -> V] : \A i \in a .. b : f[i] = IF i = b THEN base ELSE step[i + 1][f[i + 1]]}

UpwardFunctions(n, V, step) ==
  {f \in [1 .. n -> V] : \A i \in 1 .. n : f[i] = step[i][f]}

LEMMA DownwardFunction ==
  ASSUME NEW a \in Int, NEW b \in Int, a <= b, NEW V, NEW base \in V,
         NEW step \in [a + 1 .. b -> [V -> V]]
  PROVE  DownwardFunctions(a, b, V, base, step) # {}
  <1> DEFINE Right(f, i) == f[i] = IF i = b THEN base ELSE step[i + 1][f[i + 1]]
             T == {k \in Nat : k <= b - a => \E f \in [a .. b -> V] : \A i \in b - k .. b : Right(f, i)}
  <1>1. 0 \in T
    <2>1. [i \in a .. b |-> base] \in [a .. b -> V] /\ \A i \in b - 0 .. b : Right([j \in a .. b |-> base], i)
      OBVIOUS
    <2> QED
      BY <2>1
  <1>2. ASSUME NEW k \in Nat, k \in T
        PROVE  k + 1 \in T
    <2> SUFFICES ASSUME k + 1 <= b - a
                 PROVE  \E f \in [a .. b -> V] : \A i \in b - (k + 1) .. b : Right(f, i)
      OBVIOUS
    <2>1. PICK f \in [a .. b -> V] : \A i \in b - k .. b : Right(f, i)
      BY <1>2
    <2> DEFINE c == b - (k + 1)
               g == [f EXCEPT ![c] = step[c + 1][f[c + 1]]]
    <2>2. c \in a .. b /\ c + 1 \in a + 1 .. b /\ c + 1 \in b - k .. b /\ c # b
      OBVIOUS
    <2>3. step[c + 1] \in [V -> V] /\ f[c + 1] \in V
      BY <2>2
    <2>4. step[c + 1][f[c + 1]] \in V
      BY <2>3
    <2>5. g \in [a .. b -> V] /\ g[c] = step[c + 1][f[c + 1]] /\ \A i \in a .. b : i # c => g[i] = f[i]
      BY <2>2, <2>4
    <2> HIDE DEF g
    <2>6. ASSUME NEW i \in c .. b
          PROVE  Right(g, i)
      <3>1. CASE i = c
        <4>1. g[c + 1] = f[c + 1]
          BY <2>2, <2>5
        <4> QED
          BY <2>2, <2>5, <3>1, <4>1
      <3>2. CASE i # c
        <4>1. i \in b - k .. b /\ i \in a .. b
          BY <3>2
        <4>2. g[i] = f[i] /\ (i # b => g[i + 1] = f[i + 1])
          BY <2>2, <2>5, <3>2, <4>1
        <4> QED
          BY <2>1, <4>1, <4>2
      <3> QED
        BY <3>1, <3>2
    <2> QED
      BY <2>5, <2>6
  <1>3. b - a \in T
    <2> HIDE DEF T
    <2>1. \A k \in Nat : k \in T
      BY <1>1, <1>2, Induction
    <2> QED
      BY <2>1
  <1>4. PICK f \in [a .. b -> V] : \A i \in b - (b - a) .. b : Right(f, i)
    BY <1>3
  <1> QED
    BY <1>4 DEF DownwardFunctions

LEMMA UpwardFunction ==
  ASSUME NEW n \in Nat, NEW V, NEW base \in V,
         NEW step \in [1 .. n -> [[1 .. n -> V] -> V]],
         \A i \in 1 .. n : \A g, h \in [1 .. n -> V] :
           (\A j \in 1 .. n : j < i => g[j] = h[j]) => step[i][g] = step[i][h]
  PROVE  UpwardFunctions(n, V, step) # {}
  <1> DEFINE T == {k \in Nat : k <= n => \E f \in [1 .. n -> V] : \A i \in 1 .. k : f[i] = step[i][f]}
  <1>1. 0 \in T
    <2>1. [i \in 1 .. n |-> base] \in [1 .. n -> V] /\ 1 .. 0 = {}
      OBVIOUS
    <2> QED
      BY <2>1
  <1>2. ASSUME NEW k \in Nat, k \in T
        PROVE  k + 1 \in T
    <2> SUFFICES ASSUME k + 1 <= n
                 PROVE  \E f \in [1 .. n -> V] : \A i \in 1 .. k + 1 : f[i] = step[i][f]
      OBVIOUS
    <2>1. PICK f \in [1 .. n -> V] : \A i \in 1 .. k : f[i] = step[i][f]
      BY <1>2
    <2>2. \A i \in 1 .. n : step[i] \in [[1 .. n -> V] -> V]
      OBVIOUS
    <2>3. step[k + 1][f] \in V
      BY <2>2
    <2> DEFINE g == [f EXCEPT ![k + 1] = step[k + 1][f]]
    <2>4. g \in [1 .. n -> V] /\ g[k + 1] = step[k + 1][f] /\ \A i \in 1 .. n : i # k + 1 => g[i] = f[i]
      BY <2>3
    <2> HIDE DEF g
    <2>5. ASSUME NEW i \in 1 .. k + 1
          PROVE  g[i] = step[i][g]
      <3>1. i \in 1 .. n /\ \A j \in 1 .. n : j < i => g[j] = f[j]
        BY <2>4
      <3>2. step[i][g] = step[i][f]
        BY <2>4, <3>1
      <3>3. i = k + 1 \/ (i \in 1 .. k /\ i # k + 1)
        OBVIOUS
      <3> QED
        BY <2>1, <2>4, <3>1, <3>2, <3>3
    <2> QED
      BY <2>4, <2>5
  <1>3. n \in T
    <2> HIDE DEF T
    <2>1. \A k \in Nat : k \in T
      BY <1>1, <1>2, Induction
    <2> QED
      BY <2>1
  <1> QED
    BY <1>3 DEF UpwardFunctions
----------------------------------------------------------------------------
(* The trail and its prefixes.                                             *)

LEMMA TrailTypes ==
  ASSUME TrailShape
  PROVE  /\ Len(assigned) \in Nat /\ Len(limits) \in Nat \ {0}
         /\ \A i \in 1 .. Len(assigned) : assigned[i] \in Lits /\ because[i] \in SUBSET Lits
         /\ \A k \in 1 .. Len(limits) : limits[k] \in 0 .. Len(assigned)
  <1>1. Len(assigned) \in Nat /\ Len(limits) \in Nat /\ Len(limits) >= 1
    BY DEF TrailShape
  <1>2. \A i \in 1 .. Len(assigned) : assigned[i] \in Lits
    BY ElementOfSeq DEF TrailShape
  <1>3. \A i \in 1 .. Len(because) : because[i] \in SUBSET Lits
    BY ElementOfSeq DEF TrailShape
  <1>4. \A k \in 1 .. Len(limits) : limits[k] \in Nat
    BY ElementOfSeq DEF TrailShape
  <1> QED
    BY <1>1, <1>2, <1>3, <1>4 DEF TrailShape

(* No variable is on the trail twice.                                      *)
LEMMA Consistent ==
  ASSUME TrailShape
  PROVE  /\ \A i, j \in 1 .. Len(assigned) : assigned[i] # Neg(assigned[j])
         /\ \A i, j \in 1 .. Len(assigned) : assigned[i] = assigned[j] => i = j
         /\ \A i, j \in 1 .. Len(assigned) : Neg(assigned[i]) = Neg(assigned[j]) => i = j
  BY TrailTypes, LitFacts DEF TrailShape

LEMMA Unassignable ==
  ASSUME TrailShape, NEW l \in Lits
  PROVE  /\ True(l) <=> TrueBy(l, Len(assigned))
         /\ False(l) <=> FalseBy(l, Len(assigned))
         /\ Unassigned(l) <=> \A i \in 1 .. Len(assigned) : VarOf(assigned[i]) # VarOf(l)
  BY TrailTypes, LitFacts DEF True, False, TrueBy, FalseBy, Unassigned

LEMMA Monotone ==
  ASSUME NEW m \in Nat, NEW n \in Nat, m <= n, NEW l
  PROVE  /\ TrueBy(l, m) => TrueBy(l, n)
         /\ FalseBy(l, m) => FalseBy(l, n)
  BY DEF TrueBy, FalseBy

(* One literal more.                                                       *)
Grows(l, R) ==
  /\ Unassigned(l)
  /\ assigned' = Append(assigned, l)
  /\ because' = Append(because, R)
  /\ limits' = limits

LEMMA Growing ==
  ASSUME TrailShape, NEW l \in Lits, NEW R \in SUBSET Lits, Grows(l, R)
  PROVE  /\ TrailShape'
         /\ Len(assigned') = Len(assigned) + 1
         /\ assigned'[Len(assigned) + 1] = l /\ because'[Len(assigned) + 1] = R
         /\ \A i \in 1 .. Len(assigned) : assigned'[i] = assigned[i] /\ because'[i] = because[i]
  <1>1. /\ assigned \in Seq(Lits) /\ because \in Seq(SUBSET Lits) /\ Len(because) = Len(assigned)
        /\ assigned' = Append(assigned, l) /\ because' = Append(because, R) /\ limits' = limits
    BY DEF TrailShape, Grows
  <1>2. /\ assigned' \in Seq(Lits) /\ because' \in Seq(SUBSET Lits)
        /\ Len(assigned') = Len(assigned) + 1 /\ Len(because') = Len(because) + 1
        /\ \A i \in 1 .. Len(assigned) : assigned'[i] = assigned[i]
        /\ assigned'[Len(assigned) + 1] = l
        /\ \A i \in 1 .. Len(because) : because'[i] = because[i]
        /\ because'[Len(because) + 1] = R
    BY <1>1, AppendProperties
  <1>3. /\ Len(assigned) \in Nat
        /\ \A i \in 1 .. Len(assigned) : VarOf(assigned[i]) # VarOf(l)
    BY TrailTypes, Unassignable DEF Grows
  <1>4. \A i, j \in 1 .. Len(assigned') : VarOf(assigned'[i]) = VarOf(assigned'[j]) => i = j
    <2> SUFFICES ASSUME NEW i \in 1 .. Len(assigned'), NEW j \in 1 .. Len(assigned'),
                        VarOf(assigned'[i]) = VarOf(assigned'[j])
                 PROVE  i = j
      OBVIOUS
    <2>1. i \in 1 .. Len(assigned) \/ i = Len(assigned) + 1
      BY <1>2, <1>3
    <2>2. j \in 1 .. Len(assigned) \/ j = Len(assigned) + 1
      BY <1>2, <1>3
    <2>3. \A x, y \in 1 .. Len(assigned) : VarOf(assigned[x]) = VarOf(assigned[y]) => x = y
      BY DEF TrailShape
    <2> QED
      BY <1>2, <1>3, <2>1, <2>2, <2>3
  <1>5. \A k \in 1 .. Len(limits') : limits'[k] <= Len(assigned')
    BY <1>1, <1>2, TrailTypes
  <1> QED
    BY <1>1, <1>2, <1>4, <1>5 DEF TrailShape

(* The trail up to position n, and the levels that begin before it.        *)
Shrinks(n) ==
  /\ assigned' = SubSeq(assigned, 1, n)
  /\ because' = SubSeq(because, 1, n)

LEMMA Shrinking ==
  ASSUME TrailShape, NEW k \in 0 .. Len(limits) - 2,
         Shrinks(limits[k + 2]), limits' = SubSeq(limits, 1, k + 1)
  PROVE  /\ TrailShape'
         /\ Len(assigned') = limits[k + 2] /\ limits[k + 2] \in 0 .. Len(assigned)
         /\ \A i \in 1 .. Len(assigned') : assigned'[i] = assigned[i] /\ because'[i] = because[i]
         /\ Len(limits') = k + 1 /\ \A j \in 1 .. k + 1 : limits'[j] = limits[j]
         /\ \A j \in 1 .. k + 1 : limits[j] <= limits[k + 2]
  <1> DEFINE n == limits[k + 2]
  <1>1. n \in 0 .. Len(assigned) /\ k + 2 \in 1 .. Len(limits) /\ Len(limits) \in Nat
    BY TrailTypes
  <1>2. \A i \in 1 .. n : assigned[i] \in Lits /\ because[i] \in SUBSET Lits
    BY <1>1, TrailTypes
  <1>3. \A j \in 1 .. k + 1 : limits[j] \in Nat
    BY <1>1, TrailTypes
  <1>4. /\ assigned' \in Seq(Lits) /\ Len(assigned') = n
        /\ \A i \in 1 .. n : assigned'[i] = assigned[i]
    <2>1. assigned' = SubSeq(assigned, 1, n)
      BY DEF Shrinks
    <2>2. /\ SubSeq(assigned, 1, n) \in Seq(Lits)
          /\ Len(SubSeq(assigned, 1, n)) = IF 1 <= n THEN n - 1 + 1 ELSE 0
          /\ \A i \in 1 .. n - 1 + 1 : SubSeq(assigned, 1, n)[i] = assigned[1 + i - 1]
      BY <1>1, <1>2, SubSeqProperties
    <2> HIDE DEF n
    <2> QED
      BY <1>1, <2>1, <2>2
  <1>5. /\ because' \in Seq(SUBSET Lits) /\ Len(because') = n
        /\ \A i \in 1 .. n : because'[i] = because[i]
    <2>1. because' = SubSeq(because, 1, n)
      BY DEF Shrinks
    <2>2. /\ SubSeq(because, 1, n) \in Seq(SUBSET Lits)
          /\ Len(SubSeq(because, 1, n)) = IF 1 <= n THEN n - 1 + 1 ELSE 0
          /\ \A i \in 1 .. n - 1 + 1 : SubSeq(because, 1, n)[i] = because[1 + i - 1]
      BY <1>1, <1>2, SubSeqProperties
    <2> HIDE DEF n
    <2> QED
      BY <1>1, <2>1, <2>2
  <1>6. /\ limits' \in Seq(Nat) /\ Len(limits') = k + 1
        /\ \A j \in 1 .. k + 1 : limits'[j] = limits[j]
    <2>1. /\ SubSeq(limits, 1, k + 1) \in Seq(Nat)
          /\ Len(SubSeq(limits, 1, k + 1)) = IF 1 <= k + 1 THEN k + 1 - 1 + 1 ELSE 0
          /\ \A j \in 1 .. k + 1 - 1 + 1 : SubSeq(limits, 1, k + 1)[j] = limits[1 + j - 1]
      BY <1>1, <1>3, SubSeqProperties
    <2> QED
      BY <1>1, <2>1
  <1>7. \A j \in 1 .. k + 1 : limits[j] <= n
    BY <1>1 DEF TrailShape
  <1> HIDE DEF n
  <1>8. /\ \A i, j \in 1 .. Len(assigned') : VarOf(assigned'[i]) = VarOf(assigned'[j]) => i = j
        /\ \A i, j \in 1 .. Len(limits') : i <= j => limits'[i] <= limits'[j]
        /\ limits'[1] = 0
    <2>1. \A i \in 1 .. n : i \in 1 .. Len(assigned)
      BY <1>1, TrailTypes
    <2>2. \A i, j \in 1 .. n : VarOf(assigned[i]) = VarOf(assigned[j]) => i = j
      BY <2>1 DEF TrailShape
    <2>3. \A i, j \in 1 .. k + 1 : i <= j => limits[i] <= limits[j]
      <3>1. \A i, j \in 1 .. Len(limits) : i <= j => limits[i] <= limits[j]
        BY DEF TrailShape
      <3> QED
        BY <1>1, <3>1
    <2>4. limits[1] = 0
      BY DEF TrailShape
    <2> QED
      BY <1>4, <1>6, <2>2, <2>3, <2>4
  <1>9. TrailShape'
    <2>1. \A j \in 1 .. Len(limits') : limits'[j] <= Len(assigned')
      BY <1>4, <1>6, <1>7
    <2>2. Len(because') = Len(assigned') /\ Len(limits') >= 1
      BY <1>1, <1>4, <1>5, <1>6
    <2> QED
      BY ONLY <1>4, <1>5, <1>6, <1>8, <2>1, <2>2 DEF TrailShape
  <1>10. n = limits[k + 2]
    BY DEF n
  <1> QED
    BY <1>1, <1>4, <1>5, <1>6, <1>7, <1>9, <1>10

(* What a prefix makes true or false stays so while the trail keeps it.    *)
LEMMA SamePrefix ==
  ASSUME NEW n \in Nat, NEW l,
         \A i \in 1 .. n : assigned'[i] = assigned[i]
  PROVE  TrueBy(l, n)' = TrueBy(l, n) /\ FalseBy(l, n)' = FalseBy(l, n)
  BY DEF TrueBy, FalseBy

(* The level of a position, and of the literals of its variable.           *)
LEMMA Levels ==
  ASSUME TrailShape, NEW i \in 1 .. Len(assigned)
  PROVE  /\ LevelAt(i) \in 0 .. CurrentLevel
         /\ \A k \in 1 .. CurrentLevel : LevelAt(i) >= k <=> limits[k + 1] < i
  <1> DEFINE n == Len(limits)
             T == {k \in 1 .. n : k = 1 \/ limits[k] < i}
             S == {k \in 2 .. n : limits[k] < i}
  <1>1. n \in Nat /\ n >= 1 /\ CurrentLevel = n - 1 /\ \A k \in 1 .. n : limits[k] \in Int
    BY TrailTypes DEF CurrentLevel
  <1>2. \A j, k \in 1 .. n : j <= k => limits[j] <= limits[k]
    BY DEF TrailShape
  <1> HIDE DEF n
  <1>3. PICK m \in T : \A k \in T : k <= m
    <2>1. T \in SUBSET Nat /\ 1 \in T /\ \A k \in T : k <= n
      BY <1>1
    <2> HIDE DEF T
    <2> QED
      BY <1>1, <2>1, Greatest
  <1>4. S = 2 .. m
    <2>1. ASSUME NEW k \in S
          PROVE  k \in 2 .. m
      BY <1>1, <1>3
    <2>2. ASSUME NEW k \in 2 .. m
          PROVE  k \in S
      <3>1. m \in 1 .. n /\ limits[m] < i /\ k \in 2 .. n /\ k \in 1 .. n
        BY <1>1, <1>3
      <3>2. limits[k] <= limits[m]
        BY <1>2, <3>1
      <3>3. limits[k] \in Int /\ limits[m] \in Int /\ i \in Int
        BY <1>1, <3>1
      <3> QED
        BY <3>1, <3>2, <3>3
    <2> QED
      BY <2>1, <2>2
  <1>5. Cardinality(S) = m - 1
    <2>1. Cardinality(2 .. m) = IF 2 > m THEN 0 ELSE m - 2 + 1
      BY <1>3, FS_Interval
    <2>2. m \in Nat /\ m >= 1
      BY <1>1, <1>3
    <2> HIDE DEF S, T
    <2> QED
      BY <1>4, <2>1, <2>2
  <1>6. LevelAt(i) = m - 1
    BY <1>5 DEF LevelAt, n
  <1>7. \A k \in 2 .. n : limits[k] < i <=> k <= m
    BY <1>1, <1>3, <1>4
  <1> QED
    BY <1>1, <1>3, <1>6, <1>7

LEMMA LevelsOfPrefixes ==
  ASSUME TrailShape, NEW i \in 1 .. Len(assigned), NEW k \in Nat
  PROVE  /\ UpToLevel(k, i) <=> LevelAt(i) <= k
         /\ LevelAt(i) = CurrentLevel <=> limits[Len(limits)] < i
  <1>1. /\ Len(limits) \in Nat \ {0} /\ Len(assigned) \in Nat
        /\ CurrentLevel = Len(limits) - 1 /\ limits[1] = 0
    BY TrailTypes DEF CurrentLevel, TrailShape
  <1>2. \A j \in 1 .. Len(limits) : limits[j] \in Int
    BY TrailTypes
  <1>3. /\ LevelAt(i) \in 0 .. CurrentLevel
        /\ \A j \in 1 .. CurrentLevel : LevelAt(i) >= j <=> limits[j + 1] < i
    BY Levels
  <1>4. UpToLevel(k, i) <=> LevelAt(i) <= k
    <2>1. CASE Len(limits) <= k + 1
      BY <1>1, <1>3, <2>1 DEF UpToLevel
    <2>2. CASE ~(Len(limits) <= k + 1)
      <3>1. k + 1 \in 1 .. CurrentLevel /\ k + 2 \in 1 .. Len(limits)
        BY <1>1, <2>2
      <3>2. LevelAt(i) >= k + 1 <=> limits[(k + 1) + 1] < i
        BY <1>3, <3>1
      <3>3. (k + 1) + 1 = k + 2 /\ limits[k + 2] \in Int
        BY <1>2, <3>1
      <3> QED
        BY <1>1, <1>3, <2>2, <3>2, <3>3 DEF UpToLevel
    <2> QED
      BY <2>1, <2>2
  <1>5. LevelAt(i) = CurrentLevel <=> limits[Len(limits)] < i
    <2>1. CASE CurrentLevel = 0
      <3>1. Len(limits) = 1
        BY <1>1, <2>1
      <3>2. limits[Len(limits)] = 0
        BY <1>1, <3>1
      <3>3. i > 0
        BY <1>1
      <3>4. LevelAt(i) = 0
        BY <1>3, <2>1
      <3> QED
        BY <2>1, <3>2, <3>3, <3>4
    <2>2. CASE CurrentLevel # 0
      <3>1. CurrentLevel \in 1 .. CurrentLevel /\ CurrentLevel + 1 = Len(limits)
        BY <1>1, <2>2
      <3>2. LevelAt(i) >= CurrentLevel <=> limits[Len(limits)] < i
        BY <1>3, <3>1
      <3> QED
        BY <1>1, <1>3, <3>2
    <2> QED
      BY <2>1, <2>2
  <1> QED
    BY <1>4, <1>5

LEMMA Positions ==
  ASSUME TrailShape, NEW i \in 1 .. Len(assigned), NEW l, VarOf(l) = VarOf(assigned[i])
  PROVE  Position(l) = i /\ LevelOf(l) = LevelAt(i)
  <1>1. \A j \in 1 .. Len(assigned) : VarOf(assigned[j]) = VarOf(l) => j = i
    BY DEF TrailShape
  <1>2. Position(l) = i
    BY <1>1 DEF Position
  <1> QED
    BY <1>2 DEF LevelOf

(* A false literal has a position ...                                      *)
LEMMA FalseLiteral ==
  ASSUME TrailShape, NEW l \in Lits, NEW n \in Nat, n <= Len(assigned), FalseBy(l, n)
  PROVE  /\ Position(l) \in 1 .. n /\ Position(l) \in 1 .. Len(assigned)
         /\ assigned[Position(l)] = Neg(l)
         /\ LevelOf(l) = LevelAt(Position(l))
         /\ LevelOf(l) \in 0 .. CurrentLevel
  <1>1. PICK p \in 1 .. n : assigned[p] = Neg(l)
    BY DEF FalseBy
  <1>2. p \in 1 .. Len(assigned) /\ VarOf(l) = VarOf(assigned[p])
    BY <1>1, TrailTypes, LitFacts
  <1>3. Position(l) = p /\ LevelOf(l) = LevelAt(p) /\ LevelAt(p) \in 0 .. CurrentLevel
    BY <1>2, Positions, Levels
  <1> QED
    BY <1>1, <1>2, <1>3

(* ... and is on the current level if that position is after its limit.    *)
LEMMA OnCurrentLevel ==
  ASSUME TrailShape, NEW l \in Lits, False(l)
  PROVE  LevelOf(l) = CurrentLevel <=> ~FalseBy(l, limits[Len(limits)])
  <1>1. /\ Len(assigned) \in Nat /\ Len(limits) \in 1 .. Len(limits)
        /\ limits[Len(limits)] \in 0 .. Len(assigned)
    BY TrailTypes
  <1>2. FalseBy(l, Len(assigned))
    BY Unassignable
  <1>3. /\ Position(l) \in 1 .. Len(assigned) /\ assigned[Position(l)] = Neg(l)
        /\ LevelOf(l) = LevelAt(Position(l))
    BY <1>1, <1>2, FalseLiteral
  <1>4. LevelOf(l) = CurrentLevel <=> limits[Len(limits)] < Position(l)
    BY <1>3, LevelsOfPrefixes, 0 \in Nat
  <1>5. FalseBy(l, limits[Len(limits)]) <=> Position(l) <= limits[Len(limits)]
    <2>1. ASSUME FalseBy(l, limits[Len(limits)])
          PROVE  Position(l) <= limits[Len(limits)]
      BY <1>1, <2>1, FalseLiteral
    <2>2. ASSUME Position(l) <= limits[Len(limits)]
          PROVE  FalseBy(l, limits[Len(limits)])
      BY <1>1, <1>3, <2>2 DEF FalseBy
    <2> QED
      BY <2>1, <2>2
  <1> QED
    BY <1>1, <1>3, <1>4, <1>5
----------------------------------------------------------------------------
(* Steps preserve the invariant of the trail.                              *)

(* Another literal of C than l is not among the first n false ones.        *)
Open(C, l, n) == \E m \in C \ {l} : ~FalseBy(m, n)

LEMMA GrowingReasons ==
  ASSUME TrailShape, ReasonsRight, NEW l \in Lits, NEW R \in SUBSET Lits, Grows(l, R),
         active \subseteq active',
         R # {} => /\ R \in active' /\ l \in R
                   /\ \A m \in R \ {l} : False(m)
                   /\ \A k \in 2 .. Len(limits) : Open(R, l, limits[k])
  PROVE  ReasonsRight'
  <1>0. PICK n \in Nat : n = Len(assigned)
    BY TrailTypes
  <1>1. /\ n \in Nat /\ Len(assigned') = n + 1 /\ assigned'[n + 1] = l /\ because'[n + 1] = R
        /\ \A i \in 1 .. n : assigned'[i] = assigned[i] /\ because'[i] = because[i]
        /\ limits' = limits
    BY <1>0, Growing DEF Grows
  <1>2. \A k \in 1 .. Len(limits) : limits[k] \in 0 .. n
    BY <1>0, TrailTypes
  <1>3. \A m : \A j \in 0 .. n : FalseBy(m, j)' = FalseBy(m, j)
    BY <1>1 DEF FalseBy
  <1>4. ASSUME NEW i \in 1 .. n, because'[i] # {}
        PROVE  /\ because'[i] \in active'
               /\ assigned'[i] \in because'[i]
               /\ \A m \in because'[i] \ {assigned'[i]} : FalseBy(m, i - 1)'
               /\ \A k \in 2 .. Len(limits') : limits'[k] < i =>
                    \E m \in because'[i] \ {assigned'[i]} : ~FalseBy(m, limits[k])'
    <2>1. /\ because[i] \in active
          /\ assigned[i] \in because[i]
          /\ \A m \in because[i] \ {assigned[i]} : FalseBy(m, i - 1)
          /\ \A k \in 2 .. Len(limits) : limits[k] < i =>
               \E m \in because[i] \ {assigned[i]} : ~FalseBy(m, limits[k])
      BY <1>0, <1>1, <1>4 DEF ReasonsRight
    <2>2. i - 1 \in 0 .. n
      BY <1>1
    <2> QED
      BY <1>1, <1>2, <1>3, <2>1, <2>2
  <1>5. ASSUME R # {}
        PROVE  /\ R \in active' /\ l \in R
               /\ \A m \in R \ {l} : FalseBy(m, n)'
               /\ \A k \in 2 .. Len(limits') : \E m \in R \ {l} : ~FalseBy(m, limits[k])'
    <2>1. \A m \in R \ {l} : FalseBy(m, n)
      BY <1>0, <1>5, Unassignable
    <2>2. \A k \in 2 .. Len(limits) : \E m \in R \ {l} : ~FalseBy(m, limits[k])
      BY <1>5 DEF Open
    <2> QED
      BY <1>1, <1>2, <1>3, <1>5, <2>1, <2>2
  <1>6. (n + 1) - 1 = n /\ \A i \in 1 .. n + 1 : i = n + 1 \/ i \in 1 .. n
    BY <1>1
  <1> QED
    BY <1>1, <1>4, <1>5, <1>6 DEF ReasonsRight

LEMMA GrowingLevels ==
  ASSUME TrailShape, LevelsQuiet, NEW l \in Lits, NEW R \in SUBSET Lits, Grows(l, R),
         \A C \in active' \ active : \A k \in 2 .. Len(limits) :
           \E x, y \in C : x # y /\ ~FalseBy(x, limits[k]) /\ ~FalseBy(y, limits[k]),
         ~Ready'
  PROVE  LevelsQuiet'
  <1>1. PICK n \in Nat : n = Len(assigned)
    BY TrailTypes
  <1>2. /\ \A i \in 1 .. n : assigned'[i] = assigned[i]
        /\ limits' = limits
        /\ \A k \in 1 .. Len(limits) : limits[k] \in 0 .. n
    BY <1>1, Growing, TrailTypes DEF Grows
  <1>3. \A m : \A j \in 0 .. n : FalseBy(m, j)' = FalseBy(m, j) /\ TrueBy(m, j)' = TrueBy(m, j)
    BY <1>2 DEF FalseBy, TrueBy
  <1>4. ASSUME NEW k \in 2 .. Len(limits)
        PROVE  QuietAt(limits[k])'
    <2>1. limits'[k] = limits[k] /\ limits[k] \in 0 .. n
      BY <1>2
    <2> SUFFICES ASSUME NEW C \in active', NEW x \in C, \A m \in C \ {x} : FalseBy(m, limits[k])'
                 PROVE  TrueBy(x, limits[k])'
      BY DEF QuietAt
    <2>2. \A m \in C \ {x} : FalseBy(m, limits[k])
      BY <1>3, <2>1
    <2>3. C \in active
      BY <2>2
    <2>4. TrueBy(x, limits[k])
      BY <2>2, <2>3 DEF LevelsQuiet, QuietAt
    <2> QED
      BY <1>3, <2>1, <2>4
  <1> QED
    BY <1>2, <1>4 DEF LevelsQuiet

LEMMA DecideStep ==
  ASSUME TrailIInv, NEW l \in Lits, Decide(l)
  PROVE  TrailIInv'
  <1>1. TrailShape /\ ReasonsRight /\ ConflictRight /\ LevelsQuiet /\ ActiveProper
    BY DEF TrailIInv
  <1>2. /\ Grows(l, {}) /\ active' = active
        /\ busy' = TRUE /\ falsified' = {} /\ ~Ready'
    BY DEF Decide, Grows, Ready
  <1>3. TrailShape' /\ ReasonsRight' /\ LevelsQuiet'
    BY <1>1, <1>2, Growing, GrowingReasons, GrowingLevels
  <1>4. ConflictRight' /\ ActiveProper'
    BY <1>1, <1>2 DEF ConflictRight, ActiveProper
  <1> QED
    BY <1>3, <1>4 DEF TrailIInv

(* A clause with all literals but l false by n had made l true by n.       *)
LEMMA OpenWhenQuiet ==
  ASSUME TrailIInv, NEW C \in active, NEW l \in C, ~True(l), NEW k \in 2 .. Len(limits)
  PROVE  Open(C, l, limits[k])
  <1>1. C \in SUBSET Lits /\ limits[k] \in 0 .. Len(assigned) /\ Len(assigned) \in Nat
    BY TrailTypes DEF TrailIInv, ActiveProper, Proper
  <1>2. ~TrueBy(l, Len(assigned))
    BY <1>1, Unassignable DEF TrailIInv
  <1>3. ~TrueBy(l, limits[k])
    BY <1>1, <1>2, Monotone
  <1> QED
    BY <1>3 DEF TrailIInv, LevelsQuiet, QuietAt, Open

LEMMA ForceStep ==
  ASSUME TrailIInv, NEW C \in active, NEW l \in Lits, ForceUnit(C, l)
  PROVE  TrailIInv'
  <1>1. TrailShape /\ ReasonsRight /\ ConflictRight /\ LevelsQuiet /\ ActiveProper
    BY DEF TrailIInv
  <1>2. /\ Grows(l, C) /\ active' = active /\ C \in SUBSET Lits
        /\ busy' /\ falsified' = {} /\ ~Ready'
        /\ l \in C /\ ~True(l) /\ \A m \in C \ {l} : False(m)
    BY <1>1 DEF ForceUnit, Forces, Grows, Ready, ConflictRight, ActiveProper, Proper, Unassigned
  <1>3. \A k \in 2 .. Len(limits) : Open(C, l, limits[k])
    BY <1>2, OpenWhenQuiet
  <1>4. TrailShape' /\ ReasonsRight' /\ LevelsQuiet'
    BY <1>1, <1>2, <1>3, Growing, GrowingReasons, GrowingLevels
  <1>5. ConflictRight' /\ ActiveProper'
    BY <1>1, <1>2 DEF ConflictRight, ActiveProper, ForceUnit
  <1> QED
    BY <1>4, <1>5 DEF TrailIInv

(* A lemma that has another literal on the current level is open on the    *)
(* lower ones.                                                             *)
LEMMA LearnStep ==
  ASSUME TrailIInv, NEW C, NEW l, Proper(C), Learn(C, l),
         Open(C, l, limits[Len(limits)])
  PROVE  TrailIInv'
  <1>1. TrailShape /\ ReasonsRight /\ ConflictRight /\ LevelsQuiet /\ ActiveProper
    BY DEF TrailIInv
  <1>2. /\ Grows(l, C) /\ active' = active \cup {C} /\ C \in SUBSET Lits
        /\ busy' = TRUE /\ falsified' = {} /\ ~Ready'
        /\ l \in C /\ l \in Lits /\ Unassigned(l) /\ \A m \in C \ {l} : False(m)
    BY <1>1 DEF Learn, Forces, Grows, Ready, Proper
  <1>3. ASSUME NEW k \in 1 .. Len(limits)
        PROVE  Open(C, l, limits[k]) /\ ~FalseBy(l, limits[k])
    <2>1. /\ Len(limits) \in 1 .. Len(limits) /\ limits[k] <= limits[Len(limits)]
          /\ limits[k] \in 0 .. Len(assigned) /\ limits[Len(limits)] \in 0 .. Len(assigned)
          /\ Len(assigned) \in Nat
      BY <1>1, TrailTypes DEF TrailShape
    <2>2. PICK m \in C \ {l} : ~FalseBy(m, limits[Len(limits)])
      BY DEF Open
    <2>3. ~FalseBy(m, limits[k])
      BY <2>1, <2>2, Monotone
    <2>4. ~FalseBy(l, Len(assigned))
      BY <1>1, <1>2, Unassignable DEF Unassigned
    <2>5. ~FalseBy(l, limits[k])
      BY <2>1, <2>4, Monotone
    <2> QED
      BY <2>3, <2>5 DEF Open
  <1>4. \A k \in 2 .. Len(limits) : Open(C, l, limits[k]) /\ ~FalseBy(l, limits[k])
    BY <1>1, <1>3, TrailTypes
  <1>5. \A k \in 2 .. Len(limits) : \E x, y \in C : x # y /\ ~FalseBy(x, limits[k]) /\ ~FalseBy(y, limits[k])
    BY <1>2, <1>4 DEF Open
  <1>6. TrailShape' /\ ReasonsRight' /\ LevelsQuiet'
    <2>1. \A D \in active' \ active : D = C
      BY <1>2
    <2> QED
      BY <1>1, <1>2, <1>4, <1>5, <2>1, Growing, GrowingReasons, GrowingLevels
  <1>7. ConflictRight' /\ ActiveProper'
    BY <1>1, <1>2 DEF ConflictRight, ActiveProper, Proper
  <1> QED
    BY <1>6, <1>7 DEF TrailIInv

LEMMA FailStep ==
  ASSUME TrailIInv, NEW C \in active, Fail(C)
  PROVE  TrailIInv'
  <1>1. /\ UNCHANGED <<active, assigned, because, limits>>
        /\ busy' = FALSE /\ falsified' = C
        /\ Falsified(C) /\ C # {}
    BY DEF Fail, TrailIInv, ActiveProper, Proper
  <1>2. TrailShape' /\ ReasonsRight' /\ ActiveProper'
    BY <1>1 DEF TrailIInv, TrailShape, ReasonsRight, ActiveProper, FalseBy
  <1>3. ConflictRight'
    BY <1>1 DEF ConflictRight, Falsified, False, True
  <1>4. LevelsQuiet'
    BY <1>1 DEF TrailIInv, LevelsQuiet, QuietAt, FalseBy, TrueBy, Ready
  <1> QED
    BY <1>2, <1>3, <1>4 DEF TrailIInv

(* Propagation that has nothing left to do leaves a quiet trail.           *)
LEMMA QuiescentIsQuiet ==
  ASSUME TrailShape, ActiveProper, Quiescent
  PROVE  QuietAt(Len(assigned))
  <1> SUFFICES ASSUME NEW C \in active, NEW l \in C, \A m \in C \ {l} : FalseBy(m, Len(assigned))
               PROVE  TrueBy(l, Len(assigned))
    BY DEF QuietAt
  <1>1. C \in SUBSET Lits
    BY DEF ActiveProper, Proper
  <1>2. \A m \in C \ {l} : False(m)
    BY <1>1, Unassignable
  <1>3. ~False(l) /\ ~Unassigned(l)
    BY <1>2 DEF Quiescent, Falsified, Forces
  <1> QED
    BY <1>1, <1>3, Unassignable DEF Unassigned

LEMMA SucceedStep ==
  ASSUME TrailIInv, Succeed
  PROVE  TrailIInv'
  <1>1. UNCHANGED <<active, assigned, because, limits, falsified>> /\ busy' = FALSE
    BY DEF Succeed
  <1>2. TrailShape' /\ ReasonsRight' /\ ActiveProper'
    BY <1>1 DEF TrailIInv, TrailShape, ReasonsRight, ActiveProper, FalseBy
  <1>3. ConflictRight'
    BY <1>1 DEF TrailIInv, ConflictRight, Falsified, False, True
  <1>4. QuietAt(Len(assigned))
    BY QuiescentIsQuiet DEF TrailIInv, Succeed
  <1>5. LevelsQuiet'
    BY <1>1, <1>4 DEF TrailIInv, LevelsQuiet, QuietAt, FalseBy, TrueBy
  <1> QED
    BY <1>2, <1>3, <1>5 DEF TrailIInv

LEMMA OpenLevelStep ==
  ASSUME TrailIInv, OpenLevel
  PROVE  /\ TrailIInv'
         /\ Len(limits') = Len(limits) + 1 /\ limits'[Len(limits) + 1] = Len(assigned)
         /\ \A k \in 1 .. Len(limits) : limits'[k] = limits[k]
  <1>1. /\ limits \in Seq(Nat) /\ Len(assigned) \in Nat /\ Len(limits) \in Nat \ {0}
        /\ limits' = Append(limits, Len(assigned))
        /\ UNCHANGED <<active, assigned, because, busy, falsified>>
        /\ Ready
    BY TrailTypes DEF TrailIInv, TrailShape, OpenLevel
  <1>2. /\ limits' \in Seq(Nat) /\ Len(limits') = Len(limits) + 1
        /\ \A k \in 1 .. Len(limits) : limits'[k] = limits[k]
        /\ limits'[Len(limits) + 1] = Len(assigned)
    BY <1>1, AppendProperties
  <1>3. \A k \in 1 .. Len(limits') : k \in 1 .. Len(limits) \/ k = Len(limits')
    BY <1>1, <1>2
  <1>4. \A k \in 1 .. Len(limits) : limits[k] \in 0 .. Len(assigned)
    BY TrailTypes DEF TrailIInv
  <1>5. TrailShape'
    <2>1. \A j, k \in 1 .. Len(limits) : j <= k => limits[j] <= limits[k]
      BY DEF TrailIInv, TrailShape
    <2>2. \A j, k \in 1 .. Len(limits') : j <= k => limits'[j] <= limits'[k]
      BY <1>1, <1>2, <1>3, <1>4, <2>1
    <2>3. \A k \in 1 .. Len(limits') : limits'[k] <= Len(assigned)
      BY <1>1, <1>2, <1>3, <1>4
    <2>4. limits'[1] = 0
      BY <1>1, <1>2 DEF TrailIInv, TrailShape
    <2> QED
      BY <1>1, <1>2, <2>2, <2>3, <2>4 DEF TrailIInv, TrailShape
  <1>6. ReasonsRight'
    <2> SUFFICES ASSUME NEW i \in 1 .. Len(assigned), because[i] # {}
                 PROVE  /\ because[i] \in active
                        /\ assigned[i] \in because[i]
                        /\ \A m \in because[i] \ {assigned[i]} : FalseBy(m, i - 1)
                        /\ \A k \in 2 .. Len(limits') : limits'[k] < i =>
                             \E m \in because[i] \ {assigned[i]} : ~FalseBy(m, limits'[k])
      BY <1>1 DEF ReasonsRight, FalseBy
    <2>1. /\ because[i] \in active
          /\ assigned[i] \in because[i]
          /\ \A m \in because[i] \ {assigned[i]} : FalseBy(m, i - 1)
          /\ \A k \in 2 .. Len(limits) : limits[k] < i =>
               \E m \in because[i] \ {assigned[i]} : ~FalseBy(m, limits[k])
      BY DEF TrailIInv, ReasonsRight
    <2>2. ASSUME NEW k \in 2 .. Len(limits'), limits'[k] < i
          PROVE  k \in 2 .. Len(limits) /\ limits'[k] = limits[k]
      BY <1>1, <1>2, <1>3, <2>2
    <2> QED
      BY <2>1, <2>2
  <1>7. ConflictRight' /\ ActiveProper'
    BY <1>1 DEF TrailIInv, ConflictRight, ActiveProper, Falsified, False, True
  <1>8. LevelsQuiet'
    <2>1. \A n : QuietAt(n)' = QuietAt(n)
      BY <1>1 DEF QuietAt, FalseBy, TrueBy
    <2>2. QuietAt(Len(assigned)) /\ \A k \in 2 .. Len(limits) : QuietAt(limits[k])
      BY <1>1 DEF TrailIInv, LevelsQuiet
    <2>3. \A k \in 2 .. Len(limits') : QuietAt(limits'[k])
      <3>1. \A k \in 2 .. Len(limits') : k \in 2 .. Len(limits) \/ k = Len(limits')
        BY <1>1, <1>2
      <3> QED
        BY <1>1, <1>2, <2>2, <3>1
    <2> QED
      BY <1>1, <2>1, <2>2, <2>3 DEF LevelsQuiet
  <1> QED
    BY <1>2, <1>5, <1>6, <1>7, <1>8 DEF TrailIInv

LEMMA UndoStep ==
  ASSUME TrailIInv, NEW k, Undo(k)
  PROVE  /\ TrailIInv'
         /\ k \in 0 .. Len(limits) - 2
         /\ Len(assigned') = limits[k + 2] /\ limits[k + 2] \in 0 .. Len(assigned)
         /\ \A i \in 1 .. Len(assigned') : assigned'[i] = assigned[i] /\ because'[i] = because[i]
         /\ Len(limits') = k + 1 /\ \A j \in 1 .. k + 1 : limits'[j] = limits[j]
  <1>1. /\ k \in 0 .. Len(limits) - 2
        /\ Shrinks(limits[k + 2]) /\ limits' = SubSeq(limits, 1, k + 1)
        /\ active' = active /\ busy' = FALSE /\ falsified' = {}
    BY DEF Undo, Shrinks, TrailIInv, ConflictRight
  <1>2. PICK n \in Nat : n = limits[k + 2] /\ n <= Len(assigned)
    <2>1. limits[k + 2] \in 0 .. Len(assigned) /\ Len(assigned) \in Nat
      BY <1>1, Shrinking, TrailTypes DEF TrailIInv
    <2> QED
      BY <2>1
  <1>3. /\ TrailShape'
        /\ Len(assigned') = n /\ n \in 0 .. Len(assigned) /\ Len(assigned) \in Nat
        /\ \A i \in 1 .. n : assigned'[i] = assigned[i] /\ because'[i] = because[i]
        /\ Len(limits') = k + 1 /\ \A j \in 1 .. k + 1 : limits'[j] = limits[j]
        /\ \A j \in 1 .. k + 1 : limits[j] \in 0 .. n
        /\ Len(limits) \in Nat
    <2>1. \A j \in 1 .. Len(limits) : limits[j] \in 0 .. Len(assigned)
      BY TrailTypes DEF TrailIInv
    <2>2. Len(assigned) \in Nat /\ Len(limits) \in Nat
      BY TrailTypes DEF TrailIInv
    <2>3. /\ TrailShape'
          /\ Len(assigned') = n /\ n \in 0 .. Len(assigned)
          /\ \A i \in 1 .. n : assigned'[i] = assigned[i] /\ because'[i] = because[i]
          /\ Len(limits') = k + 1 /\ \A j \in 1 .. k + 1 : limits'[j] = limits[j]
          /\ \A j \in 1 .. k + 1 : limits[j] <= n
      BY <1>1, <1>2, Shrinking DEF TrailIInv
    <2> QED
      BY <1>1, <2>1, <2>2, <2>3
  <1>4. \A m : \A j \in 0 .. n : (FalseBy(m, j)' <=> FalseBy(m, j)) /\ (TrueBy(m, j)' <=> TrueBy(m, j))
    <2> SUFFICES ASSUME NEW m, NEW j \in 0 .. n
                 PROVE  (FalseBy(m, j)' <=> FalseBy(m, j)) /\ (TrueBy(m, j)' <=> TrueBy(m, j))
      OBVIOUS
    <2>1. \A p \in 1 .. j : assigned'[p] = assigned[p]
      BY <1>3
    <2> QED
      BY <2>1 DEF FalseBy, TrueBy
  <1>5. \A j \in 0 .. n : QuietAt(j)' = QuietAt(j)
    BY <1>1, <1>4 DEF QuietAt
  <1>6. LevelsQuiet'
    <2>1. k + 2 \in 2 .. Len(limits) /\ \A j \in 2 .. k + 1 : j \in 2 .. Len(limits) /\ j \in 1 .. k + 1
      BY <1>1, <1>3
    <2>2. QuietAt(n) /\ \A j \in 2 .. k + 1 : QuietAt(limits[j])
      BY <1>2, <2>1 DEF TrailIInv, LevelsQuiet
    <2>3. QuietAt(n)'
      BY <1>3, <1>5, <2>2
    <2>4. \A j \in 2 .. Len(limits') : QuietAt(limits[j])'
      <3>1. \A j \in 2 .. k + 1 : limits[j] \in 0 .. n /\ limits'[j] = limits[j]
        BY <1>3, <2>1
      <3> QED
        BY <1>3, <1>5, <2>2, <3>1
    <2> QED
      BY <1>3, <2>3, <2>4 DEF LevelsQuiet
  <1>7. ReasonsRight'
    <2> SUFFICES ASSUME NEW i \in 1 .. n, because[i] # {}
                 PROVE  /\ because[i] \in active
                        /\ assigned[i] \in because[i]
                        /\ \A m \in because[i] \ {assigned[i]} : FalseBy(m, i - 1)'
                        /\ \A j \in 2 .. k + 1 : limits'[j] < i =>
                             \E m \in because[i] \ {assigned[i]} : ~FalseBy(m, limits[j])'
      BY <1>1, <1>3 DEF ReasonsRight
    <2>1. i \in 1 .. Len(assigned) /\ i - 1 \in 0 .. n
      BY <1>3
    <2>2. /\ because[i] \in active
          /\ assigned[i] \in because[i]
          /\ \A m \in because[i] \ {assigned[i]} : FalseBy(m, i - 1)
          /\ \A j \in 2 .. Len(limits) : limits[j] < i =>
               \E m \in because[i] \ {assigned[i]} : ~FalseBy(m, limits[j])
      BY <2>1 DEF TrailIInv, ReasonsRight
    <2>3. \A j \in 2 .. k + 1 : j \in 2 .. Len(limits) /\ limits[j] \in 0 .. n /\ limits'[j] = limits[j]
      BY <1>1, <1>3
    <2> QED
      BY <1>4, <2>1, <2>2, <2>3
  <1>8. ConflictRight' /\ ActiveProper'
    BY <1>1 DEF TrailIInv, ConflictRight, ActiveProper
  <1> QED
    BY <1>1, <1>2, <1>3, <1>6, <1>7, <1>8 DEF TrailIInv

(* An empty trail has the invariant with any clauses.                      *)
EmptyTrail ==
  /\ assigned = <<>> /\ because = <<>> /\ limits = <<0>>
  /\ busy = FALSE /\ falsified = {}
  /\ ActiveProper

LEMMA EmptyTrailRight == EmptyTrail => TrailIInv
  <1> SUFFICES ASSUME EmptyTrail
               PROVE  TrailIInv
    OBVIOUS
  <1> USE DEF EmptyTrail
  <1>1. /\ Len(assigned) = 0 /\ Len(because) = 0 /\ Len(limits) = 1 /\ limits[1] = 0
        /\ assigned \in Seq(Lits) /\ because \in Seq(SUBSET Lits) /\ limits \in Seq(Nat)
    BY EmptySeq
  <1>2. 1 .. Len(assigned) = {} /\ 1 .. Len(limits) = {1}
    BY <1>1
  <1>3. TrailShape /\ ReasonsRight /\ ConflictRight
    <2>1. TrailShape
      BY <1>1, <1>2 DEF TrailShape
    <2>2. ReasonsRight
      BY <1>2, Zenon DEF ReasonsRight
    <2>3. ConflictRight
      BY DEF ConflictRight
    <2> QED
      BY <2>1, <2>2, <2>3
  <1>4. QuietAt(Len(assigned))
    <2> SUFFICES ASSUME NEW C \in active, NEW l \in C, \A m \in C \ {l} : FalseBy(m, 0)
                 PROVE  FALSE
      BY <1>1 DEF QuietAt
    <2>1. \E m \in C : m # l
      BY DEF ActiveProper, Proper
    <2>2. \A m : ~FalseBy(m, 0)
      BY DEF FalseBy
    <2> QED
      BY <2>1, <2>2
  <1> QED
    BY <1>1, <1>3, <1>4 DEF TrailIInv, LevelsQuiet

LEMMA ResetStep ==
  ASSUME TrailIInv, Reset
  PROVE  TrailIInv'
  <1>1. /\ assigned' = <<>> /\ because' = <<>> /\ limits' = <<0>> /\ busy' = FALSE /\ falsified' = {}
        /\ active' = active
    BY DEF Reset, TrailIInv, ConflictRight
  <1>2. ActiveProper'
    BY <1>1 DEF TrailIInv, ActiveProper
  <1>3. EmptyTrail'
    BY <1>1, <1>2 DEF EmptyTrail
  <1> QED
    BY <1>3, EmptyTrailRight, PTL
----------------------------------------------------------------------------
(* First-UIP learning.                                                     *)

LEMMA AtMostOne ==
  ASSUME NEW S \in SUBSET Lits
  PROVE  /\ IsFiniteSet(S) /\ Cardinality(S) \in Nat
         /\ Cardinality(S) <= 1 <=> \A x, y \in S : x = y
         /\ Cardinality(S) = 1 <=> \E x : S = {x}
  <1>1. IsFiniteSet(Lits)
    <2>1. IsFiniteSet(-NumVars .. NumVars)
      BY NumVarsAssumption, FS_Interval
    <2>2. Lits \in SUBSET (-NumVars .. NumVars)
      BY DEF Lits
    <2> QED
      BY <2>1, <2>2, FS_Subset
  <1>2. IsFiniteSet(S) /\ Cardinality(S) \in Nat
    BY <1>1, FS_Subset, FS_CardinalityType
  <1>3. Cardinality(S) = 1 <=> \E x : S = {x}
    BY <1>2, FS_Singleton
  <1>4. Cardinality(S) = 0 <=> S = {}
    BY <1>2, FS_EmptySet
  <1>5. Cardinality(S) <= 1 <=> (S = {} \/ \E x : S = {x})
    BY <1>2, <1>3, <1>4
  <1>6. (S = {} \/ \E x : S = {x}) <=> \A x, y \in S : x = y
    OBVIOUS
  <1> QED
    BY <1>2, <1>3, <1>5, <1>6

(* All literals of a conflicting clause are false, two of them because of  *)
(* the current level.                                                      *)
LEMMA ConflictOnLevel ==
  ASSUME TrailIInv, falsified # {}, Len(limits) >= 2
  PROVE  /\ falsified \in SUBSET Lits /\ \A l \in falsified : False(l)
         /\ \E x, y \in OnLevel(falsified, CurrentLevel) : x # y
  <1>1. /\ TrailShape /\ falsified \in active /\ falsified \in SUBSET Lits
        /\ \A l \in falsified : False(l)
    BY DEF TrailIInv, ConflictRight, Falsified, ActiveProper, Proper
  <1>2. \A l \in falsified : ~True(l)
    BY <1>1, Consistent DEF True, False
  <1>3. Len(limits) \in 2 .. Len(limits)
    BY <1>1, TrailTypes
  <1>4. \A l \in falsified : \E m \in falsified \ {l} : ~FalseBy(m, limits[Len(limits)])
    BY <1>1, <1>2, <1>3, OpenWhenQuiet DEF Open
  <1>5. PICK x \in falsified : ~FalseBy(x, limits[Len(limits)])
    BY <1>4
  <1>6. PICK y \in falsified : y # x /\ ~FalseBy(y, limits[Len(limits)])
    BY <1>4
  <1>7. x \in OnLevel(falsified, CurrentLevel) /\ y \in OnLevel(falsified, CurrentLevel)
    BY <1>1, <1>5, <1>6, OnCurrentLevel DEF OnLevel
  <1> QED
    BY <1>1, <1>6, <1>7

(* A total assignment that satisfies the clauses and has level 0.          *)
Agrees(A) ==
  /\ A \in TotalAssignments
  /\ \A C \in active : A \cap C # {}
  /\ \A i \in 1 .. Len(assigned) : UpToLevel(0, i) => assigned[i] \in A

LEMMA Opposites ==
  ASSUME NEW A \in TotalAssignments, NEW l \in Lits
  PROVE  l \in A <=> Neg(l) \notin A
  <1>1. PICK v \in Vars : l = v \/ l = -v
    BY LitFacts, NumVarsAssumption DEF Lits, Vars
  <1>2. (v \in A) # (-v \in A)
    BY DEF TotalAssignments
  <1>3. -(-v) = v
    BY NumVarsAssumption DEF Vars
  <1> QED
    BY <1>1, <1>2, <1>3 DEF Neg

(* The current level has one decision, its first literal.                  *)
DecisionFirst ==
  \A i \in 1 .. Len(assigned) :
    limits[Len(limits)] < i /\ because[i] = {} => i = limits[Len(limits)] + 1

(* What holds of the clause being derived after the positions beyond i.    *)
Derived(C, i) ==
  /\ C \in SUBSET Lits
  /\ \A l \in C : False(l)
  /\ AtUIP(C) \/ \A l \in C : FalseBy(l, i)
  /\ \A A \in TotalAssignments : Agrees(A) => A \cap C # {}
  /\ OnLevel(C, CurrentLevel) # {}

LEMMA ResolventDerived ==
  ASSUME TrailIInv, DecisionFirst, NEW C, NEW j \in 1 .. Len(assigned),
         limits[Len(limits)] < j, Derived(C, j), ~AtUIP(C), Neg(assigned[j]) \in C
  PROVE  /\ Derived(Resolvent(C, j), j - 1)
         /\ \A l \in Resolvent(C, j) : FalseBy(l, j - 1)
  <1> DEFINE p == assigned[j]
             R == because[j]
             limit == limits[Len(limits)]
  <1>1. /\ TrailShape /\ Len(assigned) \in Nat /\ limit \in 0 .. Len(assigned)
        /\ p \in Lits /\ R \in SUBSET Lits /\ C \in SUBSET Lits
        /\ Len(limits) \in Nat \ {0} /\ Len(limits) \in 1 .. Len(limits)
    BY TrailTypes DEF TrailIInv, Derived
  <1>2. \A l \in C : l = Neg(p) \/ FalseBy(l, j - 1)
    <2> SUFFICES ASSUME NEW l \in C, l # Neg(p)
                 PROVE  FalseBy(l, j - 1)
      OBVIOUS
    <2>1. PICK q \in 1 .. j : assigned[q] = Neg(l)
      BY DEF Derived, FalseBy
    <2>2. q # j
      BY <1>1, <2>1, LitFacts
    <2> QED
      BY <1>1, <2>1, <2>2 DEF FalseBy
  <1>3. PICK x \in OnLevel(C, CurrentLevel) : x # Neg(p)
    <2>1. \E x, y \in OnLevel(C, CurrentLevel) : x # y
      <3>1. OnLevel(C, CurrentLevel) \in SUBSET Lits
        BY <1>1 DEF OnLevel
      <3> QED
        BY <3>1, AtMostOne DEF AtUIP
    <2> QED
      BY <2>1
  <1>4. R # {}
    <2>1. x \in C /\ x \in Lits /\ False(x) /\ LevelOf(x) = CurrentLevel
      BY <1>1, <1>3 DEF OnLevel, Derived
    <2>2. FalseBy(x, j - 1) /\ ~FalseBy(x, limit)
      BY <1>1, <1>2, <1>3, <2>1, OnCurrentLevel
    <2>3. j - 1 # limit
      BY <2>2
    <2> QED
      BY <1>1, <2>3 DEF DecisionFirst
  <1>5. /\ R \in active /\ p \in R
        /\ \A m \in R \ {p} : FalseBy(m, j - 1)
    BY <1>4 DEF TrailIInv, ReasonsRight
  <1>6. /\ Resolvent(C, j) = (C \ {Neg(p)}) \cup (R \ {p})
        /\ Resolvent(C, j) \in SUBSET Lits
    BY <1>1 DEF Resolvent
  <1>7. \A l \in Resolvent(C, j) : FalseBy(l, j - 1)
    BY <1>2, <1>5, <1>6
  <1>8. \A l \in Resolvent(C, j) : False(l)
    <2>1. j - 1 \in Nat /\ j - 1 <= Len(assigned)
      BY <1>1
    <2> QED
      BY <1>1, <1>6, <1>7, <2>1, Monotone, Unassignable
  <1>9. ASSUME NEW A \in TotalAssignments, Agrees(A)
        PROVE  A \cap Resolvent(C, j) # {}
    <2>1. A \cap C # {} /\ A \cap R # {}
      BY <1>5, <1>9 DEF Derived, Agrees
    <2>2. p \in A <=> Neg(p) \notin A
      BY <1>1, Opposites
    <2> QED
      BY <1>6, <2>1, <2>2
  <1>10. x \in OnLevel(Resolvent(C, j), CurrentLevel)
    BY <1>3, <1>6 DEF OnLevel
  <1> QED
    BY <1>6, <1>7, <1>8, <1>9, <1>10 DEF Derived

(* The clauses derived by a walk, by the positions it has not visited yet: *)
(* when one literal of the current level is left, it is the result.        *)
IsWalk(f) ==
  /\ f[Len(assigned)] = falsified
  /\ \A i \in limits[Len(limits)] .. Len(assigned) :
       Derived(f[i], i) /\ (AtUIP(f[i]) => f[i] = FirstUIPClause)
  /\ \A i \in limits[Len(limits)] + 1 .. Len(assigned) :
       f[i - 1] = IF AtUIP(f[i]) \/ Neg(assigned[i]) \notin f[i] THEN f[i] ELSE Resolvent(f[i], i)
  /\ AtUIP(FirstUIPClause) /\ Derived(FirstUIPClause, limits[Len(limits)])

LEMMA FirstUIPWalk ==
  ASSUME TrailIInv, DecisionFirst, falsified # {}, Len(limits) >= 2
  PROVE  \E f : IsWalk(f)
  <1> DEFINE b == limits[Len(limits)]
             e == Len(assigned)
             Values(f) == [i \in b .. e |->
                             IF i = e THEN falsified
                             ELSE LET C == f[i + 1]
                                  IN  IF AtUIP(C) \/ Neg(assigned[i + 1]) \notin C THEN C
                                      ELSE Resolvent(C, i + 1)]
             after == CHOOSE f : f = Values(f)
             step == [j \in b + 1 .. e |-> [C \in SUBSET Lits |->
                       IF AtUIP(C) \/ Neg(assigned[j]) \notin C THEN C ELSE Resolvent(C, j)]]
  <1>1. FirstUIPClause = after[b]
    BY DEF FirstUIPClause
  <1>2. /\ TrailShape /\ e \in Nat /\ b \in 0 .. e
        /\ \A i \in 1 .. e : assigned[i] \in Lits /\ because[i] \in SUBSET Lits
        /\ Len(limits) \in Nat \ {0}
    BY TrailTypes DEF TrailIInv
  <1>3. /\ falsified \in SUBSET Lits /\ \A l \in falsified : False(l)
        /\ \E x, y \in OnLevel(falsified, CurrentLevel) : x # y
    BY ConflictOnLevel
  <1>4. \E f : f = Values(f)
    <2>1. step \in [b + 1 .. e -> [SUBSET Lits -> SUBSET Lits]]
      <3> SUFFICES ASSUME NEW j \in b + 1 .. e, NEW C \in SUBSET Lits
                   PROVE  Resolvent(C, j) \in SUBSET Lits
        OBVIOUS
      <3> QED
        BY <1>2 DEF Resolvent
    <2>2. \A j \in b + 1 .. e, C \in SUBSET Lits :
            step[j][C] = IF AtUIP(C) \/ Neg(assigned[j]) \notin C THEN C ELSE Resolvent(C, j)
      OBVIOUS
    <2> HIDE DEF step
    <2>3. PICK f \in [b .. e -> SUBSET Lits] :
            \A i \in b .. e : f[i] = IF i = e THEN falsified ELSE step[i + 1][f[i + 1]]
      <3>1. b \in Int /\ e \in Int /\ b <= e
        BY <1>2
      <3>2. falsified \in SUBSET Lits
        BY <1>3
      <3> DEFINE V == SUBSET Lits
      <3>3. falsified \in V /\ step \in [b + 1 .. e -> [V -> V]]
        BY <2>1, <3>2
      <3> HIDE DEF b, e, V
      <3>4. DownwardFunctions(b, e, V, falsified, step) # {}
        BY <3>1, <3>3, DownwardFunction
      <3> QED
        BY <3>4 DEF V, DownwardFunctions
    <2>4. \A i \in b .. e : f[i] = Values(f)[i]
      <3> SUFFICES ASSUME NEW i \in b .. e, i # e
                   PROVE  f[i] = Values(f)[i]
        BY <2>3
      <3>1. i + 1 \in b + 1 .. e /\ f[i + 1] \in SUBSET Lits
        BY <1>2, <2>3
      <3> QED
        BY <2>2, <2>3, <3>1
    <2>5. f = Values(f)
      <3>1. f = [i \in b .. e |-> f[i]]
        BY <2>3
      <3> QED
        BY <2>4, <3>1
    <2> QED
      BY <2>5
  <1>5. after = Values(after)
    BY <1>4
  <1> HIDE DEF after
  <1>6. Derived(after[e], e)
    <2>1. after[e] = falsified
      BY <1>2, <1>5
    <2>2. \A l \in falsified : FalseBy(l, e)
      BY <1>2, <1>3, Unassignable
    <2>3. \A A \in TotalAssignments : Agrees(A) => A \cap falsified # {}
      BY DEF Agrees, TrailIInv, ConflictRight
    <2> QED
      BY <1>3, <2>1, <2>2, <2>3 DEF Derived
  <1>7. ASSUME NEW i \in b .. e - 1, Derived(after[i + 1], i + 1)
        PROVE  Derived(after[i], i)
    <2> DEFINE C == after[i + 1]
    <2>1. after[i] = IF AtUIP(C) \/ Neg(assigned[i + 1]) \notin C THEN C ELSE Resolvent(C, i + 1)
      BY <1>2, <1>5
    <2> HIDE DEF C
    <2>2. Derived(C, i + 1)
      BY <1>7 DEF C
    <2>3. i + 1 \in 1 .. e /\ b < i + 1 /\ (i + 1) - 1 = i
      BY <1>2
    <2>4. CASE AtUIP(C)
      BY <2>1, <2>2, <2>4 DEF Derived
    <2>5. CASE ~AtUIP(C) /\ Neg(assigned[i + 1]) \notin C
      <3>1. \A l \in C : FalseBy(l, i)
        <4> SUFFICES ASSUME NEW l \in C
                     PROVE  FalseBy(l, i)
          OBVIOUS
        <4>1. l \in Lits
          BY <2>2 DEF Derived
        <4>2. PICK q \in 1 .. i + 1 : assigned[q] = Neg(l)
          BY <2>2, <2>5 DEF Derived, FalseBy
        <4>3. q # i + 1
          BY <2>5, <4>1, <4>2, LitFacts
        <4> QED
          BY <1>2, <4>2, <4>3 DEF FalseBy
      <3> QED
        BY <2>1, <2>2, <2>5, <3>1 DEF Derived
    <2>6. CASE ~AtUIP(C) /\ Neg(assigned[i + 1]) \in C
      BY <2>1, <2>2, <2>3, <2>6, ResolventDerived
    <2> QED
      BY <2>4, <2>5, <2>6
  <1>8. \A i \in b .. e : Derived(after[i], i)
    <2> DEFINE T == {k \in Nat : k <= e - b => Derived(after[e - k], e - k)}
    <2> HIDE DEF b, e
    <2>1. 0 \in T
      BY <1>2, <1>6
    <2>2. ASSUME NEW k \in Nat, k \in T
          PROVE  k + 1 \in T
      <3> SUFFICES ASSUME k + 1 <= e - b
                   PROVE  Derived(after[e - (k + 1)], e - (k + 1))
        OBVIOUS
      <3>1. Derived(after[e - k], e - k)
        BY <1>2, <2>2
      <3>2. e - (k + 1) \in b .. e - 1 /\ (e - (k + 1)) + 1 = e - k
        BY <1>2
      <3> QED
        BY <1>7, <3>1, <3>2
    <2>3. \A k \in Nat : k \in T
      <3> HIDE DEF T
      <3> QED
        BY <2>1, <2>2, Induction
    <2>4. ASSUME NEW i \in b .. e
          PROVE  Derived(after[i], i)
      <3>1. e - i \in Nat /\ e - i <= e - b /\ e - (e - i) = i
        BY <1>2
      <3> QED
        BY <2>3, <3>1
    <2> QED
      BY <2>4
  <1>9. AtUIP(after[b]) /\ Derived(after[b], b)
    <2>0. b \in b .. e
      BY <1>2
    <2> SUFFICES ASSUME ~AtUIP(after[b])
                 PROVE  FALSE
      BY <1>8, <2>0
    <2>1. PICK l \in OnLevel(after[b], CurrentLevel) : TRUE
      BY <1>8, <2>0 DEF Derived
    <2>2. l \in Lits /\ False(l) /\ LevelOf(l) = CurrentLevel /\ FalseBy(l, b)
      BY <1>8, <2>0, <2>1 DEF OnLevel, Derived
    <2> QED
      BY <1>2, <2>2, OnCurrentLevel
  <1>10. ASSUME NEW i \in b + 1 .. e
         PROVE  after[i - 1] = IF AtUIP(after[i]) \/ Neg(assigned[i]) \notin after[i] THEN after[i]
                               ELSE Resolvent(after[i], i)
    <2>1. i - 1 \in b .. e /\ i - 1 # e /\ (i - 1) + 1 = i
      BY <1>2
    <2> QED
      BY <1>5, <2>1
  <1>11. \A i \in b .. e : AtUIP(after[i]) => after[i] = after[b]
    <2> DEFINE T == {k \in Nat : k <= e - b => (AtUIP(after[b + k]) => after[b + k] = after[b])}
    <2> HIDE DEF b, e
    <2>1. 0 \in T
      BY <1>2
    <2>2. ASSUME NEW k \in Nat, k \in T
          PROVE  k + 1 \in T
      <3> SUFFICES ASSUME k + 1 <= e - b, AtUIP(after[b + (k + 1)])
                   PROVE  after[b + (k + 1)] = after[b]
        OBVIOUS
      <3>1. b + (k + 1) \in b + 1 .. e /\ (b + (k + 1)) - 1 = b + k
        BY <1>2
      <3>2. after[b + k] = after[b + (k + 1)]
        BY <1>10, <3>1
      <3>3. k <= e - b
        BY <1>2
      <3> QED
        BY <2>2, <3>2, <3>3
    <2>3. \A k \in Nat : k \in T
      <3> HIDE DEF T
      <3> QED
        BY <2>1, <2>2, Induction
    <2>4. ASSUME NEW i \in b .. e
          PROVE  AtUIP(after[i]) => after[i] = after[b]
      <3>1. i - b \in Nat /\ i - b <= e - b /\ b + (i - b) = i
        BY <1>2
      <3> QED
        BY <2>3, <3>1
    <2> QED
      BY <2>4
  <1>12. after[e] = falsified
    BY <1>2, <1>5
  <1> HIDE DEF b, e
  <1> QED
    BY <1>1, <1>8, <1>9, <1>10, <1>11, <1>12 DEF IsWalk, b, e

(* The walk ends with one literal of the current level.                    *)
LEMMA FirstUIPRight ==
  ASSUME TrailIInv, DecisionFirst, falsified # {}, Len(limits) >= 2
  PROVE  /\ FirstUIPClause \in SUBSET Lits
         /\ \A l \in FirstUIPClause : False(l)
         /\ \A A \in TotalAssignments : Agrees(A) => A \cap FirstUIPClause # {}
         /\ OnLevel(FirstUIPClause, CurrentLevel) = {AssertingLiteral(FirstUIPClause)}
  <1>1. AtUIP(FirstUIPClause) /\ Derived(FirstUIPClause, limits[Len(limits)])
    BY FirstUIPWalk DEF IsWalk
  <1>2. \E u : OnLevel(FirstUIPClause, CurrentLevel) = {u}
    <2>1. OnLevel(FirstUIPClause, CurrentLevel) \in SUBSET Lits
      BY <1>1 DEF Derived, OnLevel
    <2>2. \A x, y \in OnLevel(FirstUIPClause, CurrentLevel) : x = y
      BY <1>1, <2>1, AtMostOne DEF AtUIP
    <2> QED
      BY <1>1, <2>2 DEF Derived
  <1>3. OnLevel(FirstUIPClause, CurrentLevel) = {AssertingLiteral(FirstUIPClause)}
    BY <1>2 DEF OnLevel, AssertingLiteral
  <1> QED
    BY <1>1, <1>3 DEF Derived
----------------------------------------------------------------------------
(* Minimization.                                                           *)

(* The literal at position i follows from the lemma and level 0, if the    *)
(* earlier ones in g do.                                                   *)
ImpliedAt(C, i, g) ==
  /\ because[i] # {}
  /\ \A m \in because[i] \ {assigned[i]} :
       /\ LevelOf(m) \in LevelsOf(C) \cup {0}
       /\ LevelOf(m) = 0 \/ m \in C \/ g[Position(m)]

LEMMA ReasonPositions ==
  ASSUME TrailIInv, NEW i \in 1 .. Len(assigned), because[i] # {}, NEW m \in because[i] \ {assigned[i]}
  PROVE  /\ m \in Lits /\ False(m)
         /\ Position(m) \in 1 .. Len(assigned) /\ Position(m) < i
         /\ assigned[Position(m)] = Neg(m)
         /\ LevelOf(m) = LevelAt(Position(m))
  <1>1. /\ TrailShape /\ i - 1 \in Nat /\ i - 1 <= Len(assigned) /\ Len(assigned) \in Nat
        /\ m \in Lits /\ FalseBy(m, i - 1)
    BY TrailTypes DEF TrailIInv, ReasonsRight
  <1>2. /\ Position(m) \in 1 .. i - 1 /\ Position(m) \in 1 .. Len(assigned)
        /\ assigned[Position(m)] = Neg(m) /\ LevelOf(m) = LevelAt(Position(m))
    BY <1>1, FalseLiteral
  <1>3. False(m)
    BY <1>1, Monotone, Unassignable
  <1> QED
    BY <1>1, <1>2, <1>3

LEMMA ImpliedDefined ==
  ASSUME TrailIInv, NEW C
  PROVE  /\ ImpliedByLemma(C) \in [1 .. Len(assigned) -> BOOLEAN]
         /\ \A i \in 1 .. Len(assigned) :
              ImpliedByLemma(C)[i] = ImpliedAt(C, i, ImpliedByLemma(C))
  <1> DEFINE n == Len(assigned)
             F == [1 .. n -> BOOLEAN]
             step == [i \in 1 .. n |-> [g \in F |-> ImpliedAt(C, i, g)]]
             implied == ImpliedByLemma(C)
  <1>1. n \in Nat
    BY TrailTypes DEF TrailIInv
  <1>2. \A i, g : ImpliedAt(C, i, g) \in BOOLEAN
    BY DEF ImpliedAt
  <1>3. step \in [1 .. n -> [F -> BOOLEAN]] /\ \A i \in 1 .. n, g \in F : step[i][g] = ImpliedAt(C, i, g)
    BY <1>2
  <1>4. ASSUME NEW i \in 1 .. n, NEW g \in F, NEW h \in F, \A j \in 1 .. n : j < i => g[j] = h[j]
        PROVE  ImpliedAt(C, i, g) = ImpliedAt(C, i, h)
    <2>1. ASSUME because[i] # {}, NEW m \in because[i] \ {assigned[i]}
          PROVE  g[Position(m)] = h[Position(m)]
      BY <1>4, <2>1, ReasonPositions
    <2> QED
      BY <2>1 DEF ImpliedAt
  <1>5. UpwardFunctions(n, BOOLEAN, step) # {}
    <2>1. \A i \in 1 .. n : \A g, h \in F : (\A j \in 1 .. n : j < i => g[j] = h[j]) => step[i][g] = step[i][h]
      BY <1>3, <1>4
    <2>2. FALSE \in BOOLEAN /\ step \in [1 .. n -> [[1 .. n -> BOOLEAN] -> BOOLEAN]]
      BY <1>3
    <2> DEFINE V == BOOLEAN
    <2>3. /\ FALSE \in V /\ step \in [1 .. n -> [[1 .. n -> V] -> V]]
          /\ \A i \in 1 .. n : \A g, h \in [1 .. n -> V] :
               (\A j \in 1 .. n : j < i => g[j] = h[j]) => step[i][g] = step[i][h]
      BY <2>1, <2>2
    <2> HIDE DEF V, n, step
    <2>4. UpwardFunctions(n, V, step) # {}
      BY <1>1, <2>3, UpwardFunction
    <2> QED
      BY <2>4 DEF V
  <1>6. PICK f \in F : \A i \in 1 .. n : f[i] = ImpliedAt(C, i, f)
    <2> HIDE DEF step
    <2> QED
      BY <1>3, <1>5 DEF UpwardFunctions
  <1>7. f = [i \in 1 .. n |-> ImpliedAt(C, i, f)]
    <2>1. f = [i \in 1 .. n |-> f[i]]
      OBVIOUS
    <2> QED
      BY <1>6, <2>1
  <1>8. implied = [i \in 1 .. n |-> ImpliedAt(C, i, implied)]
    BY <1>7 DEF ImpliedByLemma, ImpliedAt
  <1> QED
    BY <1>2, <1>8

(* In an assignment that satisfies the clauses and makes the remaining     *)
(* literals of C false, what is implied is true and all of C is false.     *)
LEMMA ImpliedLiteralsTrue ==
  ASSUME TrailIInv, NEW C \in SUBSET Lits, \A l \in C : False(l),
         NEW A \in TotalAssignments, Agrees(A), A \cap WithoutRedundantLiterals(C) = {},
         NEW i \in 1 .. Len(assigned)
  PROVE  /\ ImpliedByLemma(C)[i] => assigned[i] \in A
         /\ Neg(assigned[i]) \in C => assigned[i] \in A
  <1> DEFINE n == Len(assigned)
             implied == ImpliedByLemma(C)
             Bad == {j \in 1 .. n : (implied[j] \/ Neg(assigned[j]) \in C) /\ assigned[j] \notin A}
  <1>1. /\ TrailShape /\ n \in Nat
        /\ \A j \in 1 .. n : assigned[j] \in Lits
    BY TrailTypes DEF TrailIInv
  <1>2. SUFFICES ASSUME NEW j \in Bad, \A k \in Bad : j <= k
                 PROVE  FALSE
    <2>1. Bad \in SUBSET Nat
      BY <1>1
    <2> HIDE DEF Bad
    <2>2. Bad = {}
      BY <1>2, <2>1, Least
    <2> QED
      BY <2>2 DEF Bad
  <1>3. /\ j \in 1 .. n /\ assigned[j] \in Lits
        /\ \A k \in 1 .. n : k < j /\ (implied[k] \/ Neg(assigned[k]) \in C) => assigned[k] \in A
        /\ assigned[j] \notin A
        /\ implied[j] \/ Neg(assigned[j]) \in C
    BY <1>1, <1>2
  <1> HIDE DEF Bad
  <1>4. ASSUME NEW k \in 1 .. n, LevelAt(k) = 0
        PROVE  assigned[k] \in A
    <2>1. UpToLevel(0, k)
      BY <1>1, <1>4, LevelsOfPrefixes, 0 \in Nat
    <2> QED
      BY <2>1 DEF Agrees
  <1>5. ASSUME implied[j]
        PROVE  FALSE
    <2>1. ImpliedAt(C, j, implied)
      BY <1>3, <1>5, ImpliedDefined
    <2>2. because[j] # {}
      BY <2>1 DEF ImpliedAt
    <2>3. ASSUME NEW m \in because[j] \ {assigned[j]}
          PROVE  m \notin A
      <3> DEFINE p == Position(m)
      <3>1. /\ m \in Lits /\ p \in 1 .. n /\ p < j
            /\ assigned[p] = Neg(m) /\ LevelOf(m) = LevelAt(p)
        BY <1>3, <2>2, ReasonPositions
      <3>2. LevelOf(m) = 0 \/ m \in C \/ implied[p]
        BY <2>1 DEF ImpliedAt
      <3> HIDE DEF p
      <3>3. Neg(assigned[p]) = m
        BY <3>1, LitFacts
      <3>4. assigned[p] \in A
        BY <1>3, <1>4, <3>1, <3>2, <3>3
      <3> QED
        BY <3>1, <3>4, Opposites
    <2>4. because[j] \in active
      BY <1>3, <2>2 DEF TrailIInv, ReasonsRight
    <2>5. A \cap because[j] # {}
      BY <2>4 DEF Agrees
    <2> QED
      BY <1>3, <2>3, <2>5
  <1>6. ASSUME Neg(assigned[j]) \in C
        PROVE  FALSE
    <2> DEFINE l == Neg(assigned[j])
    <2>1. VarOf(l) = VarOf(assigned[j]) /\ l \in Lits /\ l \in A
      BY <1>3, LitFacts, Opposites
    <2>2. Position(l) = j /\ LevelOf(l) = LevelAt(j)
      BY <1>1, <1>3, <2>1, Positions
    <2>3. l \notin WithoutRedundantLiterals(C)
      BY <2>1
    <2>4. IF because[j] = {} THEN LevelAt(j) = 0 ELSE implied[j]
      BY <1>6, <2>2, <2>3 DEF WithoutRedundantLiterals
    <2> QED
      BY <1>3, <1>4, <1>5, <2>4
  <1> QED
    BY <1>3, <1>5, <1>6

LEMMA MinimizedRight ==
  ASSUME TrailIInv, CurrentLevel # 0, NEW C \in SUBSET Lits, \A l \in C : False(l),
         \A A \in TotalAssignments : Agrees(A) => A \cap C # {},
         NEW u, OnLevel(C, CurrentLevel) = {u}
  PROVE  /\ WithoutRedundantLiterals(C) \subseteq C
         /\ \A A \in TotalAssignments : Agrees(A) => A \cap WithoutRedundantLiterals(C) # {}
         /\ OnLevel(WithoutRedundantLiterals(C), CurrentLevel) = {u}
  <1> DEFINE W == WithoutRedundantLiterals(C)
  <1>1. W \subseteq C
    BY DEF WithoutRedundantLiterals
  <1>2. ASSUME NEW A \in TotalAssignments, Agrees(A), A \cap W = {}
        PROVE  FALSE
    <2>1. PICK l \in C : l \in A
      BY <1>2
    <2>2. l \in Lits /\ FalseBy(l, Len(assigned)) /\ TrailShape /\ Len(assigned) \in Nat
      BY TrailTypes, Unassignable DEF TrailIInv
    <2>3. PICK i \in 1 .. Len(assigned) : assigned[i] = Neg(l)
      BY <2>2 DEF FalseBy
    <2>4. Neg(assigned[i]) \in C
      BY <2>2, <2>3, LitFacts
    <2>5. assigned[i] \in A
      BY <1>2, <2>4, ImpliedLiteralsTrue
    <2> QED
      BY <2>1, <2>2, <2>3, <2>5, Opposites
  <1>3. u \in W
    BY DEF WithoutRedundantLiterals, OnLevel
  <1>4. OnLevel(W, CurrentLevel) = {u}
    BY <1>1, <1>3 DEF OnLevel
  <1> QED
    BY <1>1, <1>2, <1>4

(* ... and what deriveLemma() returns.                                     *)
LEMMA DerivedLemmaRight ==
  ASSUME TrailIInv, DecisionFirst, falsified # {}, Len(limits) >= 2
  PROVE  /\ DerivedLemma \in SUBSET Lits
         /\ \A l \in DerivedLemma : False(l)
         /\ \A A \in TotalAssignments : Agrees(A) => A \cap DerivedLemma # {}
         /\ OnLevel(DerivedLemma, CurrentLevel) = {AssertingLiteral(DerivedLemma)}
         /\ AssertingLiteral(DerivedLemma) = AssertingLiteral(FirstUIPClause)
  <1> DEFINE U == FirstUIPClause
             W == WithoutRedundantLiterals(U)
             a == AssertingLiteral(W)
             B == ResolvedWithBinaries(W, a)
  <1>1. /\ U \in SUBSET Lits /\ \A l \in U : False(l)
        /\ \A A \in TotalAssignments : Agrees(A) => A \cap U # {}
    BY FirstUIPRight
  <1>2. PICK u : OnLevel(U, CurrentLevel) = {u} /\ u = AssertingLiteral(U)
    BY FirstUIPRight
  <1>3. CurrentLevel # 0
    BY TrailTypes DEF TrailIInv, CurrentLevel
  <1>4. /\ W \subseteq U
        /\ \A A \in TotalAssignments : Agrees(A) => A \cap W # {}
        /\ OnLevel(W, CurrentLevel) = {u}
    BY <1>1, <1>2, <1>3, MinimizedRight
  <1> HIDE DEF U, W
  <1>5. ASSUME NEW D, D \subseteq W, u \in D
        PROVE  OnLevel(D, CurrentLevel) = {u} /\ AssertingLiteral(D) = u
    BY <1>4, <1>5 DEF OnLevel, AssertingLiteral
  <1>6. a = u /\ u \in W /\ u \in Lits
    BY <1>1, <1>4, <1>5 DEF OnLevel
  <1>7. B \subseteq W /\ u \in B
    <2>1. {u, Neg(u)} \notin active
      BY DEF TrailIInv, ActiveProper, Proper
    <2> QED
      BY <1>6, <2>1 DEF ResolvedWithBinaries
  <1>8. ASSUME NEW A \in TotalAssignments, Agrees(A)
        PROVE  A \cap B # {}
    <2>1. PICK m \in W : m \in A
      BY <1>4, <1>8
    <2>2. CASE m \in B
      BY <2>1, <2>2
    <2>3. CASE m \notin B
      <3>1. {u, Neg(m)} \in active
        BY <1>6, <2>3 DEF ResolvedWithBinaries
      <3>2. Neg(m) \notin A
        BY <1>1, <1>4, <2>1, Opposites
      <3>3. u \in A
        BY <1>8, <3>1, <3>2 DEF Agrees
      <3> QED
        BY <1>7, <3>3
    <2> QED
      BY <2>2, <2>3
  <1>9. DerivedLemma \in {B, W}
    BY DEF DerivedLemma, U, W
  <1> HIDE DEF B
  <1> QED
    BY <1>1, <1>2, <1>4, <1>5, <1>6, <1>7, <1>8, <1>9 DEF U

(* No clause that propagates is part of a clause with all literals false   *)
(* and one of them on the current level.                                   *)
LEMMA LemmaIsNew ==
  ASSUME TrailIInv, Len(limits) >= 2, NEW D \in SUBSET Lits, \A l \in D : False(l),
         NEW u, OnLevel(D, CurrentLevel) = {u}, NEW C \in active
  PROVE  ~(C \subseteq D)
  <1> SUFFICES ASSUME C \subseteq D
               PROVE  FALSE
    OBVIOUS
  <1>1. TrailShape /\ Len(limits) \in 2 .. Len(limits)
    BY TrailTypes DEF TrailIInv
  <1>2. \A l \in C : ~True(l)
    BY <1>1, Consistent DEF True, False
  <1>3. \A l \in C : \E m \in C \ {l} : ~FalseBy(m, limits[Len(limits)])
    BY <1>1, <1>2, OpenWhenQuiet DEF Open
  <1>4. \A m \in C : ~FalseBy(m, limits[Len(limits)]) => m = u
    BY <1>1, OnCurrentLevel DEF OnLevel
  <1>5. PICK l \in C : TRUE
    BY DEF TrailIInv, ActiveProper, Proper
  <1>6. u \in C
    BY <1>3, <1>4, <1>5
  <1> QED
    BY <1>3, <1>4, <1>6

----------------------------------------------------------------------------
(* The assumptions behind an assignment are decisions of the current       *)
(* level.                                                                  *)
CurrentDecisions ==
  {assigned[j] : j \in {i \in 1 .. Len(assigned) : because[i] = {} /\ LevelAt(i) = CurrentLevel}}

LEMMA AnalysisRight ==
  ASSUME TrailIInv, NEW f \in Lits, True(f) \/ False(f)
  PROVE  /\ f \in AnalyzeAssignment(f)
         /\ AnalyzeAssignment(f) \subseteq {f} \cup CurrentDecisions
  <1> DEFINE n == Len(assigned)
             top == Position(f)
             V == SUBSET ({top} \cup {i \in 1 .. n : LevelAt(i) = CurrentLevel})
             Values(g) == [i \in 0 .. top |->
                             IF i = top THEN {top}
                             ELSE LET R == g[i + 1]
                                  IN  IF i + 1 \in R
                                        THEN R \cup {Position(m) : m \in OnLevel(because[i + 1], CurrentLevel)}
                                        ELSE R]
             reached == CHOOSE g : g = Values(g)
             Step(j, R) == IF j \in R THEN R \cup {Position(m) : m \in OnLevel(because[j], CurrentLevel)}
                           ELSE R
             step == [j \in 1 .. top |-> [R \in V |-> Step(j, R)]]
  <1>1. TrailShape /\ n \in Nat
    BY TrailTypes DEF TrailIInv
  <1>2. top \in 1 .. n
    <2>1. PICK i \in 1 .. n : VarOf(f) = VarOf(assigned[i])
      BY <1>1, LitFacts, TrailTypes DEF True, False
    <2> QED
      BY <1>1, <2>1, Positions
  <1>3. ASSUME NEW j \in 1 .. top, NEW R \in V
        PROVE  Step(j, R) \in V
    <2>1. j \in 1 .. n
      BY <1>1, <1>2
    <2>2. ASSUME NEW m \in OnLevel(because[j], CurrentLevel)
          PROVE  Position(m) \in 1 .. n /\ LevelAt(Position(m)) = CurrentLevel
      <3>1. m \in because[j] /\ because[j] # {} /\ LevelOf(m) = CurrentLevel
        BY DEF OnLevel
      <3>2. CASE m = assigned[j]
        BY <1>1, <2>1, <3>1, <3>2, Positions
      <3>3. CASE m # assigned[j]
        BY <2>1, <3>1, <3>3, ReasonPositions
      <3> QED
        BY <3>2, <3>3
    <2> QED
      BY <2>2
  <1>4. PICK g \in [0 .. top -> V] :
          \A i \in 0 .. top : g[i] = IF i = top THEN {top} ELSE step[i + 1][g[i + 1]]
    <2>1. step \in [0 + 1 .. top -> [V -> V]] /\ {top} \in V
      <3> HIDE DEF Step, V, top
      <3>1. step \in [1 .. top -> [V -> V]] /\ 0 + 1 = 1
        BY <1>3
      <3>2. {top} \in V
        BY DEF V
      <3> QED
        BY <3>1, <3>2
    <2>2. 0 \in Int /\ top \in Int /\ 0 <= top
      BY <1>1, <1>2
    <2> HIDE DEF V, top, step
    <2>3. DownwardFunctions(0, top, V, {top}, step) # {}
      BY <2>1, <2>2, DownwardFunction
    <2> QED
      BY <2>3 DEF DownwardFunctions
  <1>5. g = Values(g)
    <2>1. \A j \in 1 .. top, R \in V : step[j][R] = Step(j, R)
      <3> HIDE DEF Step, V, top
      <3> QED
        OBVIOUS
    <2>2. ASSUME NEW i \in 0 .. top
          PROVE  g[i] = Values(g)[i]
      <3>1. CASE i = top
        BY <1>4, <3>1
      <3>2. CASE i # top
        <4>1. i + 1 \in 1 .. top /\ i + 1 \in 0 .. top
          BY <1>1, <1>2, <3>2
        <4>2. g[i + 1] \in V
          BY <4>1
        <4>3. g[i] = Step(i + 1, g[i + 1])
          <5> HIDE DEF Step, V, top, step
          <5> QED
            BY <1>4, <2>1, <3>2, <4>1, <4>2
        <4> QED
          BY <3>2, <4>3
      <3> QED
        BY <3>1, <3>2
    <2>3. g = [i \in 0 .. top |-> g[i]]
      OBVIOUS
    <2> QED
      BY <2>2, <2>3
  <1>6. reached = Values(reached)
    BY <1>5
  <1>7. ASSUME NEW i \in 0 .. top
        PROVE  reached[i] \in V
    <2> DEFINE T == {k \in Nat : k <= top => reached[top - k] \in V}
    <2>1. 0 \in T
      <3>1. reached[top] = {top}
        <4>1. top \in 0 .. top
          BY <1>1, <1>2
        <4> HIDE DEF top, reached
        <4> QED
          BY <1>6, <4>1
      <3> QED
        BY <1>2, <3>1
    <2>2. ASSUME NEW k \in Nat, k \in T
          PROVE  k + 1 \in T
      <3> SUFFICES ASSUME k + 1 <= top
                   PROVE  reached[top - (k + 1)] \in V
        OBVIOUS
      <3> DEFINE j == top - (k + 1)
      <3>1. j \in 0 .. top /\ j # top /\ j + 1 \in 1 .. top /\ j + 1 = top - k
        BY <1>1, <1>2
      <3>2. reached[j] = Step(j + 1, reached[j + 1])
        BY <1>6, <3>1
      <3> HIDE DEF Step, V, reached, top
      <3>3. reached[j + 1] \in V
        <4>1. k <= top
          BY <1>1, <1>2
        <4> QED
          BY <2>2, <3>1, <4>1
      <3> QED
        BY <1>3, <3>1, <3>2, <3>3
    <2>3. top - i \in Nat /\ top - i <= top /\ top - (top - i) = i
      BY <1>1, <1>2
    <2> HIDE DEF T
    <2>4. \A k \in Nat : k \in T
      BY <2>1, <2>2, Induction
    <2>5. top - i \in T
      BY <2>3, <2>4
    <2> QED
      BY <2>3, <2>5 DEF T
  <1>8. AnalyzeAssignment(f) = {f} \cup {assigned[i] : i \in {j \in reached[0] \ {top} : because[j] = {}}}
    BY DEF AnalyzeAssignment
  <1>9. reached[0] \in V
    BY <1>1, <1>2, <1>7
  <1> HIDE DEF reached, top
  <1> QED
    BY <1>8, <1>9 DEF CurrentDecisions
----------------------------------------------------------------------------
(* Positions keep their level while the trail keeps them.                  *)

LEMMA SameTrail ==
  ASSUME TrailIInv, UNCHANGED absVars
  PROVE  TrailIInv'
  <1>1. UNCHANGED <<active, assigned, because, limits, busy, falsified>>
    BY DEF absVars
  <1>2. TrailShape' /\ ActiveProper'
    BY <1>1 DEF TrailIInv, TrailShape, ActiveProper
  <1>3. ReasonsRight'
    BY <1>1 DEF TrailIInv, ReasonsRight, FalseBy
  <1>4. ConflictRight'
    BY <1>1 DEF TrailIInv, ConflictRight, Falsified, False, True
  <1>5. LevelsQuiet'
    BY <1>1 DEF TrailIInv, LevelsQuiet, QuietAt, FalseBy, TrueBy, Ready
  <1> QED
    BY <1>2, <1>3, <1>4, <1>5 DEF TrailIInv

LEMMA GrowingUpTo ==
  ASSUME TrailShape, NEW l \in Lits, NEW R \in SUBSET Lits, Grows(l, R), NEW j \in Nat
  PROVE  /\ \A i : UpToLevel(j, i)' <=> UpToLevel(j, i)
         /\ UpToLevel(j, Len(assigned) + 1) <=> Len(limits) <= j + 1
  <1>1. \A i : UpToLevel(j, i)' <=> UpToLevel(j, i)
    BY DEF UpToLevel, Grows
  <1>2. UpToLevel(j, Len(assigned) + 1) <=> Len(limits) <= j + 1
    <2>1. Len(assigned) \in Nat /\ Len(limits) \in Nat
      BY TrailTypes
    <2>2. ~(Len(limits) <= j + 1) => limits[j + 2] \in 0 .. Len(assigned)
      BY <2>1, TrailTypes
    <2> QED
      BY <2>1, <2>2 DEF UpToLevel
  <1> QED
    BY <1>1, <1>2

LEMMA OpeningUpTo ==
  ASSUME TrailIInv, OpenLevel, NEW i \in 1 .. Len(assigned), NEW j \in Nat
  PROVE  UpToLevel(j, i)' <=> UpToLevel(j, i)
  <1>1. /\ Len(limits) \in Nat /\ Len(assigned) \in Nat
        /\ Len(limits') = Len(limits) + 1 /\ limits'[Len(limits) + 1] = Len(assigned)
        /\ \A k \in 1 .. Len(limits) : limits'[k] = limits[k]
    BY OpenLevelStep, TrailTypes DEF TrailIInv
  <1>2. CASE Len(limits) <= j
    BY <1>1, <1>2 DEF UpToLevel
  <1>3. CASE Len(limits) = j + 1
    BY <1>1, <1>3 DEF UpToLevel
  <1>4. CASE Len(limits) > j + 1
    <2>1. j + 2 \in 1 .. Len(limits) /\ limits'[j + 2] = limits[j + 2]
      BY <1>1, <1>4
    <2> QED
      BY <1>1, <1>4, <2>1 DEF UpToLevel
  <1> QED
    BY <1>1, <1>2, <1>3, <1>4

LEMMA UndoUpTo ==
  ASSUME TrailIInv, NEW k, Undo(k), NEW j \in Nat
  PROVE  /\ \A i \in 1 .. Len(assigned') : UpToLevel(j, i)' <=> UpToLevel(j, i)
         /\ \A i \in 1 .. Len(assigned) : UpToLevel(j, i) /\ j <= k => i \in 1 .. Len(assigned')
  <1>1. /\ k \in 0 .. Len(limits) - 2
        /\ Len(assigned') = limits[k + 2] /\ limits[k + 2] \in 0 .. Len(assigned)
        /\ Len(limits') = k + 1 /\ \A x \in 1 .. k + 1 : limits'[x] = limits[x]
    BY UndoStep
  <1>2. /\ Len(limits) \in Nat /\ Len(assigned) \in Nat
        /\ \A x \in 1 .. Len(limits) : limits[x] \in 0 .. Len(assigned)
        /\ \A x, y \in 1 .. Len(limits) : x <= y => limits[x] <= limits[y]
    <2>1. \A x, y \in 1 .. Len(limits) : x <= y => limits[x] <= limits[y]
      BY DEF TrailIInv, TrailShape
    <2> QED
      BY <2>1, TrailTypes DEF TrailIInv
  <1>3. CASE j >= k
    <2>1. Len(limits) <= j + 1 \/ (j + 2 \in 1 .. Len(limits) /\ limits[k + 2] <= limits[j + 2])
      BY <1>1, <1>2, <1>3
    <2>2. \A i \in 1 .. Len(assigned') : UpToLevel(j, i)
      BY <1>1, <1>2, <2>1 DEF UpToLevel
    <2>3. \A i : UpToLevel(j, i)'
      BY <1>1, <1>3 DEF UpToLevel
    <2>4. j = k => \A i \in 1 .. Len(assigned) : UpToLevel(j, i) => i \in 1 .. Len(assigned')
      BY <1>1, <1>2 DEF UpToLevel
    <2> QED
      BY <1>1, <1>2, <1>3, <2>2, <2>3, <2>4
  <1>4. CASE j < k
    <2>1. /\ j + 2 \in 1 .. k + 1 /\ j + 2 \in 1 .. Len(limits) /\ k + 2 \in 1 .. Len(limits)
          /\ ~(Len(limits) <= j + 1) /\ ~(Len(limits') <= j + 1)
      BY <1>1, <1>2, <1>4
    <2>2. limits'[j + 2] = limits[j + 2] /\ limits[j + 2] <= limits[k + 2]
      BY <1>1, <1>2, <2>1
    <2> QED
      BY <1>1, <1>2, <2>1, <2>2 DEF UpToLevel
  <1> QED
    BY <1>1, <1>2, <1>3, <1>4
=====
