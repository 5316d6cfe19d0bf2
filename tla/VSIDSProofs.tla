----------------------------- MODULE VSIDSProofs -----------------------------
(***************************************************************************)
(* Proofs about the branching heuristic used by the driver, for any number *)
(* of variables, calls, levels and facts and for any scaling of the        *)
(* activities: the heap stays well-formed and ordered while activities     *)
(* change, no variable is lost, and a decision sought is found and best.   *)
(*                                                                         *)
(* The first part is about the heap alone, for any number of keys: each    *)
(* operation, and each move of an update, keeps the index map an inverse   *)
(* of the array and the heap ordered, and no key gets lost.                *)
(***************************************************************************)
EXTENDS VSIDS, TLAPS, FiniteSetTheorems, WellFoundedInduction

Stored(k) == IndicesNow[k] >= 0

HeapInv == HeapTypeOK /\ IndexInv /\ HeapOrder

----------------------------------------------------------------------------
(* The array and the index map as the update would leave them.             *)

LEMMA NowDef ==
  ASSUME HeapTypeOK
  PROVE  /\ \A i \in Keys : HeapNow[i] =
              IF hpc # "idle" /\ i = cursor THEN elem ELSE heap[i]
         /\ \A k \in Keys : IndicesNow[k] =
              IF hpc # "idle" /\ k = elem THEN cursor ELSE indices[k]
         /\ Cells \subseteq Keys
BY LargestKeyAssumption
   DEF HeapTypeOK, HeapNow, IndicesNow, Keys, Cells

LEMMA NowDefPrimed ==
  ASSUME HeapTypeOK'
  PROVE  /\ \A i \in Keys' : HeapNow'[i] =
              IF hpc' # "idle" /\ i = cursor' THEN elem' ELSE heap'[i]
         /\ \A k \in Keys' : IndicesNow'[k] =
              IF hpc' # "idle" /\ k = elem' THEN cursor' ELSE indices'[k]
<1>1. \A i \in Keys' : HeapNow'[i] =
        IF hpc' # "idle" /\ i = cursor' THEN elem' ELSE heap'[i]
  BY DEF HeapTypeOK, HeapNow
<1>2. \A k \in Keys' : IndicesNow'[k] =
        IF hpc' # "idle" /\ k = elem' THEN cursor' ELSE indices'[k]
  BY DEF HeapTypeOK, IndicesNow
<1> QED
  BY <1>1, <1>2

LEMMA StoredIsInHeap ==
  ASSUME HeapTypeOK, IndexInv, NEW k \in Keys
  PROVE  InHeap(k) <=> Stored(k)
<1>1. Stored(k) => InHeap(k)
  BY DEF IndexInv, Stored, InHeap
<1>2. ASSUME NEW i \in Cells, HeapNow[i] = k PROVE Stored(k)
  BY <1>2, LargestKeyAssumption DEF IndexInv, Stored, Cells, HeapTypeOK
<1> QED
  BY <1>1, <1>2 DEF InHeap

LEMMA InitInv ==
  ASSUME NEW k \in 0 .. LargestKey, HeapInit(k)
  PROVE  HeapInv
<1>1. HeapTypeOK
  BY LargestKeyAssumption DEF HeapInit, HeapTypeOK, Keys, NoKey
<1>2. Cells = {} /\ \A j \in Keys : IndicesNow[j] = -1
  BY LargestKeyAssumption DEF HeapInit, Cells, Keys, IndicesNow
<1> QED
  BY <1>1, <1>2 DEF HeapInv, IndexInv, HeapOrder

(* The heap has room for a key that is not stored.                         *)
LEMMA RoomForKey ==
  ASSUME HeapTypeOK, IndexInv, hpc = "idle", NEW k \in Keys, ~Contains(k)
  PROVE  size <= maxKey
<1> DEFINE T == Keys \ {k}
           f == [i \in Cells |-> heap[i]]
<1>1. \A i \in Cells : heap[i] \in Keys /\ indices[heap[i]] = i
  BY DEF IndexInv, HeapNow, IndicesNow
<1>2. \A i \in Cells : heap[i] # k
  BY <1>1, LargestKeyAssumption DEF Contains, Cells, HeapTypeOK
<1>3. f \in Injection(Cells, T)
  <2>1. f \in [Cells -> T]
    BY <1>1, <1>2
  <2>2. \A a, b \in Cells : f[a] = f[b] => a = b
    BY <1>1
  <2> QED
    BY <2>1, <2>2 DEF Injection, IsInjective
<1>4. maxKey \in Nat /\ size \in Nat
  BY LargestKeyAssumption DEF HeapTypeOK
<1>5. IsFiniteSet(Keys) /\ Cardinality(Keys) = maxKey + 1
  BY <1>4, FS_Interval DEF Keys
<1>6. IsFiniteSet(T) /\ Cardinality(T) = maxKey
  BY <1>4, <1>5, FS_RemoveElement
<1>7. Cardinality(Cells) = size
  <2>1. size - 1 \in Int
    BY <1>4
  <2>2. Cardinality(0 .. size - 1) =
          IF 0 > size - 1 THEN 0 ELSE (size - 1) - 0 + 1
    BY <2>1, FS_Interval
  <2> QED
    BY <2>2, <1>4 DEF Cells
<1>8. Cardinality(Cells) <= Cardinality(T)
  BY <1>3, <1>6, FS_Injection
<1> QED
  BY <1>6, <1>7, <1>8

----------------------------------------------------------------------------
(* A move of an update exchanges the element with the key at index i.      *)

LEMMA ShiftNow ==
  ASSUME HeapTypeOK, IndexInv, hpc # "idle", NEW i \in Cells, i # cursor,
         Shift(i)
  PROVE  /\ HeapTypeOK'
         /\ HeapNow[i] \in Keys /\ HeapNow[i] # elem
         /\ HeapNow[cursor] = elem /\ elem \in Keys /\ cursor \in Cells
         /\ \A j \in Keys : HeapNow'[j] =
              IF j = i THEN elem
              ELSE IF j = cursor THEN HeapNow[i] ELSE HeapNow[j]
         /\ \A k \in Keys : IndicesNow'[k] =
              IF k = elem THEN i
              ELSE IF k = HeapNow[i] THEN cursor ELSE IndicesNow[k]
<1>1. /\ cursor \in Cells /\ cursor \in Keys /\ elem \in Keys
      /\ Cells \subseteq Keys
  BY NowDef DEF HeapTypeOK
<1>2. heap[i] = HeapNow[i] /\ HeapNow[cursor] = elem
  BY <1>1, NowDef
<1>3. heap[i] \in Keys /\ heap[i] # elem
  BY <1>1, <1>2 DEF IndexInv
<1>4. /\ Keys' = Keys /\ Cells' = Cells /\ hpc' = hpc /\ elem' = elem
      /\ cursor' = i
      /\ heap' = [heap EXCEPT ![cursor] = heap[i]]
      /\ indices' = [indices EXCEPT ![heap[i]] = cursor]
  BY DEF Shift, Put, Keys, Cells
<1>5. HeapTypeOK'
  <2>1. heap' \in [Keys -> Keys \cup {NoKey}]
    BY <1>1, <1>3, <1>4 DEF HeapTypeOK
  <2>2. cursor \in -1 .. maxKey
    BY <1>1, LargestKeyAssumption DEF Keys, HeapTypeOK
  <2>3. indices' \in [Keys -> -1 .. maxKey]
    BY <2>2, <1>4 DEF HeapTypeOK
  <2> QED
    BY <1>1, <1>4, <2>1, <2>3 DEF HeapTypeOK, Shift
<1>6. ASSUME NEW j \in Keys
      PROVE  HeapNow'[j] = IF j = i THEN elem
               ELSE IF j = cursor THEN HeapNow[i] ELSE HeapNow[j]
  <2>1. HeapNow'[j] = IF j = i THEN elem ELSE heap'[j]
    BY <1>4, <1>5, NowDefPrimed
  <2>2. heap'[j] = IF j = cursor THEN heap[i] ELSE heap[j]
    BY <1>4 DEF HeapTypeOK
  <2>3. HeapNow[j] = IF j = cursor THEN elem ELSE heap[j]
    BY NowDef
  <2> QED
    BY <2>1, <2>2, <2>3, <1>2
<1>7. ASSUME NEW k \in Keys
      PROVE  IndicesNow'[k] = IF k = elem THEN i
               ELSE IF k = HeapNow[i] THEN cursor ELSE IndicesNow[k]
  <2>1. IndicesNow'[k] = IF k = elem THEN i ELSE indices'[k]
    BY <1>4, <1>5, NowDefPrimed
  <2>2. indices'[k] = IF k = heap[i] THEN cursor ELSE indices[k]
    BY <1>4 DEF HeapTypeOK
  <2>3. IndicesNow[k] = IF k = elem THEN cursor ELSE indices[k]
    BY NowDef
  <2> QED
    BY <2>1, <2>2, <2>3, <1>2
<1> QED
  BY <1>1, <1>2, <1>3, <1>5, <1>6, <1>7

LEMMA ShiftIndex ==
  ASSUME HeapTypeOK, IndexInv, hpc # "idle", NEW i \in Cells, i # cursor,
         Shift(i)
  PROVE  /\ IndexInv'
         /\ \A k \in Keys : Stored(k) => Stored(k)'
<1>1. Keys' = Keys /\ Cells' = Cells
  BY DEF Shift, Keys, Cells
<1>2. Cells \subseteq Keys /\ \A j \in Cells : j >= 0
  BY NowDef, LargestKeyAssumption DEF Cells, HeapTypeOK
<1>3. \A j \in Cells : HeapNow'[j] \in Keys /\ IndicesNow'[HeapNow'[j]] = j
  BY <1>1, <1>2, ShiftNow DEF IndexInv
<1>4. \A k \in Keys : IndicesNow'[k] >= 0 =>
        IndicesNow'[k] \in Cells /\ HeapNow'[IndicesNow'[k]] = k
  BY <1>1, <1>2, ShiftNow DEF IndexInv
<1>5. \A k \in Keys : IndicesNow[k] >= 0 => IndicesNow'[k] >= 0
  BY <1>1, <1>2, ShiftNow
<1> QED
  BY <1>1, <1>3, <1>4, <1>5 DEF IndexInv, Stored

----------------------------------------------------------------------------
(* The order of a heap of n cells, as a property of the activities g in    *)
(* its cells; d and c are the direction and the place of the update.       *)

Ordered(g, n, d, c) ==
  \A i \in 1 .. n - 1 :
    /\ (d = "up" => i # c) /\ (d = "down" => Parent(i) # c)
         => g[i] <= g[Parent(i)]
    /\ d # "idle" /\ Parent(i) = c /\ c # 0 => g[i] <= g[Parent(c)]

Activities == [i \in Cells |-> activity[HeapNow[i]]]

LEMMA ParentFacts ==
  ASSUME NEW i \in Nat \ {0}
  PROVE  /\ Parent(i) \in Nat /\ Parent(i) < i
         /\ \A c \in Nat : Parent(i) = c <=> i = Left(c) \/ i = Right(c)
<1>1. Parent(i) \in Int /\ 2 * Parent(i) <= i - 1 /\ i - 1 < 2 * Parent(i) + 2
  BY DEF Parent
<1>2. Parent(i) \in Nat /\ Parent(i) < i
  BY <1>1
<1>3. \A c \in Nat : Parent(i) = c <=> i = Left(c) \/ i = Right(c)
  BY <1>1 DEF Left, Right
<1> QED
  BY <1>2, <1>3

LEMMA OrderUp ==
  ASSUME NEW n \in Nat, NEW g \in [0 .. n - 1 -> Nat], NEW h,
         NEW c \in 1 .. n - 1, Ordered(g, n, "up", c),
         g[Parent(c)] <= g[c],
         \A i \in 0 .. n - 1 :
           h[i] = IF i = Parent(c) THEN g[c]
                  ELSE IF i = c THEN g[Parent(c)] ELSE g[i]
  PROVE  Ordered(h, n, "up", Parent(c))
<1> DEFINE p == Parent(c)
<1>1. p \in 0 .. n - 1 /\ p < c
  BY ParentFacts
<1>2. SUFFICES ASSUME NEW i \in 1 .. n - 1
               PROVE  /\ i # p => h[i] <= h[Parent(i)]
                      /\ Parent(i) = p /\ p # 0 => h[i] <= h[Parent(p)]
  BY DEF Ordered
<1>3. Parent(i) \in 0 .. n - 1 /\ Parent(i) < i
  BY ParentFacts
<1>4. i # c => g[i] <= g[Parent(i)]
  BY DEF Ordered
<1>5. Parent(i) = c => g[i] <= g[p]
  BY DEF Ordered
<1>6. p # 0 => /\ Parent(p) \in 0 .. n - 1 /\ Parent(p) < p
               /\ g[p] <= g[Parent(p)]
  <2>1. SUFFICES ASSUME p # 0
                 PROVE  /\ Parent(p) \in 0 .. n - 1 /\ Parent(p) < p
                        /\ g[p] <= g[Parent(p)]
    OBVIOUS
  <2>2. p \in 1 .. n - 1 /\ p # c
    BY <1>1, <2>1
  <2>3. g[p] <= g[Parent(p)]
    BY <2>2 DEF Ordered
  <2> HIDE DEF p
  <2>4. Parent(p) \in Nat /\ Parent(p) < p
    BY <2>2, ParentFacts
  <2> QED
    BY <2>2, <2>3, <2>4
<1> HIDE DEF p
<1>7. i # p => h[i] <= h[Parent(i)]
  <2>1. CASE i = c
    BY <2>1, <1>1 DEF p
  <2>2. CASE i # c
    <3>1. SUFFICES ASSUME i # p PROVE h[i] <= h[Parent(i)]
      OBVIOUS
    <3>2. h[i] = g[i] /\ g[i] <= g[Parent(i)]
      BY <3>1, <2>2, <1>4 DEF p
    <3>3. CASE Parent(i) = c
      BY <3>2, <3>3, <1>1, <1>5 DEF p
    <3>4. CASE Parent(i) = p
      <4>1. h[p] = g[c] /\ g[p] <= g[c]
        BY <1>1 DEF p
      <4>2. g[i] \in Nat /\ g[p] \in Nat /\ g[c] \in Nat
        BY <1>1
      <4> QED
        BY <3>2, <3>4, <4>1, <4>2
    <3>5. CASE Parent(i) # c /\ Parent(i) # p
      BY <3>2, <3>5, <1>3 DEF p
    <3> QED
      BY <3>3, <3>4, <3>5
  <2> QED
    BY <2>1, <2>2
<1>8. Parent(i) = p /\ p # 0 => h[i] <= h[Parent(p)]
  <2>1. SUFFICES ASSUME Parent(i) = p, p # 0 PROVE h[i] <= h[Parent(p)]
    OBVIOUS
  <2>2. h[Parent(p)] = g[Parent(p)]
    BY <2>1, <1>1, <1>6 DEF p
  <2>3. CASE i = c
    BY <2>1, <2>2, <2>3, <1>1, <1>6 DEF p
  <2>4. CASE i # c
    BY <2>1, <2>2, <2>4, <1>1, <1>3, <1>4, <1>6 DEF p
  <2> QED
    BY <2>3, <2>4
<1> QED
  BY <1>7, <1>8

LEMMA OrderUpEnd ==
  ASSUME NEW n \in Nat, NEW g \in [0 .. n - 1 -> Nat], NEW c \in 0 .. n - 1,
         Ordered(g, n, "up", c),
         c = 0 \/ g[c] <= g[Parent(c)]
  PROVE  Ordered(g, n, "idle", 0)
BY DEF Ordered

LEMMA OrderDown ==
  ASSUME NEW n \in Nat, NEW g \in [0 .. n - 1 -> Nat], NEW h,
         NEW c \in 0 .. n - 1, NEW m \in 1 .. n - 1,
         Ordered(g, n, "down", c), Parent(m) = c,
         \A i \in 1 .. n - 1 : Parent(i) = c => g[i] <= g[m],
         g[c] <= g[m],
         \A i \in 0 .. n - 1 :
           h[i] = IF i = m THEN g[c] ELSE IF i = c THEN g[m] ELSE g[i]
  PROVE  Ordered(h, n, "down", m)
<1>1. c < m
  BY ParentFacts
<1>2. SUFFICES ASSUME NEW i \in 1 .. n - 1
               PROVE  /\ Parent(i) # m => h[i] <= h[Parent(i)]
                      /\ Parent(i) = m /\ m # 0 => h[i] <= h[Parent(m)]
  BY DEF Ordered
<1>3. Parent(i) \in 0 .. n - 1 /\ Parent(i) < i
  BY ParentFacts
<1>4. Parent(i) # c => g[i] <= g[Parent(i)]
  BY DEF Ordered
<1>5. c # 0 => c \in 1 .. n - 1 /\ g[m] <= g[Parent(c)]
  BY DEF Ordered
<1>6. Parent(i) = m => i # m /\ i # c /\ g[i] <= g[m]
  BY <1>1, <1>3, <1>4
<1>7. Parent(i) = m /\ m # 0 => h[i] <= h[Parent(m)]
  BY <1>1, <1>6
<1>8. ASSUME Parent(i) # m PROVE h[i] <= h[Parent(i)]
  <2>1. CASE Parent(i) = c
    BY <2>1, <1>1, <1>3
  <2>2. CASE i = c
    BY <2>2, <1>1, <1>3, <1>5, <1>8
  <2>3. CASE i # c /\ Parent(i) # c
    <3>1. i # m
      BY <2>3
    <3> QED
      BY <2>3, <3>1, <1>3, <1>4, <1>8
  <2> QED
    BY <2>1, <2>2, <2>3
<1> QED
  BY <1>7, <1>8

LEMMA OrderDownEnd ==
  ASSUME NEW n \in Nat, NEW g \in [0 .. n - 1 -> Nat], NEW c \in 0 .. n - 1,
         Ordered(g, n, "down", c),
         \A i \in 1 .. n - 1 : Parent(i) = c => g[i] <= g[c]
  PROVE  Ordered(g, n, "idle", 0)
BY DEF Ordered

(* A cell is added, or the last one moved to the top.                      *)
LEMMA OrderInsert ==
  ASSUME NEW n \in Nat, NEW g \in [0 .. n - 1 -> Nat], NEW h,
         NEW d, NEW c, d = "idle", Ordered(g, n, d, c),
         \A i \in 0 .. n - 1 : h[i] = g[i]
  PROVE  Ordered(h, n + 1, "up", n)
<1> SUFFICES ASSUME NEW i \in 1 .. n
             PROVE  /\ i # n => h[i] <= h[Parent(i)]
                    /\ Parent(i) # n
  BY DEF Ordered
<1>1. Parent(i) \in Nat /\ Parent(i) < i
  BY ParentFacts
<1> QED
  BY <1>1 DEF Ordered

LEMMA OrderRemoveMax ==
  ASSUME NEW n \in Nat, n > 1, NEW g \in [0 .. n - 1 -> Nat], NEW h,
         NEW d, NEW c, d = "idle", Ordered(g, n, d, c),
         \A i \in 1 .. n - 2 : h[i] = g[i]
  PROVE  Ordered(h, n - 1, "down", 0)
<1> SUFFICES ASSUME NEW i \in 1 .. n - 2, Parent(i) # 0
             PROVE  h[i] <= h[Parent(i)]
  BY DEF Ordered
<1>1. Parent(i) \in 1 .. n - 2
  BY ParentFacts
<1>2. i \in 1 .. n - 1 /\ g[i] <= g[Parent(i)]
  BY DEF Ordered
<1>3. h[i] = g[i] /\ h[Parent(i)] = g[Parent(i)]
  BY <1>1
<1> QED
  BY <1>2, <1>3

(* Activities change, but only that of cell c may overtake others.         *)
LEMMA OrderBump ==
  ASSUME NEW n \in Nat, NEW g \in [0 .. n - 1 -> Nat],
         NEW h \in [0 .. n - 1 -> Nat],
         NEW d, NEW b, d = "idle", Ordered(g, n, d, b), NEW c \in Int,
         \A i, j \in 0 .. n - 1 : i # c /\ g[i] <= g[j] => h[i] <= h[j]
  PROVE  /\ c \in 0 .. n - 1 => Ordered(h, n, "up", c)
         /\ c \notin 0 .. n - 1 => Ordered(h, n, "idle", 0)
<1>1. ASSUME NEW i \in 1 .. n - 1
      PROVE  /\ Parent(i) \in 0 .. n - 1 /\ Parent(i) < i
             /\ g[i] <= g[Parent(i)]
  <2>1. Parent(i) \in 0 .. n - 1 /\ Parent(i) < i
    BY ParentFacts
  <2> QED
    BY <2>1 DEF Ordered
<1>2. ASSUME NEW i \in 1 .. n - 1, i # c PROVE h[i] <= h[Parent(i)]
  BY <1>1, <1>2
<1>3. ASSUME NEW i \in 1 .. n - 1, c \in 0 .. n - 1, Parent(i) = c, c # 0
      PROVE  h[i] <= h[Parent(c)]
  <2>1. c \in 1 .. n - 1 /\ i # c
    BY <1>1, <1>3
  <2>2. g[i] <= g[c] /\ g[c] <= g[Parent(c)] /\ Parent(c) \in 0 .. n - 1
    BY <1>1, <1>3, <2>1
  <2>3. g[i] <= g[Parent(c)]
    BY <2>1, <2>2
  <2> QED
    BY <2>1, <2>2, <2>3
<1> QED
  BY <1>2, <1>3 DEF Ordered

(* The key on top of an ordered heap is maximal.                           *)
LEMMA TopIsMaximal ==
  ASSUME NEW n \in Nat, NEW g \in [0 .. n - 1 -> Nat],
         NEW d, NEW c, d = "idle", Ordered(g, n, d, c)
  PROVE  \A i \in 0 .. n - 1 : g[i] <= g[0]
<1> DEFINE T == {i \in 0 .. n - 1 : ~(g[i] <= g[0])}
<1>1. SUFFICES ASSUME T # {} PROVE FALSE
  OBVIOUS
<1>2. T \subseteq Nat
  OBVIOUS
<1>3. PICK x \in T : \A y \in T : ~(<<y, x>> \in OpToRel(<, Nat))
  <2> HIDE DEF T
  <2> QED
    BY <1>1, <1>2, NatLessThanWellFounded, WFMin
<1>4. \A y \in T : ~(y < x)
  BY <1>2, <1>3 DEF OpToRel
<1>5. x \in 1 .. n - 1
  OBVIOUS
<1>6. Parent(x) \in 0 .. n - 1 /\ Parent(x) < x
  BY <1>5, ParentFacts
<1>7. g[x] <= g[Parent(x)]
  BY <1>5 DEF Ordered
<1>8. Parent(x) \in T
  BY <1>5, <1>6, <1>7
<1> QED
  BY <1>4, <1>6, <1>8

(* HeapOrder with its variables as parameters.                             *)
OrderOf(H, a, n, d, c) ==
  \A i \in (0 .. n - 1) \ {0} :
    /\ (d = "up" => i # c) /\ (d = "down" => Parent(i) # c)
         => a[H[i]] <= a[H[Parent(i)]]
    /\ d # "idle" /\ Parent(i) = c /\ c # 0
         => a[H[i]] <= a[H[Parent(c)]]

LEMMA OrderOfOrdered ==
  ASSUME NEW n \in Nat, NEW g \in [0 .. n - 1 -> Nat], NEW H, NEW a,
         NEW d, NEW c, \A i \in 0 .. n - 1 : g[i] = a[H[i]]
  PROVE  OrderOf(H, a, n, d, c) <=> Ordered(g, n, d, c)
<1>1. \A i \in 1 .. n - 1 : Parent(i) \in 0 .. n - 1
  BY ParentFacts
<1>2. \A i \in 1 .. n - 1 : Parent(i) = c /\ c # 0 => Parent(c) \in 0 .. n - 1
  <2> TAKE i \in 1 .. n - 1
  <2> HAVE Parent(i) = c /\ c # 0
  <2>1. c \in 1 .. n - 1
    BY <1>1
  <2> QED
    BY <2>1, <1>1
<1>3. (0 .. n - 1) \ {0} = 1 .. n - 1
  OBVIOUS
<1> QED
  BY <1>1, <1>2, <1>3 DEF OrderOf, Ordered

LEMMA ActivitiesOrdered ==
  ASSUME HeapTypeOK, IndexInv
  PROVE  /\ size \in Nat /\ Cells = 0 .. size - 1 /\ Cells \subseteq Keys
         /\ Activities \in [0 .. size - 1 -> Nat]
         /\ \A i \in Cells : Activities[i] = activity[HeapNow[i]]
         /\ HeapOrder <=> Ordered(Activities, size, hpc, cursor)
<1>1. size \in Nat /\ Cells = 0 .. size - 1 /\ Cells \subseteq Keys
  BY LargestKeyAssumption, NowDef DEF HeapTypeOK, Cells
<1>2. \A i \in Cells : HeapNow[i] \in Keys
  BY DEF IndexInv
<1>3. \A i \in Cells : Activities[i] = activity[HeapNow[i]]
  BY DEF Activities
<1>4. Activities \in [0 .. size - 1 -> Nat]
  BY <1>1, <1>2 DEF Activities, HeapTypeOK
<1>5. HeapOrder <=> OrderOf(HeapNow, activity, size, hpc, cursor)
  BY DEF HeapOrder, OrderOf, Cells
<1> QED
  BY <1>1, <1>3, <1>4, <1>5, OrderOfOrdered

(* How HeapOrder is established in the next state.                         *)
LEMMA OrderedNext ==
  ASSUME NEW n \in Nat, NEW g \in [0 .. n - 1 -> Nat], size' = n,
         \A i \in 0 .. n - 1 : g[i] = activity'[HeapNow'[i]],
         Ordered(g, n, hpc', cursor')
  PROVE  HeapOrder'
<1>1. OrderOf(HeapNow', activity', n, hpc', cursor')
  BY OrderOfOrdered
<1> QED
  BY <1>1 DEF HeapOrder, OrderOf, Cells

----------------------------------------------------------------------------
(* The operations.                                                         *)

LEMMA SiftUpInv ==
  ASSUME HeapInv, SiftUp
  PROVE  HeapInv' /\ \A k \in Keys : Stored(k) => Stored(k)'
<1> DEFINE c == cursor
           p == Parent(cursor)
           g == Activities
           h == [i \in 0 .. size - 1 |->
                   IF i = p THEN g[c] ELSE IF i = c THEN g[p] ELSE g[i]]
<1>1. HeapTypeOK /\ IndexInv /\ HeapOrder /\ hpc = "up"
  BY DEF HeapInv, SiftUp
<1>2. /\ size \in Nat /\ Cells = 0 .. size - 1 /\ Cells \subseteq Keys
      /\ g \in [0 .. size - 1 -> Nat]
      /\ \A i \in Cells : g[i] = activity[HeapNow[i]]
      /\ Ordered(g, size, "up", c)
  BY <1>1, ActivitiesOrdered
<1>3. c \in 1 .. size - 1 /\ Shift(p) /\ ~Less(elem, heap[p])
  BY <1>1, <1>2 DEF SiftUp, AboveParent, HeapTypeOK
<1>4. p \in Cells /\ p # c
  BY <1>2, <1>3, ParentFacts
<1>5. /\ HeapTypeOK' /\ IndexInv'
      /\ \A k \in Keys : Stored(k) => Stored(k)'
      /\ HeapNow[c] = elem
      /\ \A j \in Keys : HeapNow'[j] =
           IF j = p THEN elem ELSE IF j = c THEN HeapNow[p] ELSE HeapNow[j]
  BY <1>1, <1>3, <1>4, ShiftNow, ShiftIndex
<1>6. heap[p] = HeapNow[p]
  BY <1>1, <1>2, <1>4, NowDef
<1>7. g[p] <= g[c]
  BY <1>2, <1>3, <1>4, <1>5, <1>6 DEF Less
<1>8. /\ size' = size /\ hpc' = "up" /\ cursor' = p /\ activity' = activity
  BY <1>1, <1>3 DEF Shift
<1> HIDE DEF c, p, g
<1>9. h \in [0 .. size - 1 -> Nat]
  BY <1>2, <1>3, <1>4
<1>10. \A i \in 0 .. size - 1 : h[i] = activity'[HeapNow'[i]]
  <2> TAKE i \in 0 .. size - 1
  <2>1. i \in Keys /\ i \in Cells /\ c \in Cells
    BY <1>2, <1>3
  <2>2. h[i] = IF i = p THEN g[c] ELSE IF i = c THEN g[p] ELSE g[i]
    OBVIOUS
  <2> QED
    BY <2>1, <2>2, <1>2, <1>4, <1>5, <1>8
<1>11. Ordered(h, size, "up", p)
  <2>1. Ordered(h, size, "up", Parent(c))
    BY <1>2, <1>3, <1>7, OrderUp DEF p, c
  <2> QED
    BY <2>1 DEF p, c
<1>12. HeapOrder'
  <2> HIDE DEF h
  <2> QED
    BY <1>2, <1>8, <1>9, <1>10, <1>11, OrderedNext
<1> QED
  BY <1>5, <1>12 DEF HeapInv

LEMMA MaxChildFacts ==
  ASSUME HeapTypeOK, IndexInv, hpc # "idle", Left(cursor) < size
  PROVE  /\ MaxChild \in 1 .. size - 1 /\ MaxChild # cursor
         /\ Parent(MaxChild) = cursor
         /\ heap[MaxChild] = HeapNow[MaxChild]
         /\ \A i \in 1 .. size - 1 : Parent(i) = cursor =>
              activity[HeapNow[i]] <= activity[HeapNow[MaxChild]]
<1> DEFINE l == Left(cursor)
           r == Right(cursor)
<1>1. /\ size \in Nat /\ Cells = 0 .. size - 1 /\ Cells \subseteq Keys
      /\ cursor \in 0 .. size - 1
  BY ActivitiesOrdered DEF HeapTypeOK
<1>2. l = 2 * cursor + 1 /\ r = 2 * cursor + 2
  BY DEF Left, Right
<1>3. l \in 1 .. size - 1 /\ l # cursor
  BY <1>1, <1>2
<1>4. r < size => r \in 1 .. size - 1 /\ r # cursor
  BY <1>1, <1>2
<1>5. heap[l] = HeapNow[l] /\ (r < size => heap[r] = HeapNow[r])
  BY <1>1, <1>3, <1>4, NowDef
<1>6. /\ activity[HeapNow[l]] \in Nat
      /\ r < size => activity[HeapNow[r]] \in Nat
  <2>1. \A i \in Cells : activity[HeapNow[i]] \in Nat
    BY DEF IndexInv, HeapTypeOK
  <2> QED
    BY <2>1, <1>1, <1>3, <1>4
<1>7. \A i \in 1 .. size - 1 : Parent(i) = cursor => i = l \/ i = r
  BY <1>1, ParentFacts
<1>8. Parent(l) = cursor /\ (r < size => Parent(r) = cursor)
  BY <1>1, <1>3, <1>4, ParentFacts
<1> HIDE DEF l, r
<1>9. CASE r < size /\ activity[heap[l]] < activity[heap[r]]
  <2>1. MaxChild = r
    BY <1>9 DEF MaxChild, Less, l, r
  <2> QED
    BY <2>1, <1>4, <1>5, <1>6, <1>7, <1>8, <1>9
<1>10. CASE ~(r < size /\ activity[heap[l]] < activity[heap[r]])
  <2>1. MaxChild = l
    BY <1>10 DEF MaxChild, Less, l, r
  <2>2. r < size => activity[HeapNow[r]] <= activity[HeapNow[l]]
    BY <1>5, <1>6, <1>10
  <2>3. r \in 1 .. size - 1 => r < size
    BY <1>1
  <2> QED
    BY <2>1, <2>2, <2>3, <1>3, <1>5, <1>6, <1>7, <1>8
<1> QED
  BY <1>9, <1>10

LEMMA SiftDownInv ==
  ASSUME HeapInv, SiftDown
  PROVE  HeapInv' /\ \A k \in Keys : Stored(k) => Stored(k)'
<1> DEFINE c == cursor
           m == MaxChild
           g == Activities
           h == [i \in 0 .. size - 1 |->
                   IF i = m THEN g[c] ELSE IF i = c THEN g[m] ELSE g[i]]
<1>1. HeapTypeOK /\ IndexInv /\ HeapOrder /\ hpc = "down"
  BY DEF HeapInv, SiftDown
<1>2. /\ size \in Nat /\ Cells = 0 .. size - 1 /\ Cells \subseteq Keys
      /\ g \in [0 .. size - 1 -> Nat]
      /\ \A i \in Cells : g[i] = activity[HeapNow[i]]
      /\ Ordered(g, size, "down", c)
  BY <1>1, ActivitiesOrdered
<1>3. /\ c \in 0 .. size - 1 /\ Shift(m)
      /\ Left(cursor) < size /\ Less(elem, heap[m])
  BY <1>1, <1>2 DEF SiftDown, BelowChild, HeapTypeOK
<1>4. /\ m \in 1 .. size - 1 /\ m # c /\ Parent(m) = c
      /\ heap[m] = HeapNow[m]
      /\ \A i \in 1 .. size - 1 : Parent(i) = c =>
           activity[HeapNow[i]] <= activity[HeapNow[m]]
  BY <1>1, <1>3, MaxChildFacts
<1>5. \A i \in 1 .. size - 1 : Parent(i) = c => g[i] <= g[m]
  BY <1>2, <1>4
<1>6. /\ HeapTypeOK' /\ IndexInv'
      /\ \A k \in Keys : Stored(k) => Stored(k)'
      /\ HeapNow[c] = elem
      /\ \A j \in Keys : HeapNow'[j] =
           IF j = m THEN elem ELSE IF j = c THEN HeapNow[m] ELSE HeapNow[j]
  BY <1>1, <1>2, <1>3, <1>4, ShiftNow, ShiftIndex
<1>7. g[c] <= g[m]
  BY <1>2, <1>3, <1>4, <1>6 DEF Less
<1>8. size' = size /\ hpc' = "down" /\ cursor' = m /\ activity' = activity
  BY <1>1, <1>3 DEF Shift
<1> HIDE DEF c, m, g
<1>9. h \in [0 .. size - 1 -> Nat]
  BY <1>2, <1>3, <1>4
<1>10. \A i \in 0 .. size - 1 : h[i] = activity'[HeapNow'[i]]
  <2> TAKE i \in 0 .. size - 1
  <2>1. i \in Keys /\ i \in Cells /\ c \in Cells /\ m \in Cells
    BY <1>2, <1>3, <1>4
  <2>2. h[i] = IF i = m THEN g[c] ELSE IF i = c THEN g[m] ELSE g[i]
    OBVIOUS
  <2> QED
    BY <2>1, <2>2, <1>2, <1>6, <1>8
<1>11. Ordered(h, size, "down", m)
  BY <1>2, <1>3, <1>4, <1>5, <1>7, OrderDown
<1>12. HeapOrder'
  <2> HIDE DEF h
  <2> QED
    BY <1>2, <1>8, <1>9, <1>10, <1>11, OrderedNext
<1> QED
  BY <1>6, <1>12 DEF HeapInv

LEMMA PlaceInv ==
  ASSUME HeapInv, Place
  PROVE  HeapInv' /\ \A k \in Keys : Stored(k) => Stored(k)'
<1>1. /\ HeapTypeOK /\ IndexInv /\ HeapOrder /\ hpc # "idle"
      /\ hpc \in {"idle", "up", "down"}
  BY DEF HeapInv, Place, HeapTypeOK
<1>2. /\ size \in Nat /\ Cells = 0 .. size - 1 /\ Cells \subseteq Keys
      /\ Activities \in [0 .. size - 1 -> Nat]
      /\ \A i \in Cells : Activities[i] = activity[HeapNow[i]]
      /\ Ordered(Activities, size, hpc, cursor)
  BY <1>1, ActivitiesOrdered
<1>3. cursor \in 0 .. size - 1 /\ elem \in Keys /\ HeapNow[cursor] = elem
  BY <1>1, <1>2, NowDef DEF HeapTypeOK
<1>4. /\ Keys' = Keys /\ Cells' = Cells /\ size' = size
      /\ hpc' = "idle" /\ elem' = NoKey /\ cursor' = 0
      /\ activity' = activity
      /\ heap' = [heap EXCEPT ![cursor] = elem]
      /\ indices' = [indices EXCEPT ![elem] = cursor]
  BY DEF Place, Put, BeginUpdate, Keys, Cells
<1>5. HeapTypeOK'
  <2>1. cursor \in -1 .. maxKey /\ 0 \in Keys
    BY <1>2, <1>3, LargestKeyAssumption DEF HeapTypeOK, Keys
  <2>2. heap' \in [Keys -> Keys \cup {NoKey}]
    BY <1>1, <1>3, <1>4 DEF HeapTypeOK
  <2>3. indices' \in [Keys -> -1 .. maxKey]
    BY <2>1, <1>1, <1>3, <1>4 DEF HeapTypeOK
  <2>4. UNCHANGED <<maxKey, size, activity, result>>
    BY DEF Place
  <2> QED
    BY <2>1, <2>2, <2>3, <2>4, <1>1, <1>4 DEF HeapTypeOK
<1>6. \A i \in Keys : HeapNow'[i] = HeapNow[i]
  BY <1>1, <1>3, <1>4, <1>5, NowDef, NowDefPrimed DEF HeapTypeOK
<1>7. \A k \in Keys : IndicesNow'[k] = IndicesNow[k]
  BY <1>1, <1>3, <1>4, <1>5, NowDef, NowDefPrimed DEF HeapTypeOK
<1>8. IndexInv' /\ \A k \in Keys : Stored(k) => Stored(k)'
  <2>1. ASSUME NEW j \in Cells
        PROVE  HeapNow'[j] \in Keys /\ IndicesNow'[HeapNow'[j]] = j
    <3>1. HeapNow[j] \in Keys /\ IndicesNow[HeapNow[j]] = j
      BY <1>1 DEF IndexInv
    <3> QED
      BY <3>1, <1>2, <1>6, <1>7
  <2>2. ASSUME NEW k \in Keys, IndicesNow'[k] >= 0
        PROVE  IndicesNow'[k] \in Cells /\ HeapNow'[IndicesNow'[k]] = k
    <3>1. IndicesNow[k] \in Cells /\ HeapNow[IndicesNow[k]] = k
      BY <1>1, <1>7, <2>2 DEF IndexInv
    <3> QED
      BY <3>1, <1>2, <1>6, <1>7
  <2>3. \A k \in Keys : IndicesNow[k] >= 0 => IndicesNow'[k] >= 0
    BY <1>7
  <2> QED
    BY <2>1, <2>2, <2>3, <1>4 DEF IndexInv, Stored
<1>9. Ordered(Activities, size, "idle", 0)
  <2>1. CASE hpc = "up"
    <3>1. cursor = 0 \/ Less(elem, heap[Parent(cursor)])
      BY <2>1 DEF Place, AboveParent
    <3>2. ASSUME cursor # 0
          PROVE  Activities[cursor] <= Activities[Parent(cursor)]
      <4>1. Parent(cursor) \in 0 .. size - 1 /\ Parent(cursor) # cursor
        <5>1. cursor \in Nat \ {0}
          BY <1>2, <1>3, <3>2
        <5> QED
          BY <5>1, <1>2, <1>3, ParentFacts
      <4>2. heap[Parent(cursor)] = HeapNow[Parent(cursor)]
        BY <4>1, <1>1, <1>2, NowDef
      <4> QED
        BY <4>1, <4>2, <3>1, <3>2, <1>2, <1>3 DEF Less
    <3> QED
      BY <2>1, <3>2, <1>2, <1>3, OrderUpEnd
  <2>2. CASE hpc = "down"
    <3>1. ASSUME NEW i \in 1 .. size - 1, Parent(i) = cursor
          PROVE  Activities[i] <= Activities[cursor]
      <4>1. Left(cursor) < size
        <5>1. i = Left(cursor) \/ i = Right(cursor)
          BY <3>1, <1>2, <1>3, ParentFacts
        <5> QED
          BY <5>1, <3>1, <1>2, <1>3 DEF Left, Right
      <4>2. /\ MaxChild \in 1 .. size - 1
            /\ heap[MaxChild] = HeapNow[MaxChild]
            /\ activity[HeapNow[i]] <= activity[HeapNow[MaxChild]]
        BY <4>1, <3>1, <1>1, MaxChildFacts
      <4>3. ~(activity[elem] < activity[heap[MaxChild]])
        BY <4>1, <2>2 DEF Place, BelowChild, Less
      <4> QED
        BY <4>2, <4>3, <1>2, <1>3
    <3> QED
      BY <2>2, <3>1, <1>2, <1>3, OrderDownEnd
  <2> QED
    BY <2>1, <2>2, <1>1
<1>10. HeapOrder'
  <2>1. \A i \in 0 .. size - 1 : Activities[i] = activity'[HeapNow'[i]]
    BY <1>2, <1>4, <1>6
  <2> QED
    BY <2>1, <1>2, <1>4, <1>9, OrderedNext
<1> QED
  BY <1>5, <1>8, <1>10 DEF HeapInv

LEMMA HeapStepInv ==
  ASSUME HeapInv, HeapStep
  PROVE  HeapInv' /\ \A k \in Keys : Stored(k) => Stored(k)'
BY SiftUpInv, SiftDownInv, PlaceInv DEF HeapStep

LEMMA InsertInv ==
  ASSUME HeapInv, NEW k \in Keys, Insert(k)
  PROVE  /\ HeapInv'
         /\ Stored(k)'
         /\ \A j \in Keys : Stored(j) => Stored(j)'
<1>1. HeapTypeOK /\ IndexInv /\ HeapOrder /\ hpc = "idle"
  BY DEF HeapInv, Insert
<1>2. /\ size \in Nat /\ Cells = 0 .. size - 1 /\ Cells \subseteq Keys
      /\ Activities \in [0 .. size - 1 -> Nat]
      /\ \A i \in Cells : Activities[i] = activity[HeapNow[i]]
      /\ Ordered(Activities, size, hpc, cursor)
  BY <1>1, ActivitiesOrdered
<1>3. \A j \in Keys : HeapNow[j] = heap[j] /\ IndicesNow[j] = indices[j]
  BY <1>1, NowDef
<1>4. CASE Contains(k)
  <2>1. UNCHANGED heapVars
    BY <1>4 DEF Insert, heapVars
  <2> QED
    BY <2>1, <1>3, <1>4
       DEF heapVars, arrayVars, siftVars, HeapInv, HeapTypeOK, IndexInv,
           HeapOrder, Stored, HeapNow, IndicesNow, Keys, Cells, Contains
<1>5. CASE ~Contains(k)
  <2> DEFINE h == [i \in 0 .. size |->
                     IF i = size THEN activity[k] ELSE Activities[i]]
  <2>1. size <= maxKey
    BY <1>1, <1>5, RoomForKey
  <2>2. /\ Keys' = Keys /\ size' = size + 1 /\ Cells' = 0 .. size
        /\ hpc' = "up" /\ elem' = k /\ cursor' = size
        /\ UNCHANGED <<maxKey, activity, result>>
        /\ heap' = [heap EXCEPT ![size] = k]
        /\ indices' = [indices EXCEPT ![k] = size]
    BY <1>2, <1>5 DEF Insert, Put, BeginUpdate, Keys, Cells
  <2>3. maxKey \in Nat /\ size \in Keys
    BY <1>1, <1>2, <2>1, LargestKeyAssumption DEF HeapTypeOK, Keys
  <2>4. HeapTypeOK'
    <3>1. heap' \in [Keys -> Keys \cup {NoKey}]
      BY <1>1, <2>2 DEF HeapTypeOK
    <3>2. size \in -1 .. maxKey /\ size + 1 \in 0 .. maxKey + 1
      BY <1>2, <2>1, <2>3
    <3>3. indices' \in [Keys -> -1 .. maxKey]
      BY <3>2, <1>1, <2>2 DEF HeapTypeOK
    <3>4. size \in 0 .. size
      BY <1>2
    <3> QED
      BY <3>1, <3>2, <3>3, <3>4, <1>1, <2>2, <2>3 DEF HeapTypeOK
  <2>5. \A i \in Keys : HeapNow'[i] = IF i = size THEN k ELSE HeapNow[i]
    BY <1>1, <1>3, <2>2, <2>4, NowDefPrimed DEF HeapTypeOK
  <2>6. \A j \in Keys :
          IndicesNow'[j] = IF j = k THEN size ELSE IndicesNow[j]
    BY <1>1, <1>3, <2>2, <2>4, NowDefPrimed DEF HeapTypeOK
  <2>7. \A i \in Cells : HeapNow[i] # k /\ HeapNow[i] \in Keys /\ i # size
    <3>1. ~(IndicesNow[k] >= 0)
      BY <1>3, <1>5 DEF Contains
    <3>2. \A i \in Cells : i >= 0 /\ i # size
      BY <1>2
    <3> QED
      BY <3>1, <3>2, <1>1 DEF IndexInv
  <2>8. Cells' = Cells \cup {size} /\ size >= 0
    BY <1>2, <2>2
  <2>9. /\ \A i \in Cells' : HeapNow'[i] \in Keys
                             /\ IndicesNow'[HeapNow'[i]] = i
        /\ \A j \in Keys : IndicesNow'[j] >= 0 =>
             IndicesNow'[j] \in Cells' /\ HeapNow'[IndicesNow'[j]] = j
    <3>1. ASSUME NEW i \in Cells
          PROVE  HeapNow'[i] \in Keys /\ IndicesNow'[HeapNow'[i]] = i
      <4>1. HeapNow[i] \in Keys /\ IndicesNow[HeapNow[i]] = i
        BY <1>1 DEF IndexInv
      <4> QED
        BY <4>1, <1>2, <2>5, <2>6, <2>7
    <3>2. HeapNow'[size] = k /\ IndicesNow'[k] = size
      BY <2>3, <2>5, <2>6
    <3>3. ASSUME NEW j \in Keys, j # k, IndicesNow'[j] >= 0
          PROVE  IndicesNow'[j] \in Cells /\ HeapNow'[IndicesNow'[j]] = j
      <4>1. IndicesNow'[j] = IndicesNow[j]
        BY <2>6, <3>3
      <4>2. IndicesNow[j] \in Cells /\ HeapNow[IndicesNow[j]] = j
        BY <1>1, <3>3, <4>1 DEF IndexInv
      <4> QED
        BY <4>1, <4>2, <1>2, <2>5, <2>7
    <3> QED
      BY <3>1, <3>2, <3>3, <2>8
  <2>10. IndexInv'
    BY <2>2, <2>9 DEF IndexInv
  <2>11. h \in [0 .. (size + 1) - 1 -> Nat]
    <3>1. activity[k] \in Nat
      BY <1>1 DEF HeapTypeOK
    <3>2. (size + 1) - 1 = size /\ \A i \in 0 .. size : i # size => i \in 0 .. size - 1
      BY <1>2
    <3>3. \A i \in 0 .. size : (IF i = size THEN activity[k] ELSE Activities[i]) \in Nat
      BY <3>1, <3>2, <1>2
    <3> QED
      BY <3>2, <3>3
  <2>12. \A i \in 0 .. size : h[i] = activity'[HeapNow'[i]]
    <3> TAKE i \in 0 .. size
    <3>1. CASE i = size
      BY <3>1, <2>2, <2>3, <2>5
    <3>2. CASE i # size
      <4>1. i \in Cells /\ i \in Keys
        BY <3>2, <1>2
      <4> QED
        BY <4>1, <3>2, <1>2, <2>2, <2>5
    <3> QED
      BY <3>1, <3>2
  <2>13. Ordered(h, size + 1, "up", size)
    <3>1. \A i \in 0 .. size - 1 : h[i] = Activities[i]
      BY <1>2
    <3> HIDE DEF h
    <3> QED
      BY <3>1, <1>1, <1>2, OrderInsert
  <2>14. HeapOrder'
    <3>1. size + 1 \in Nat /\ 0 .. (size + 1) - 1 = 0 .. size
      BY <1>2
    <3> HIDE DEF h
    <3> QED
      BY <3>1, <2>2, <2>11, <2>12, <2>13, OrderedNext
  <2>15. Stored(k)' /\ \A j \in Keys : Stored(j) => Stored(j)'
    BY <1>2, <2>6, <2>8 DEF Stored
  <2> QED
    BY <2>4, <2>10, <2>14, <2>15 DEF HeapInv
<1> QED
  BY <1>4, <1>5

LEMMA RemoveMaxInv ==
  ASSUME HeapInv, RemoveMax
  PROVE  /\ HeapInv'
         /\ result' \in Keys
         /\ \A j \in Keys : Stored(j) /\ j # result' => Stored(j)'
         /\ \A j \in Keys : Stored(j) => activity[j] <= activity[result']
<1> DEFINE top == heap[0]
           last == heap[size - 1]
<1>1. HeapTypeOK /\ IndexInv /\ HeapOrder /\ hpc = "idle" /\ size > 0
  BY DEF HeapInv, RemoveMax
<1>2. /\ size \in Nat /\ Cells = 0 .. size - 1 /\ Cells \subseteq Keys
      /\ Activities \in [0 .. size - 1 -> Nat]
      /\ \A i \in Cells : Activities[i] = activity[HeapNow[i]]
      /\ Ordered(Activities, size, hpc, cursor)
  BY <1>1, ActivitiesOrdered
<1>3. /\ \A j \in Keys : HeapNow[j] = heap[j] /\ IndicesNow[j] = indices[j]
      /\ 0 \in Cells /\ size - 1 \in Cells
  BY <1>1, <1>2, NowDef
<1>4. top = HeapNow[0] /\ top \in Keys /\ last = HeapNow[size - 1] /\ last \in Keys
  BY <1>1, <1>2, <1>3 DEF IndexInv
<1>5. result' = top /\ size' = size - 1 /\ UNCHANGED <<maxKey, activity>>
  BY DEF RemoveMax
<1>6. Keys' = Keys /\ Cells' = 0 .. size - 2
  BY <1>2, <1>5 DEF Keys, Cells
<1>7. \A j \in Keys : Stored(j) => activity[j] <= activity[top]
  <2>1. \A i \in Cells : Activities[i] <= Activities[0]
    BY <1>1, <1>2, TopIsMaximal
  <2> QED
    BY <2>1, <1>1, <1>2, <1>3, <1>4 DEF IndexInv, Stored
<1>8. size' \in 0 .. maxKey + 1 /\ maxKey \in Nat
  BY <1>1, <1>2, <1>5, LargestKeyAssumption DEF HeapTypeOK
<1>9. CASE size > 1
  <2>1. /\ hpc' = "down" /\ elem' = last /\ cursor' = 0
        /\ heap' = [heap EXCEPT ![0] = last]
        /\ indices' = [indices EXCEPT ![top] = -1, ![last] = 0]
    BY <1>9 DEF RemoveMax, BeginUpdate
  <2>2. top # last
    <3>1. IndicesNow[top] = 0 /\ IndicesNow[last] = size - 1
      BY <1>1, <1>3, <1>4 DEF IndexInv
    <3>2. size - 1 # 0
      BY <1>2, <1>9
    <3> QED
      BY <3>1, <3>2
  <2>3. HeapTypeOK'
    <3>1. heap' \in [Keys -> Keys \cup {NoKey}]
      BY <1>1, <1>4, <2>1 DEF HeapTypeOK
    <3>2. 0 \in -1 .. maxKey /\ -1 \in -1 .. maxKey
      BY <1>8
    <3>3. indices' \in [Keys -> -1 .. maxKey]
      BY <3>2, <1>1, <1>4, <2>1 DEF HeapTypeOK
    <3>4. 0 \in 0 .. size - 2
      BY <1>2, <1>9
    <3> QED
      BY <3>1, <3>3, <3>4, <1>1, <1>2, <1>3, <1>4, <1>5, <1>6, <1>8, <2>1
         DEF HeapTypeOK
  <2>4. \A i \in Keys : HeapNow'[i] = IF i = 0 THEN last ELSE HeapNow[i]
    <3>1. \A i \in Keys : HeapNow'[i] = IF i = 0 THEN last ELSE heap'[i]
      BY <1>6, <2>1, <2>3, NowDefPrimed
    <3>2. \A i \in Keys : i # 0 => heap'[i] = heap[i]
      BY <1>1, <2>1 DEF HeapTypeOK
    <3> QED
      BY <3>1, <3>2, <1>3
  <2>5. \A j \in Keys : IndicesNow'[j] =
          IF j = last THEN 0 ELSE IF j = top THEN -1 ELSE IndicesNow[j]
    <3>1. \A j \in Keys : IndicesNow'[j] = IF j = last THEN 0 ELSE indices'[j]
      BY <1>6, <2>1, <2>3, NowDefPrimed
    <3>2. \A j \in Keys : j # last =>
            indices'[j] = IF j = top THEN -1 ELSE indices[j]
      BY <1>1, <2>1 DEF HeapTypeOK
    <3> QED
      BY <3>1, <3>2, <1>3
  <2>6. \A i \in 0 .. size - 2 : i \in Cells /\ i \in Keys /\ i # size - 1
    BY <1>2
  <2>7. \A i \in 0 .. size - 2 :
          HeapNow'[i] \in Keys /\ IndicesNow'[HeapNow'[i]] = i
    <3> TAKE i \in 0 .. size - 2
    <3>1. CASE i = 0
      BY <3>1, <1>4, <2>4, <2>5, <2>6
    <3>2. CASE i # 0
      <4>1. /\ HeapNow[i] # top /\ HeapNow[i] # last /\ HeapNow[i] \in Keys
            /\ IndicesNow[HeapNow[i]] = i
        BY <3>2, <1>1, <1>3, <1>4, <2>6 DEF IndexInv
      <4> QED
        BY <4>1, <3>2, <2>4, <2>5, <2>6
    <3> QED
      BY <3>1, <3>2
  <2>8. ASSUME NEW j \in Keys, IndicesNow'[j] >= 0
        PROVE  IndicesNow'[j] \in 0 .. size - 2
               /\ HeapNow'[IndicesNow'[j]] = j
    <3>1. CASE j = last
      BY <3>1, <1>2, <1>3, <1>9, <2>4, <2>5
    <3>2. CASE j # last
      <4>1. j # top /\ IndicesNow'[j] = IndicesNow[j]
        BY <3>2, <2>5, <2>8
      <4>2. IndicesNow[j] \in Cells /\ HeapNow[IndicesNow[j]] = j
        BY <4>1, <1>1, <2>8 DEF IndexInv
      <4>3. IndicesNow[j] # 0 /\ IndicesNow[j] # size - 1
        BY <4>1, <4>2, <3>2, <1>4
      <4>4. IndicesNow[j] \in 0 .. size - 2
        BY <4>2, <4>3, <1>2
      <4> QED
        BY <4>1, <4>2, <4>3, <4>4, <1>2, <2>4
    <3> QED
      BY <3>1, <3>2
  <2>9. IndexInv'
    BY <1>6, <2>7, <2>8 DEF IndexInv
  <2>10. \A j \in Keys : Stored(j) /\ j # result' => Stored(j)'
    BY <1>5, <2>5 DEF Stored
  <2> DEFINE h == [i \in 0 .. (size - 1) - 1 |->
                     IF i = 0 THEN activity[last] ELSE Activities[i]]
  <2>11. h \in [0 .. (size - 1) - 1 -> Nat]
    <3>1. activity[last] \in Nat
      BY <1>1, <1>4 DEF HeapTypeOK
    <3>2. \A i \in 0 .. (size - 1) - 1 : i \in 0 .. size - 1
      BY <1>2
    <3> QED
      BY <3>1, <3>2, <1>2
  <2>12. \A i \in 0 .. (size - 1) - 1 : h[i] = activity'[HeapNow'[i]]
    <3> TAKE i \in 0 .. (size - 1) - 1
    <3>1. i \in Cells /\ i \in Keys
      BY <1>2
    <3> QED
      BY <3>1, <1>2, <1>5, <2>4
  <2>13. Ordered(h, size - 1, "down", 0)
    <3>1. \A i \in 1 .. size - 2 : h[i] = Activities[i]
      BY <1>2
    <3> HIDE DEF h
    <3> QED
      BY <3>1, <1>1, <1>2, <1>9, OrderRemoveMax
  <2>14. HeapOrder'
    <3>1. size - 1 \in Nat
      BY <1>2, <1>9
    <3> HIDE DEF h
    <3> QED
      BY <3>1, <1>5, <2>1, <2>11, <2>12, <2>13, OrderedNext
  <2> QED
    BY <1>4, <1>5, <1>7, <2>3, <2>9, <2>10, <2>14 DEF HeapInv
<1>10. CASE ~(size > 1)
  <2>1. /\ indices' = [indices EXCEPT ![top] = -1]
        /\ UNCHANGED <<heap, hpc, elem, cursor>>
    BY <1>10 DEF RemoveMax, siftVars
  <2>2. size = 1 /\ Cells = {0} /\ Cells' = {}
    BY <1>1, <1>2, <1>6, <1>10
  <2>3. HeapTypeOK'
    <3>1. -1 \in -1 .. maxKey
      BY <1>8
    <3>2. indices' \in [Keys -> -1 .. maxKey]
      BY <3>1, <1>1, <1>4, <2>1 DEF HeapTypeOK
    <3> QED
      BY <3>2, <1>1, <1>4, <1>5, <1>6, <1>8, <2>1 DEF HeapTypeOK
  <2>4. \A j \in Keys : IndicesNow'[j] = IF j = top THEN -1 ELSE IndicesNow[j]
    BY <1>1, <1>3, <1>6, <2>1, <2>3, NowDefPrimed DEF HeapTypeOK
  <2>5. \A j \in Keys : j # top => ~(IndicesNow[j] >= 0)
    BY <1>1, <1>4, <2>2 DEF IndexInv
  <2>6. \A j \in Keys : ~(IndicesNow'[j] >= 0)
    BY <2>4, <2>5
  <2>7. IndexInv' /\ HeapOrder'
    BY <1>6, <2>2, <2>6 DEF IndexInv, HeapOrder
  <2>8. \A j \in Keys : Stored(j) /\ j # result' => Stored(j)'
    BY <1>5, <2>5 DEF Stored
  <2> QED
    BY <1>4, <1>5, <1>7, <2>3, <2>7, <2>8 DEF HeapInv
<1> QED
  BY <1>9, <1>10

LEMMA IncreaseMaxInv ==
  ASSUME HeapInv, NEW k \in 0 .. LargestKey, IncreaseMaxSizeTo(k)
  PROVE  /\ HeapInv'
         /\ Keys \subseteq Keys' /\ Keys' = 0 .. k
         /\ \A j \in Keys : Stored(j) => Stored(j)'
<1>1. HeapTypeOK /\ IndexInv /\ HeapOrder
  BY DEF HeapInv
<1>2. /\ size \in Nat /\ Cells = 0 .. size - 1 /\ Cells \subseteq Keys
      /\ Activities \in [0 .. size - 1 -> Nat]
      /\ \A i \in Cells : Activities[i] = activity[HeapNow[i]]
      /\ Ordered(Activities, size, hpc, cursor)
  BY <1>1, ActivitiesOrdered
<1>3. /\ maxKey \in Nat /\ k \in Nat /\ maxKey <= k /\ maxKey' = k
  BY <1>1, LargestKeyAssumption DEF HeapTypeOK, IncreaseMaxSizeTo
<1>4. Keys' = 0 .. k /\ Keys \subseteq Keys'
  BY <1>3 DEF Keys
<1>5. UNCHANGED <<size, hpc, elem, cursor, result>> /\ Cells' = Cells
  BY DEF IncreaseMaxSizeTo, siftVars, Cells
<1>6. HeapTypeOK'
  <2>1. heap' \in [Keys' -> Keys' \cup {NoKey}]
    BY <1>1, <1>4 DEF IncreaseMaxSizeTo, HeapTypeOK
  <2>2. -1 .. maxKey \subseteq -1 .. k /\ -1 \in -1 .. k
    BY <1>3
  <2>3. indices' \in [Keys' -> -1 .. k]
    BY <1>1, <1>4, <2>2 DEF IncreaseMaxSizeTo, HeapTypeOK
  <2>4. activity' \in [Keys' -> Nat]
    BY <1>1, <1>4 DEF IncreaseMaxSizeTo, HeapTypeOK
  <2>5. size \in 0 .. k + 1
    BY <1>1, <1>3 DEF HeapTypeOK
  <2> QED
    BY <1>1, <1>3, <1>4, <1>5, <2>1, <2>3, <2>4, <2>5 DEF HeapTypeOK
<1>7. \A i \in Keys : HeapNow'[i] = HeapNow[i]
  <2>1. \A i \in Keys : heap'[i] = heap[i]
    BY <1>4 DEF IncreaseMaxSizeTo
  <2> QED
    BY <2>1, <1>1, <1>4, <1>5, <1>6, NowDef, NowDefPrimed
<1>8. \A j \in Keys' : IndicesNow'[j] = IF j \in Keys THEN IndicesNow[j] ELSE -1
  <2>1. \A j \in Keys' : indices'[j] = IF j \in Keys THEN indices[j] ELSE -1
    BY <1>4 DEF IncreaseMaxSizeTo
  <2>2. hpc # "idle" => elem \in Keys
    BY <1>1 DEF HeapTypeOK
  <2> QED
    BY <2>1, <2>2, <1>1, <1>4, <1>5, <1>6, NowDef, NowDefPrimed
<1>9. IndexInv'
  <2>1. ASSUME NEW i \in Cells
        PROVE  HeapNow'[i] \in Keys' /\ IndicesNow'[HeapNow'[i]] = i
    <3>1. HeapNow[i] \in Keys /\ IndicesNow[HeapNow[i]] = i
      BY <1>1 DEF IndexInv
    <3> QED
      BY <3>1, <1>2, <1>4, <1>7, <1>8
  <2>2. ASSUME NEW j \in Keys', IndicesNow'[j] >= 0
        PROVE  IndicesNow'[j] \in Cells /\ HeapNow'[IndicesNow'[j]] = j
    <3>1. j \in Keys /\ IndicesNow'[j] = IndicesNow[j]
      BY <1>8, <2>2
    <3>2. IndicesNow[j] \in Cells /\ HeapNow[IndicesNow[j]] = j
      BY <1>1, <2>2, <3>1 DEF IndexInv
    <3> QED
      BY <3>1, <3>2, <1>2, <1>7
  <2> QED
    BY <1>5, <2>1, <2>2 DEF IndexInv
<1>10. HeapOrder'
  <2>1. \A i \in 0 .. size - 1 : Activities[i] = activity'[HeapNow'[i]]
    <3> TAKE i \in 0 .. size - 1
    <3>1. i \in Keys /\ HeapNow[i] \in Keys
      BY <1>1, <1>2 DEF IndexInv
    <3>2. activity'[HeapNow[i]] = activity[HeapNow[i]]
      BY <3>1, <1>4 DEF IncreaseMaxSizeTo
    <3> QED
      BY <3>1, <3>2, <1>2, <1>7
  <2> QED
    BY <2>1, <1>2, <1>5, OrderedNext
<1>11. \A j \in Keys : Stored(j) => Stored(j)'
  BY <1>4, <1>8 DEF Stored
<1> QED
  BY <1>4, <1>6, <1>9, <1>10, <1>11 DEF HeapInv

(* The activity of v may grow, all of them may be scaled.                  *)
LEMMA BumpInv ==
  ASSUME HeapInv, hpc = "idle", NEW v \in Keys,
         activity' \in [Keys -> Nat],
         \A a, b \in Keys : a # v /\ activity[a] <= activity[b]
                              => activity'[a] <= activity'[b],
         IF Contains(v) THEN IncreasingUpdate(v) ELSE UNCHANGED siftVars,
         UNCHANGED <<maxKey, arrayVars, size, result>>
  PROVE  HeapInv' /\ \A j \in Keys : Stored(j) => Stored(j)'
<1> DEFINE c == indices[v]
           h == [i \in 0 .. size - 1 |-> activity'[HeapNow[i]]]
<1>1. HeapTypeOK /\ IndexInv /\ HeapOrder
  BY DEF HeapInv
<1>2. /\ size \in Nat /\ Cells = 0 .. size - 1 /\ Cells \subseteq Keys
      /\ Activities \in [0 .. size - 1 -> Nat]
      /\ \A i \in Cells : Activities[i] = activity[HeapNow[i]]
      /\ Ordered(Activities, size, hpc, cursor)
  BY <1>1, ActivitiesOrdered
<1>3. UNCHANGED <<maxKey, heap, indices, size, result>> /\ Keys' = Keys /\ Cells' = Cells
  BY DEF arrayVars, Keys, Cells
<1>4. HeapNow = heap /\ IndicesNow = indices
  BY DEF HeapNow, IndicesNow
<1>5. \A i \in Cells : HeapNow[i] \in Keys /\ (i # c => HeapNow[i] # v)
  BY <1>1, <1>4 DEF IndexInv
<1>6. c \in Int /\ (Contains(v) <=> c \in 0 .. size - 1)
  <2>1. c \in Int
    BY <1>1, LargestKeyAssumption DEF HeapTypeOK
  <2>2. c >= 0 => c \in Cells
    BY <1>1, <1>4 DEF IndexInv
  <2> QED
    BY <2>1, <2>2, <1>2 DEF Contains
<1>7. h \in [0 .. size - 1 -> Nat]
  BY <1>2, <1>5
<1>8. \A i, j \in 0 .. size - 1 :
        i # c /\ Activities[i] <= Activities[j] => h[i] <= h[j]
  BY <1>2, <1>5
<1>9. /\ c \in 0 .. size - 1 => Ordered(h, size, "up", c)
      /\ c \notin 0 .. size - 1 => Ordered(h, size, "idle", 0)
  <2> HIDE DEF h, c
  <2> QED
    BY <1>2, <1>6, <1>7, <1>8, OrderBump
<1>10. CASE Contains(v)
  <2>1. hpc' = "up" /\ elem' = v /\ cursor' = c /\ c \in Cells
    BY <1>2, <1>6, <1>10 DEF IncreasingUpdate, BeginUpdate
  <2>2. HeapTypeOK'
    BY <1>1, <1>2, <1>3, <2>1 DEF HeapTypeOK
  <2>3. heap[c] = v
    BY <1>1, <1>4, <1>10 DEF IndexInv, Contains
  <2>4. \A i \in Keys : HeapNow'[i] = HeapNow[i] /\ IndicesNow'[i] = IndicesNow[i]
    BY <1>3, <1>4, <2>1, <2>2, <2>3, NowDefPrimed
  <2>5. IndexInv'
    <3>1. ASSUME NEW i \in Cells
          PROVE  HeapNow'[i] \in Keys /\ IndicesNow'[HeapNow'[i]] = i
      <4>1. HeapNow[i] \in Keys /\ IndicesNow[HeapNow[i]] = i
        BY <1>1 DEF IndexInv
      <4>2. HeapNow'[i] = HeapNow[i]
        BY <1>2, <2>4
      <4>3. IndicesNow'[HeapNow[i]] = IndicesNow[HeapNow[i]]
        BY <4>1, <2>4
      <4> QED
        BY <4>1, <4>2, <4>3
    <3>2. ASSUME NEW j \in Keys, IndicesNow'[j] >= 0
          PROVE  IndicesNow'[j] \in Cells /\ HeapNow'[IndicesNow'[j]] = j
      <4>1. IndicesNow'[j] = IndicesNow[j]
        BY <2>4
      <4>2. IndicesNow[j] \in Cells /\ HeapNow[IndicesNow[j]] = j
        BY <1>1, <3>2, <4>1 DEF IndexInv
      <4> QED
        BY <4>1, <4>2, <1>2, <2>4
    <3> QED
      BY <3>1, <3>2, <1>3 DEF IndexInv
  <2>6. \A i \in 0 .. size - 1 : h[i] = activity'[HeapNow'[i]]
    BY <1>2, <2>4
  <2>7. HeapOrder'
    <3> HIDE DEF h, c
    <3> QED
      BY <1>2, <1>3, <1>7, <1>9, <2>1, <2>6, OrderedNext
  <2> QED
    BY <2>2, <2>4, <2>5, <2>7 DEF HeapInv, Stored
<1>11. CASE ~Contains(v)
  <2>1. UNCHANGED <<hpc, elem, cursor>>
    BY <1>11 DEF siftVars
  <2>2. HeapTypeOK'
    BY <1>1, <1>3, <2>1 DEF HeapTypeOK
  <2>3. HeapNow' = HeapNow /\ IndicesNow' = IndicesNow
    BY <1>3, <2>1 DEF HeapNow, IndicesNow
  <2>4. IndexInv'
    BY <1>1, <1>3, <2>3 DEF IndexInv
  <2>5. \A i \in 0 .. size - 1 : h[i] = activity'[HeapNow'[i]]
    BY <2>3
  <2>6. Ordered(h, size, hpc', cursor')
    BY <1>6, <1>9, <1>11, <2>1 DEF Ordered
  <2>7. HeapOrder'
    <3> HIDE DEF h, c
    <3> QED
      BY <1>2, <1>3, <1>7, <2>5, <2>6, OrderedNext
  <2> QED
    BY <2>2, <2>3, <2>4, <2>7 DEF HeapInv, Stored
<1> QED
  BY <1>10, <1>11

LEMMA HeapUnchanged ==
  ASSUME HeapInv, UNCHANGED heapVars
  PROVE  HeapInv' /\ \A j \in Keys : Stored(j) => Stored(j)'
<1>1. UNCHANGED <<maxKey, heap, indices, size, activity, hpc, elem, cursor, result>>
  BY DEF heapVars, arrayVars, siftVars
<1>2. UNCHANGED <<Keys, Cells, HeapNow, IndicesNow>>
  BY <1>1 DEF Keys, Cells, HeapNow, IndicesNow
<1> QED
  BY <1>1, <1>2 DEF HeapInv, HeapTypeOK, IndexInv, HeapOrder, Stored

(* What the last removeMax() returned may be forgotten.                    *)
LEMMA ResultForgotten ==
  ASSUME HeapInv, result' = NoKey,
         UNCHANGED <<maxKey, arrayVars, size, activity, siftVars>>
  PROVE  HeapInv' /\ \A j \in Keys : Stored(j) => Stored(j)'
<1>1. UNCHANGED <<maxKey, heap, indices, size, activity, hpc, elem, cursor>>
  BY DEF arrayVars, siftVars
<1>2. UNCHANGED <<Keys, Cells, HeapNow, IndicesNow>>
  BY <1>1 DEF Keys, Cells, HeapNow, IndicesNow
<1> QED
  BY <1>1, <1>2 DEF HeapInv, HeapTypeOK, IndexInv, HeapOrder, Stored

----------------------------------------------------------------------------
(* Arithmetic of the scaling.                                              *)

LEMMA DivisionFacts ==
  ASSUME NEW a \in Nat, NEW d \in Nat \ {0}
  PROVE  a \div d \in Nat /\ d * (a \div d) <= a /\ a < d * (a \div d) + d
OBVIOUS

LEMMA ProductMonotone ==
  ASSUME NEW d \in Nat, NEW p \in Nat, NEW q \in Nat, p + 1 <= q
  PROVE  d * p + d <= d * q
OBVIOUS

LEMMA DivisionMonotone ==
  ASSUME NEW a \in Nat, NEW b \in Nat, NEW d \in Nat \ {0}, a <= b
  PROVE  a \div d <= b \div d
<1> DEFINE p == a \div d
           q == b \div d
<1>1. p \in Nat /\ d * p <= a /\ q \in Nat /\ b < d * q + d
  BY DivisionFacts
<1>2. d * q \in Nat /\ d * p \in Nat
  BY <1>1
<1> HIDE DEF p, q
<1>3. ~(q + 1 <= p)
  <2> SUFFICES ASSUME q + 1 <= p PROVE FALSE
    OBVIOUS
  <2>1. d * q + d <= d * p
    BY <1>1, ProductMonotone
  <2> QED
    BY <2>1, <1>1, <1>2
<1>4. p <= q
  BY <1>1, <1>3
<1> QED
  BY <1>4 DEF p, q

LEMMA ProductPositive ==
  ASSUME NEW a \in Nat \ {0}, NEW b \in Nat \ {0}
  PROVE  a * b \in Nat \ {0}
OBVIOUS

----------------------------------------------------------------------------
(* The inductive invariant.                                                *)

DriverType ==
  /\ delta \in Nat \ {0}
  /\ eligible \in [Keys -> BOOLEAN]
  /\ facts \subseteq Keys
  /\ assumed \subseteq Keys
  /\ levelOf \in [Keys -> -1 .. MaxLevel]
  /\ curLevel \in 0 .. MaxLevel
  /\ pc \in {"inserting", "idle", "growing", "facts", "assumptions", "search",
             "pick", "decided", "propagate", "conflict", "seen", "resetting"}
  /\ pending \subseteq Keys
  /\ target \in -1 .. MaxLevel

BeforeSearch == pc \in {"inserting", "idle", "growing"}

(* Where all facts and assumptions are assigned below the decisions.       *)
OnSystemLevels ==
  \/ pc \in {"search", "pick", "decided", "conflict", "seen"}
  \/ pc = "propagate" /\ curLevel >= 1
  \/ pc = "resetting" /\ target >= 1

Levels ==
  /\ \A v \in Keys : levelOf[v] <= curLevel
  /\ BeforeSearch => \A v \in Keys : levelOf[v] = -1
  /\ BeforeSearch \/ pc = "facts" => curLevel = 0
  /\ pc = "assumptions" => curLevel = 1 /\ \A v \in facts : levelOf[v] # -1
  /\ OnSystemLevels => \A v \in facts \cup assumed : levelOf[v] \in 0 .. 1
  /\ pc = "pick" => \E v \in Keys : levelOf[v] = -1

(* Only facts and assumptions are no decision variables.                   *)
Eligibles ==
  ~BeforeSearch => \A v \in Keys : eligible[v] \/ v \in facts \cup assumed

(* A variable about to lose its value will be put back before.             *)
Kept ==
  /\ \A v \in Keys : \/ levelOf[v] # -1
                     \/ Stored(v)
                     \/ pc \in {"inserting", "growing"} /\ v \in pending
                     \/ pc = "decided" /\ v = result
  /\ pc = "resetting" =>
       \A v \in Keys : levelOf[v] > target => v \in pending \/ Stored(v)

VSIDSInv ==
  HeapInv /\ DriverType /\ Levels /\ Eligibles /\ Kept /\ PickIsBest

LEMMA Bounds == MaxLevel \in Nat /\ MaxLevel >= 1 /\ LargestKey \in Nat
BY BoundsAssumption, LargestKeyAssumption

LEMMA VSIDSInit ==
  ASSUME Init PROVE VSIDSInv
<1>1. HeapInit(0) /\ Keys = {0}
  BY DEF Init, HeapInit, Keys
<1>2. HeapInv
  BY <1>1, Bounds, InitInv
<1>3. DriverType
  BY <1>1, Bounds DEF Init, DriverType
<1>4. Levels /\ Eligibles /\ Kept /\ PickIsBest
  BY <1>1 DEF Init, Levels, Eligibles, Kept, PickIsBest, BeforeSearch, OnSystemLevels
<1> QED
  BY <1>2, <1>3, <1>4 DEF VSIDSInv

LEMMA InsertedInv ==
  ASSUME VSIDSInv, Inserted
  PROVE  VSIDSInv'
<1>1. UNCHANGED heapVars
  BY DEF Inserted
<1>2. HeapInv' /\ \A j \in Keys : Stored(j) => Stored(j)'
  BY <1>1, HeapUnchanged DEF VSIDSInv
<1>3. Keys' = Keys
  BY <1>1 DEF Keys, heapVars
<1>4. DriverType'
  BY <1>3, Bounds DEF VSIDSInv, DriverType, Levels, BeforeSearch, Inserted, driverVars, Ready
<1>5. Levels'
  BY <1>3, Bounds DEF VSIDSInv, DriverType, Levels, BeforeSearch, OnSystemLevels,
     Inserted, driverVars, Ready
<1>6. Eligibles'
  BY <1>3 DEF VSIDSInv, DriverType, Eligibles, BeforeSearch, Inserted, driverVars, Ready
<1>7. Kept'
  BY <1>2, <1>3 DEF VSIDSInv, DriverType, Kept, Inserted, driverVars, Ready
<1>8. PickIsBest'
  BY DEF Inserted, PickIsBest, PrepareBacktrack
<1> QED
  BY <1>2, <1>4, <1>5, <1>6, <1>7, <1>8 DEF VSIDSInv

LEMMA InitializeInv ==
  ASSUME VSIDSInv, Initialize
  PROVE  VSIDSInv'
<1>1. UNCHANGED heapVars
  BY DEF Initialize
<1>2. HeapInv' /\ \A j \in Keys : Stored(j) => Stored(j)'
  BY <1>1, HeapUnchanged DEF VSIDSInv
<1>3. Keys' = Keys
  BY <1>1 DEF Keys, heapVars
<1>4. DriverType'
  BY <1>3, Bounds DEF VSIDSInv, DriverType, Levels, BeforeSearch, Initialize, driverVars, Ready
<1>5. Levels'
  BY <1>3, Bounds DEF VSIDSInv, DriverType, Levels, BeforeSearch, OnSystemLevels,
     Initialize, driverVars, Ready
<1>6. Eligibles'
  BY <1>3 DEF VSIDSInv, DriverType, Eligibles, BeforeSearch, Initialize, driverVars, Ready
<1>7. Kept'
  BY <1>2, <1>3 DEF VSIDSInv, DriverType, Kept, Initialize, driverVars, Ready
<1>8. PickIsBest'
  BY DEF Initialize, PickIsBest, PrepareBacktrack
<1> QED
  BY <1>2, <1>4, <1>5, <1>6, <1>7, <1>8 DEF VSIDSInv

LEMMA FactsDoneInv ==
  ASSUME VSIDSInv, FactsDone
  PROVE  VSIDSInv'
<1>1. UNCHANGED heapVars
  BY DEF FactsDone
<1>2. HeapInv' /\ \A j \in Keys : Stored(j) => Stored(j)'
  BY <1>1, HeapUnchanged DEF VSIDSInv
<1>3. Keys' = Keys
  BY <1>1 DEF Keys, heapVars
<1>4. DriverType'
  BY <1>3, Bounds DEF VSIDSInv, DriverType, Levels, BeforeSearch, FactsDone, driverVars, Assigned
<1>5. Levels'
  BY <1>3, Bounds DEF VSIDSInv, DriverType, Levels, BeforeSearch, OnSystemLevels,
     FactsDone, driverVars, Assigned
<1>6. Eligibles'
  BY <1>3 DEF VSIDSInv, DriverType, Eligibles, BeforeSearch, FactsDone, driverVars, Assigned
<1>7. Kept'
  BY <1>2, <1>3 DEF VSIDSInv, DriverType, Kept, FactsDone, driverVars, Assigned
<1>8. PickIsBest'
  BY DEF FactsDone, PickIsBest, PrepareBacktrack
<1> QED
  BY <1>2, <1>4, <1>5, <1>6, <1>7, <1>8 DEF VSIDSInv

LEMMA AssumptionsDoneInv ==
  ASSUME VSIDSInv, AssumptionsDone
  PROVE  VSIDSInv'
<1>1. UNCHANGED heapVars
  BY DEF AssumptionsDone
<1>2. HeapInv' /\ \A j \in Keys : Stored(j) => Stored(j)'
  BY <1>1, HeapUnchanged DEF VSIDSInv
<1>3. Keys' = Keys
  BY <1>1 DEF Keys, heapVars
<1>4. DriverType'
  BY <1>3, Bounds DEF VSIDSInv, DriverType, Levels, BeforeSearch, AssumptionsDone, driverVars, Assigned
<1>5. Levels'
  BY <1>3, Bounds DEF VSIDSInv, DriverType, Levels, BeforeSearch, OnSystemLevels,
     AssumptionsDone, driverVars, Assigned
<1>6. Eligibles'
  BY <1>3 DEF VSIDSInv, DriverType, Eligibles, BeforeSearch, AssumptionsDone, driverVars, Assigned
<1>7. Kept'
  BY <1>2, <1>3 DEF VSIDSInv, DriverType, Kept, AssumptionsDone, driverVars, Assigned
<1>8. PickIsBest'
  BY DEF AssumptionsDone, PickIsBest, PrepareBacktrack
<1> QED
  BY <1>2, <1>4, <1>5, <1>6, <1>7, <1>8 DEF VSIDSInv

LEMMA NewLevelInv ==
  ASSUME VSIDSInv, NewLevel
  PROVE  VSIDSInv'
<1>1. UNCHANGED heapVars
  BY DEF NewLevel
<1>2. HeapInv' /\ \A j \in Keys : Stored(j) => Stored(j)'
  BY <1>1, HeapUnchanged DEF VSIDSInv
<1>3. Keys' = Keys
  BY <1>1 DEF Keys, heapVars
<1>4. DriverType'
  BY <1>3, Bounds DEF VSIDSInv, DriverType, Levels, BeforeSearch, NewLevel, driverVars, Assigned
<1>5. Levels'
  BY <1>3, Bounds DEF VSIDSInv, DriverType, Levels, BeforeSearch, OnSystemLevels,
     NewLevel, driverVars, Assigned
<1>6. Eligibles'
  BY <1>3 DEF VSIDSInv, DriverType, Eligibles, BeforeSearch, NewLevel, driverVars, Assigned
<1>7. Kept'
  BY <1>2, <1>3 DEF VSIDSInv, DriverType, Kept, NewLevel, driverVars, Assigned
<1>8. PickIsBest'
  BY DEF NewLevel, PickIsBest, PrepareBacktrack
<1> QED
  BY <1>2, <1>4, <1>5, <1>6, <1>7, <1>8 DEF VSIDSInv

LEMMA NoConflictInv ==
  ASSUME VSIDSInv, NoConflict
  PROVE  VSIDSInv'
<1>1. UNCHANGED heapVars
  BY DEF NoConflict
<1>2. HeapInv' /\ \A j \in Keys : Stored(j) => Stored(j)'
  BY <1>1, HeapUnchanged DEF VSIDSInv
<1>3. Keys' = Keys
  BY <1>1 DEF Keys, heapVars
<1>4. DriverType'
  BY <1>3, Bounds DEF VSIDSInv, DriverType, Levels, BeforeSearch, NoConflict, driverVars
<1>5. Levels'
  BY <1>3, Bounds DEF VSIDSInv, DriverType, Levels, BeforeSearch, OnSystemLevels,
     NoConflict, driverVars
<1>6. Eligibles'
  BY <1>3 DEF VSIDSInv, DriverType, Eligibles, BeforeSearch, NoConflict, driverVars
<1>7. Kept'
  BY <1>2, <1>3 DEF VSIDSInv, DriverType, Kept, NoConflict, driverVars
<1>8. PickIsBest'
  BY DEF NoConflict, PickIsBest, PrepareBacktrack
<1> QED
  BY <1>2, <1>4, <1>5, <1>6, <1>7, <1>8 DEF VSIDSInv

LEMMA BeginConflictInv ==
  ASSUME VSIDSInv, BeginConflict
  PROVE  VSIDSInv'
<1>1. UNCHANGED heapVars
  BY DEF BeginConflict
<1>2. HeapInv' /\ \A j \in Keys : Stored(j) => Stored(j)'
  BY <1>1, HeapUnchanged DEF VSIDSInv
<1>3. Keys' = Keys
  BY <1>1 DEF Keys, heapVars
<1>4. DriverType'
  BY <1>3, Bounds DEF VSIDSInv, DriverType, Levels, BeforeSearch, BeginConflict, driverVars
<1>5. Levels'
  BY <1>3, Bounds DEF VSIDSInv, DriverType, Levels, BeforeSearch, OnSystemLevels,
     BeginConflict, driverVars
<1>6. Eligibles'
  BY <1>3 DEF VSIDSInv, DriverType, Eligibles, BeforeSearch, BeginConflict, driverVars
<1>7. Kept'
  BY <1>2, <1>3 DEF VSIDSInv, DriverType, Kept, BeginConflict, driverVars
<1>8. PickIsBest'
  BY DEF BeginConflict, PickIsBest, PrepareBacktrack
<1> QED
  BY <1>2, <1>4, <1>5, <1>6, <1>7, <1>8 DEF VSIDSInv

LEMMA EndConflictInv ==
  ASSUME VSIDSInv, EndConflict
  PROVE  VSIDSInv'
<1>1. UNCHANGED heapVars
  BY DEF EndConflict
<1>2. HeapInv' /\ \A j \in Keys : Stored(j) => Stored(j)'
  BY <1>1, HeapUnchanged DEF VSIDSInv
<1>3. Keys' = Keys
  BY <1>1 DEF Keys, heapVars
<1>4. DriverType'
  <2>1. delta' \in Nat \ {0}
    BY ScaleAssumption, ProductPositive DEF VSIDSInv, DriverType, EndConflict
  <2>2. facts' \subseteq Keys /\ pending' \subseteq Keys
    BY DEF VSIDSInv, DriverType, EndConflict, PrepareBacktrack
  <2>3. target' \in -1 .. MaxLevel /\ pc' = "resetting"
    BY Bounds DEF VSIDSInv, DriverType, EndConflict, PrepareBacktrack
  <2> QED
    BY <1>3, <2>1, <2>2, <2>3 DEF VSIDSInv, DriverType, EndConflict
<1>5. Levels'
  BY <1>3, Bounds DEF VSIDSInv, DriverType, Levels, BeforeSearch, OnSystemLevels,
     EndConflict, driverVars, PrepareBacktrack, Ready
<1>6. Eligibles'
  BY <1>3 DEF VSIDSInv, DriverType, Eligibles, BeforeSearch, EndConflict, driverVars, PrepareBacktrack, Ready
<1>7. Kept'
  BY <1>2, <1>3 DEF VSIDSInv, DriverType, Kept, EndConflict, driverVars, PrepareBacktrack, Ready
<1>8. PickIsBest'
  BY DEF EndConflict, PickIsBest, PrepareBacktrack
<1> QED
  BY <1>2, <1>4, <1>5, <1>6, <1>7, <1>8 DEF VSIDSInv

LEMMA BacktrackAllInv ==
  ASSUME VSIDSInv, BacktrackAll
  PROVE  VSIDSInv'
<1>1. UNCHANGED heapVars
  BY DEF BacktrackAll
<1>2. HeapInv' /\ \A j \in Keys : Stored(j) => Stored(j)'
  BY <1>1, HeapUnchanged DEF VSIDSInv
<1>3. Keys' = Keys
  BY <1>1 DEF Keys, heapVars
<1>4. DriverType'
  BY <1>3, Bounds DEF VSIDSInv, DriverType, Levels, BeforeSearch, BacktrackAll, driverVars, PrepareBacktrack
<1>5. Levels'
  BY <1>3, Bounds DEF VSIDSInv, DriverType, Levels, BeforeSearch, OnSystemLevels,
     BacktrackAll, driverVars, PrepareBacktrack
<1>6. Eligibles'
  BY <1>3 DEF VSIDSInv, DriverType, Eligibles, BeforeSearch, BacktrackAll, driverVars, PrepareBacktrack
<1>7. Kept'
  BY <1>2, <1>3 DEF VSIDSInv, DriverType, Kept, BacktrackAll, driverVars, PrepareBacktrack
<1>8. PickIsBest'
  BY DEF BacktrackAll, PickIsBest, PrepareBacktrack
<1> QED
  BY <1>2, <1>4, <1>5, <1>6, <1>7, <1>8 DEF VSIDSInv

LEMMA UndoInv ==
  ASSUME VSIDSInv, Undo
  PROVE  VSIDSInv'
<1>1. UNCHANGED heapVars
  BY DEF Undo
<1>2. HeapInv' /\ \A j \in Keys : Stored(j) => Stored(j)'
  BY <1>1, HeapUnchanged DEF VSIDSInv
<1>3. Keys' = Keys
  BY <1>1 DEF Keys, heapVars
<1>4. DriverType'
  BY <1>3, Bounds DEF VSIDSInv, DriverType, Levels, BeforeSearch, Undo, driverVars, Ready, AtLeast
<1>5. Levels'
  BY <1>3, Bounds DEF VSIDSInv, DriverType, Levels, BeforeSearch, OnSystemLevels,
     Undo, driverVars, Ready, AtLeast
<1>6. Eligibles'
  BY <1>3 DEF VSIDSInv, DriverType, Eligibles, BeforeSearch, Undo, driverVars, Ready, AtLeast
<1>7. Kept'
  BY <1>2, <1>3 DEF VSIDSInv, DriverType, Kept, Undo, driverVars, Ready, AtLeast
<1>8. PickIsBest'
  BY DEF Undo, PickIsBest, PrepareBacktrack
<1> QED
  BY <1>2, <1>4, <1>5, <1>6, <1>7, <1>8 DEF VSIDSInv

LEMMA ImplyInv ==
  ASSUME VSIDSInv, NEW v \in Keys, Imply(v)
  PROVE  VSIDSInv'
<1>1. UNCHANGED heapVars
  BY DEF Imply
<1>2. HeapInv' /\ \A j \in Keys : Stored(j) => Stored(j)'
  BY <1>1, HeapUnchanged DEF VSIDSInv
<1>3. Keys' = Keys
  BY <1>1 DEF Keys, heapVars
<1>4. DriverType'
  BY <1>3, Bounds DEF VSIDSInv, DriverType, Levels, BeforeSearch, Imply, driverVars, Assign, Assigned
<1>5. Levels'
  BY <1>3, Bounds DEF VSIDSInv, DriverType, Levels, BeforeSearch, OnSystemLevels,
     Imply, driverVars, Assign, Assigned
<1>6. Eligibles'
  BY <1>3 DEF VSIDSInv, DriverType, Eligibles, BeforeSearch, Imply, driverVars, Assign, Assigned
<1>7. Kept'
  BY <1>2, <1>3 DEF VSIDSInv, DriverType, Kept, Imply, driverVars, Assign, Assigned
<1>8. PickIsBest'
  BY DEF Imply, PickIsBest, PrepareBacktrack
<1> QED
  BY <1>2, <1>4, <1>5, <1>6, <1>7, <1>8 DEF VSIDSInv

LEMMA AppendFactInv ==
  ASSUME VSIDSInv, NEW v \in Keys, AppendFact(v)
  PROVE  VSIDSInv'
<1>1. UNCHANGED heapVars
  BY DEF AppendFact
<1>2. HeapInv' /\ \A j \in Keys : Stored(j) => Stored(j)'
  BY <1>1, HeapUnchanged DEF VSIDSInv
<1>3. Keys' = Keys
  BY <1>1 DEF Keys, heapVars
<1>4. DriverType'
  BY <1>3, Bounds DEF VSIDSInv, DriverType, Levels, BeforeSearch, AppendFact, driverVars, Assign, Assigned
<1>5. Levels'
  BY <1>3, Bounds DEF VSIDSInv, DriverType, Levels, BeforeSearch, OnSystemLevels,
     AppendFact, driverVars, Assign, Assigned
<1>6. Eligibles'
  BY <1>3 DEF VSIDSInv, DriverType, Eligibles, BeforeSearch, AppendFact, driverVars, Assign, Assigned
<1>7. Kept'
  BY <1>2, <1>3 DEF VSIDSInv, DriverType, Kept, AppendFact, driverVars, Assign, Assigned
<1>8. PickIsBest'
  BY DEF AppendFact, PickIsBest, PrepareBacktrack
<1> QED
  BY <1>2, <1>4, <1>5, <1>6, <1>7, <1>8 DEF VSIDSInv

----------------------------------------------------------------------------
(* The actions that change the heap.                                       *)

LEMMA SolveInv ==
  ASSUME VSIDSInv, NEW c \in Calls, Solve(c)
  PROVE  VSIDSInv'
<1>1. /\ c.max \in 0 .. LargestKey
      /\ c.assume \subseteq 0 .. c.max /\ c.facts \subseteq 0 .. c.max
  BY CallsAssumption
<1>2. /\ HeapInv' /\ Keys \subseteq Keys' /\ Keys' = 0 .. c.max
      /\ \A j \in Keys : Stored(j) => Stored(j)'
  BY <1>1, IncreaseMaxInv DEF VSIDSInv, Solve
<1>3. DriverType'
  <2>1. /\ eligible' \in [Keys' -> BOOLEAN]
        /\ facts' \subseteq Keys' /\ assumed' \subseteq Keys' /\ pending' \subseteq Keys'
    BY <1>1, <1>2 DEF VSIDSInv, DriverType, Solve
  <2>2. levelOf' \in [Keys' -> -1 .. MaxLevel]
    BY <1>2, Bounds DEF Solve
  <2>3. UNCHANGED <<delta, curLevel, target>> /\ pc' = "growing"
    BY DEF Solve
  <2> QED
    BY <2>1, <2>2, <2>3 DEF VSIDSInv, DriverType
<1>4. Levels' /\ Eligibles'
  BY <1>2, Bounds
     DEF VSIDSInv, DriverType, Levels, Eligibles, BeforeSearch, OnSystemLevels, Solve
<1>5. Kept'
  BY <1>2 DEF VSIDSInv, DriverType, Levels, BeforeSearch, Kept, Solve
<1>6. PickIsBest'
  BY DEF Solve, PickIsBest
<1> QED
  BY <1>2, <1>3, <1>4, <1>5, <1>6 DEF VSIDSInv

LEMMA InsertPendingInv ==
  ASSUME VSIDSInv, InsertPending
  PROVE  VSIDSInv'
<1>1. PICK v \in pending : Insert(v) /\ pending' = pending \ {v}
  BY DEF InsertPending
<1>2. v \in Keys
  BY DEF VSIDSInv, DriverType
<1>3. HeapInv' /\ Stored(v)' /\ \A j \in Keys : Stored(j) => Stored(j)'
  BY <1>1, <1>2, InsertInv DEF VSIDSInv
<1>4. Keys' = Keys
  BY <1>1 DEF Insert, Keys
<1>5. UNCHANGED <<delta, driverVars, pc, target>>
  BY DEF InsertPending
<1>6. DriverType'
  BY <1>1, <1>4, <1>5 DEF VSIDSInv, DriverType, driverVars
<1>7. Levels' /\ Eligibles'
  BY <1>4, <1>5
     DEF VSIDSInv, Levels, Eligibles, BeforeSearch, OnSystemLevels, driverVars
<1>8. Kept'
  BY <1>1, <1>3, <1>4, <1>5 DEF VSIDSInv, Kept, driverVars, InsertPending
<1>9. PickIsBest'
  BY DEF InsertPending, PickIsBest
<1> QED
  BY <1>3, <1>6, <1>7, <1>8, <1>9 DEF VSIDSInv

(* The variables that stay in the heap when one is picked are enough: the  *)
(* one picked is assigned, or it is the decision.                          *)
LEMMA PickInv ==
  ASSUME VSIDSInv, Pick
  PROVE  VSIDSInv'
<1>1. /\ HeapInv' /\ result' \in Keys
      /\ \A j \in Keys : Stored(j) /\ j # result' => Stored(j)'
      /\ \A j \in Keys : Stored(j) => activity[j] <= activity[result']
  BY RemoveMaxInv DEF VSIDSInv, Pick
<1>2. Keys' = Keys /\ activity' = activity
  BY DEF Pick, RemoveMax, Keys
<1>3. /\ UNCHANGED <<delta, eligible, facts, assumed, levelOf, curLevel, pending, target>>
      /\ pc = "pick" /\ pc' \in {"pick", "decided"}
      /\ pc' = "decided" <=> levelOf[result'] = -1 /\ eligible[result']
  BY DEF Pick, driverVars, Candidate, Assigned
<1>4. DriverType'
  BY <1>2, <1>3 DEF VSIDSInv, DriverType
<1>5. Levels' /\ Eligibles'
  BY <1>2, <1>3 DEF VSIDSInv, Levels, Eligibles, BeforeSearch, OnSystemLevels
<1>6. \A v \in Keys : levelOf[v] = -1 => eligible[v] /\ Stored(v)
  BY <1>3 DEF VSIDSInv, Levels, Eligibles, Kept, BeforeSearch, OnSystemLevels
<1>7. Kept'
  BY <1>1, <1>2, <1>3, <1>6 DEF Kept
<1>8. PickIsBest'
  BY <1>1, <1>2, <1>3, <1>6 DEF PickIsBest, Candidate, Assigned
<1> QED
  BY <1>1, <1>4, <1>5, <1>7, <1>8 DEF VSIDSInv

LEMMA AppendDecisionInv ==
  ASSUME VSIDSInv, AppendDecision
  PROVE  VSIDSInv'
<1>1. HeapInv' /\ \A j \in Keys : Stored(j) => Stored(j)'
  <2>1. result' = NoKey /\ UNCHANGED <<maxKey, arrayVars, size, activity, siftVars>>
    BY DEF AppendDecision
  <2> QED
    BY <2>1, ResultForgotten DEF VSIDSInv
<1>2. Keys' = Keys
  BY DEF AppendDecision, Keys
<1>3. DriverType'
  <2>1. levelOf' \in [Keys -> -1 .. MaxLevel]
    <3>1. levelOf' = [levelOf EXCEPT ![result] = curLevel]
      BY DEF AppendDecision, Assign
    <3>2. levelOf \in [Keys -> -1 .. MaxLevel] /\ curLevel \in -1 .. MaxLevel
      BY Bounds DEF VSIDSInv, DriverType
    <3> QED
      BY <3>1, <3>2
  <2>2. UNCHANGED <<delta, eligible, facts, assumed, curLevel, pending, target>>
        /\ pc' = "propagate"
    BY DEF AppendDecision
  <2> QED
    BY <1>2, <2>1, <2>2 DEF VSIDSInv, DriverType
<1>4. Levels' /\ Eligibles'
  BY <1>2, Bounds DEF VSIDSInv, DriverType, Levels, Eligibles, BeforeSearch,
     OnSystemLevels, AppendDecision, Assign, Assigned
<1>5. Kept'
  BY <1>1, <1>2 DEF VSIDSInv, DriverType, Kept, AppendDecision, Assign, Assigned
<1>6. PickIsBest'
  BY DEF AppendDecision, PickIsBest
<1> QED
  BY <1>1, <1>3, <1>4, <1>5, <1>6 DEF VSIDSInv

(* The activity of the variable seen grows, and scaling keeps the order.   *)
LEMMA SeenInConflictInv ==
  ASSUME VSIDSInv, NEW v \in Keys, SeenInConflict(v)
  PROVE  VSIDSInv'
<1> DEFINE b == Bumped(v)
<1>1. activity \in [Keys -> Nat] /\ delta \in Nat \ {0}
  BY DEF VSIDSInv, HeapInv, HeapTypeOK, DriverType
<1>2. b \in [Keys -> Nat]
  BY <1>1 DEF Bumped
<1>3. \A i, j \in Keys : i # v /\ activity[i] <= activity[j] => b[i] <= b[j]
  BY <1>1 DEF Bumped
<1>4. /\ activity' \in [Keys -> Nat]
      /\ \A i, j \in Keys : i # v /\ activity[i] <= activity[j]
                              => activity'[i] <= activity'[j]
      /\ delta' \in Nat \ {0}
  <2>1. CASE b[v] >= Limit
    <3>1. activity' = [i \in Keys |-> b[i] \div Factor]
      BY <2>1 DEF SeenInConflict, ScaledDown
    <3>2. delta' = IF delta \div Factor > 1 THEN delta \div Factor ELSE 1
      BY <2>1 DEF SeenInConflict, ScaledDelta, AtLeast
    <3>3. activity' \in [Keys -> Nat] /\ delta' \in Nat \ {0}
      <4> HIDE DEF b
      <4> QED
        BY <3>1, <3>2, <1>1, <1>2, ScaleAssumption, DivisionFacts
    <3>4. ASSUME NEW i \in Keys, NEW j \in Keys, i # v, activity[i] <= activity[j]
          PROVE  activity'[i] <= activity'[j]
      <4>1. b[i] \in Nat /\ b[j] \in Nat /\ b[i] <= b[j]
        BY <1>2, <1>3, <3>4
      <4> HIDE DEF b
      <4>2. b[i] \div Factor <= b[j] \div Factor
        BY <4>1, ScaleAssumption, DivisionMonotone
      <4> QED
        BY <4>2, <3>1
    <3> QED
      BY <3>3, <3>4
  <2>2. CASE ~(b[v] >= Limit)
    <3>1. activity' = b /\ delta' = delta
      BY <2>2 DEF SeenInConflict
    <3> QED
      BY <3>1, <1>1, <1>2, <1>3
  <2> QED
    BY <2>1, <2>2
<1>5. /\ hpc = "idle"
      /\ IF Contains(v) THEN IncreasingUpdate(v) ELSE UNCHANGED siftVars
      /\ UNCHANGED <<maxKey, arrayVars, size, result>>
      /\ UNCHANGED <<driverVars, pending, target>>
      /\ pc \in {"conflict", "seen"} /\ pc' = "seen"
  BY DEF SeenInConflict
<1>6. HeapInv' /\ \A j \in Keys : Stored(j) => Stored(j)'
  BY <1>4, <1>5, BumpInv DEF VSIDSInv
<1>7. Keys' = Keys
  BY <1>5 DEF Keys
<1>8. DriverType'
  BY <1>4, <1>5, <1>7 DEF VSIDSInv, DriverType, driverVars
<1>9. Levels' /\ Eligibles'
  BY <1>5, <1>7
     DEF VSIDSInv, Levels, Eligibles, BeforeSearch, OnSystemLevels, driverVars
<1>10. Kept'
  BY <1>5, <1>6, <1>7 DEF VSIDSInv, Kept, driverVars
<1>11. PickIsBest'
  BY <1>5 DEF PickIsBest
<1> QED
  BY <1>6, <1>8, <1>9, <1>10, <1>11 DEF VSIDSInv

LEMMA HeapMovesInv ==
  ASSUME VSIDSInv, HeapMoves
  PROVE  VSIDSInv'
<1>1. HeapInv' /\ \A j \in Keys : Stored(j) => Stored(j)'
  BY HeapStepInv DEF VSIDSInv, HeapMoves
<1>2. UNCHANGED <<maxKey, activity, result, delta, driverVars, pc, pending, target>>
  BY DEF HeapMoves, HeapStep, SiftUp, SiftDown, Place, Shift
<1>3. Keys' = Keys
  BY <1>2 DEF Keys
<1>4. DriverType' /\ Levels' /\ Eligibles'
  BY <1>2, <1>3 DEF VSIDSInv, DriverType, Levels, Eligibles, BeforeSearch,
     OnSystemLevels, driverVars
<1>5. Kept' /\ PickIsBest'
  BY <1>1, <1>2, <1>3
     DEF VSIDSInv, Kept, PickIsBest, Candidate, Assigned, driverVars
<1> QED
  BY <1>1, <1>4, <1>5 DEF VSIDSInv

LEMMA StutterInv ==
  ASSUME VSIDSInv, UNCHANGED vsidsVars
  PROVE  VSIDSInv'
<1>1. UNCHANGED heapVars
  BY DEF vsidsVars
<1>2. HeapInv' /\ \A j \in Keys : Stored(j) => Stored(j)'
  BY <1>1, HeapUnchanged DEF VSIDSInv
<1>3. UNCHANGED <<maxKey, activity, result, delta, driverVars, pc, pending, target>>
  BY DEF vsidsVars, heapVars
<1>4. Keys' = Keys
  BY <1>3 DEF Keys
<1>5. DriverType' /\ Levels' /\ Eligibles'
  BY <1>3, <1>4 DEF VSIDSInv, DriverType, Levels, Eligibles, BeforeSearch,
     OnSystemLevels, driverVars
<1>6. Kept' /\ PickIsBest'
  BY <1>2, <1>3, <1>4
     DEF VSIDSInv, Kept, PickIsBest, Candidate, Assigned, driverVars
<1> QED
  BY <1>2, <1>5, <1>6 DEF VSIDSInv

----------------------------------------------------------------------------
(* The theorems.                                                           *)

LEMMA VSIDSNext ==
  VSIDSInv /\ [Next]_vsidsVars => VSIDSInv'
<1> SUFFICES ASSUME VSIDSInv, [Next]_vsidsVars
             PROVE  VSIDSInv'
  OBVIOUS
<1>1. ASSUME NEW c \in Calls, Solve(c) PROVE VSIDSInv'
  BY <1>1, SolveInv
<1>2. CASE InsertPending
  BY <1>2, InsertPendingInv
<1>3. CASE Inserted
  BY <1>3, InsertedInv
<1>4. CASE Initialize
  BY <1>4, InitializeInv
<1>5. ASSUME NEW v \in Keys, Imply(v) \/ AppendFact(v) PROVE VSIDSInv'
  BY <1>5, ImplyInv, AppendFactInv
<1>6. CASE FactsDone
  BY <1>6, FactsDoneInv
<1>7. CASE AssumptionsDone
  BY <1>7, AssumptionsDoneInv
<1>8. CASE NewLevel
  BY <1>8, NewLevelInv
<1>9. CASE Pick
  BY <1>9, PickInv
<1>10. CASE AppendDecision
  BY <1>10, AppendDecisionInv
<1>11. CASE NoConflict
  BY <1>11, NoConflictInv
<1>12. CASE BeginConflict
  BY <1>12, BeginConflictInv
<1>13. ASSUME NEW v \in Keys, SeenInConflict(v) PROVE VSIDSInv'
  BY <1>13, SeenInConflictInv
<1>14. CASE EndConflict
  BY <1>14, EndConflictInv
<1>15. CASE BacktrackAll
  BY <1>15, BacktrackAllInv
<1>16. CASE Undo
  BY <1>16, UndoInv
<1>17. CASE HeapMoves
  BY <1>17, HeapMovesInv
<1>18. CASE UNCHANGED vsidsVars
  BY <1>18, StutterInv
<1> QED
  BY <1>1, <1>2, <1>3, <1>4, <1>5, <1>6, <1>7, <1>8, <1>9, <1>10, <1>11,
     <1>12, <1>13, <1>14, <1>15, <1>16, <1>17, <1>18 DEF Next

LEMMA VSIDSInvariant == Spec => []VSIDSInv
<1>1. Init => VSIDSInv
  BY VSIDSInit
<1> QED
  BY <1>1, VSIDSNext, PTL DEF Spec

(* The state of heap and heuristic is well-typed.                          *)
THEOREM VSIDSTypeCorrect == Spec => []VSIDSTypeOK
<1>1. VSIDSInv => VSIDSTypeOK
  BY DEF VSIDSInv, HeapInv, DriverType, VSIDSTypeOK
<1> QED
  BY <1>1, VSIDSInvariant, PTL

(* Index map and array of the heap agree, whatever the driver does with    *)
(* it and in the middle of an update too (BinaryHeap.h:242-264).           *)
THEOREM HeapIndexed == Spec => []IndexInv
<1>1. VSIDSInv => IndexInv
  BY DEF VSIDSInv, HeapInv
<1> QED
  BY <1>1, VSIDSInvariant, PTL

(* Bumps, scaling, insertions and removals keep the heap ordered by the    *)
(* activities as they are then (BinaryHeap.h:246-256).                     *)
THEOREM HeapOrdered == Spec => []HeapOrder
<1>1. VSIDSInv => HeapOrder
  BY DEF VSIDSInv, HeapInv
<1> QED
  BY <1>1, VSIDSInvariant, PTL

(* Every way the driver undoes assignments puts back the variables that    *)
(* picks have taken out of the heap (CDCLSatSolver.cpp:693-719).           *)
THEOREM NoVariableLost == Spec => []NothingLost
<1>1. VSIDSInv => NothingLost
  BY StoredIsInHeap DEF VSIDSInv, HeapInv, Kept, NothingLost, Assigned
<1> QED
  BY <1>1, VSIDSInvariant, PTL

(* The decision found is a candidate of the greatest activity              *)
(* (VSIDSBranchingHeuristic.h:208-223).                                    *)
THEOREM DecisionIsBest == Spec => []PickIsBest
<1>1. VSIDSInv => PickIsBest
  BY DEF VSIDSInv
<1> QED
  BY <1>1, VSIDSInvariant, PTL

(* The loop that looks for a decision finds one: the heap is not exhausted *)
(* while a variable is unassigned (CDCLSatSolver.cpp:762-764).             *)
THEOREM DecisionExists == Spec => []DecisionFound
<1>1. ASSUME VSIDSInv, pc = "pick"
      PROVE  \E v \in Keys : Candidate(v) /\ InHeap(v)
  <2>1. PICK v \in Keys : levelOf[v] = -1
    BY <1>1 DEF VSIDSInv, Levels
  <2>2. Stored(v) /\ eligible[v]
    BY <1>1, <2>1
       DEF VSIDSInv, Levels, Eligibles, Kept, BeforeSearch, OnSystemLevels
  <2> QED
    BY <1>1, <2>1, <2>2, StoredIsInHeap DEF VSIDSInv, HeapInv, Candidate, Assigned
<1> QED
  BY <1>1, VSIDSInvariant, PTL DEF DecisionFound
=============================================================================
