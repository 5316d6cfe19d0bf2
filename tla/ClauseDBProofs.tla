--------------------------- MODULE ClauseDBProofs ---------------------------
(***************************************************************************)
(* The clause database keeps its regions in order, for regions, clauses    *)
(* and alignments of any size: iteration finds the clauses, also in the    *)
(* middle of a compaction, and a compaction never lacks memory.            *)
(***************************************************************************)
EXTENDS ClauseDB, FiniteSetTheorems, SequenceTheorems, TLAPS

----------------------------------------------------------------------------
(* The inductive invariant.                                                *)

Clauses(m) == [id : 1 .. m, len : Lengths, initial : Lengths, deleted : BOOLEAN]
RegionTypes(m) ==
  [mem : [0 .. RegionSize - 1 -> Clauses(m) \cup {Nothing}], used : 0 .. RegionSize]

(* The clauses of a region lie one after the other, from 0 to its used     *)
(* part's end.                                                             *)
Places(r) == {o \in 0 .. RegionSize - 1 : r.mem[o] # Nothing}
Chained(r) ==
  /\ r.used # 0 => 0 \in Places(r)
  /\ \A o \in Places(r) :
       /\ r.mem[o].len <= r.mem[o].initial
       /\ \/ o + Extent(r.mem[o]) = r.used
          \/ o + Extent(r.mem[o]) < r.used /\ o + Extent(r.mem[o]) \in Places(r)
       /\ \A p \in Places(r) : o < p => o + Extent(r.mem[o]) <= p

GoodRegions(m) == {r \in RegionTypes(m) : Chained(r)}
GoodRegion(r, m) == r \in GoodRegions(m)

(* What is between the region to be overwritten next and the one that is   *)
(* read is empty; in the region that is read, the place of the clause is   *)
(* not before the end of what has been copied.                             *)
CompressRight ==
  /\ swapIn \in 1 .. Len(active) /\ idx \in swapIn .. Len(active) + 1
  /\ \A i \in swapIn .. idx - 1 : active[i] = EmptyRegion
  /\ idx > Len(active) => pos = End
  /\ idx <= Len(active) => pos = End \/ pos \in Places(active[idx])
  /\ idx = swapIn /\ pos # End => spare.used <= pos

IdleRight ==
  /\ spare = EmptyRegion /\ swapIn = 0 /\ idx = 0 /\ pos = End
  /\ active # <<>> => spares # <<>>

DBIInv ==
  /\ created \in 0 .. MaxClauses
  /\ active \in Seq(GoodRegions(created))
  /\ spares \in Seq({EmptyRegion})
  /\ spare \in GoodRegions(created)
  /\ pc \in {"idle", "compress"}
  /\ pc = "idle" => IdleRight
  /\ pc = "compress" => CompressRight

----------------------------------------------------------------------------
(* Sizes.                                                                  *)

(* The next multiple of Align: what it is made of.                         *)
LEMMA RoundedUp ==
  ASSUME NEW s \in Nat
  PROVE  \E q \in Nat :
           /\ Align * q <= s /\ s < Align * q + Align
           /\ s + ((Align - (s % Align)) % Align) = IF s = Align * q THEN s ELSE Align * q + Align
  <1>1. Align \in Nat \ {0}
    BY SizesAssumption
  <1>2. PICK q, r : q = s \div Align /\ r = s % Align
    OBVIOUS
  <1>3. q \in Nat /\ r \in 0 .. Align - 1 /\ s = Align * q + r
    BY <1>1, <1>2
  <1>4. PICK p \in Nat : p = Align * q
    BY <1>1, <1>3
  <1>5. CASE r = 0
    <2>1. (Align - r) % Align = 0
      BY <1>1, <1>5
    <2>2. (Align - (s % Align)) % Align = 0
      BY <1>2, <2>1
    <2>3. p <= s /\ s < p + Align /\ s + ((Align - (s % Align)) % Align) = IF s = p THEN s ELSE p + Align
      BY <1>1, <1>3, <1>4, <1>5, <2>2
    <2> QED
      BY <1>3, <1>4, <2>3
  <1>6. CASE r # 0
    <2>1. (Align - r) % Align = Align - r
      BY <1>1, <1>3, <1>6
    <2>2. (Align - (s % Align)) % Align = Align - r
      BY <1>2, <2>1
    <2>3. p <= s /\ s < p + Align /\ s + ((Align - (s % Align)) % Align) = IF s = p THEN s ELSE p + Align
      BY <1>1, <1>3, <1>4, <1>6, <2>2
    <2> QED
      BY <1>3, <1>4, <2>3
  <1> QED
    BY <1>5, <1>6

(* A smaller clause does not need more memory, and every clause needs      *)
(* some.                                                                   *)
LEMMA AllocationSizes ==
  /\ \A n \in Lengths : AllocationSize(n) \in Nat \ {0}
  /\ \A m, n \in Lengths : m <= n => AllocationSize(m) <= AllocationSize(n)
  <1>0. ASSUME NEW a \in Nat, NEW b \in Nat, a < b
        PROVE  Align * a + Align <= Align * b
    <2>1. PICK d \in Nat : b = a + 1 + d
      <3>1. b - a - 1 \in Nat /\ b = a + 1 + (b - a - 1)
        BY <1>0
      <3> QED
        BY <3>1
    <2>2. Align * b = Align * a + Align + Align * d /\ Align * d \in Nat /\ Align * a \in Nat
      BY SizesAssumption, <2>1
    <2> QED
      BY SizesAssumption, <2>2
  <1>1. ASSUME NEW s \in Nat, NEW t \in Nat, s <= t
        PROVE  s + ((Align - (s % Align)) % Align) <= t + ((Align - (t % Align)) % Align)
    <2>1. PICK q \in Nat : /\ Align * q <= s /\ s < Align * q + Align
                           /\ s + ((Align - (s % Align)) % Align) = IF s = Align * q THEN s ELSE Align * q + Align
      BY RoundedUp
    <2>2. PICK u \in Nat : /\ Align * u <= t /\ t < Align * u + Align
                           /\ t + ((Align - (t % Align)) % Align) = IF t = Align * u THEN t ELSE Align * u + Align
      BY RoundedUp
    <2>3. Align \in Nat \ {0} /\ Align * q \in Nat /\ Align * u \in Nat
      BY SizesAssumption
    <2>4. q < u => Align * q + Align <= Align * u
      BY <1>0
    <2>5. u < q => Align * u + Align <= Align * q
      BY <1>0
    <2>6. PICK a \in Nat, b \in Nat : a = Align * q /\ b = Align * u
      BY <2>3
    <2>7. ~(u < q)
      BY <1>1, <2>1, <2>2, <2>3, <2>5, <2>6
    <2>8. CASE q < u
      BY <1>1, <2>1, <2>2, <2>3, <2>4, <2>6, <2>8
    <2>9. CASE q = u
      BY <1>1, <2>1, <2>2, <2>3, <2>6, <2>9
    <2> QED
      BY <2>7, <2>8, <2>9
  <1>2. ASSUME NEW s \in Nat \ {0}
        PROVE  s + ((Align - (s % Align)) % Align) \in Nat \ {0}
    <2>1. Align \in Nat \ {0} /\ s % Align \in 0 .. Align - 1
      BY SizesAssumption
    <2>2. (Align - (s % Align)) % Align \in Nat
      BY <2>1
    <2> QED
      BY <2>2
  <1>3. \A n \in Lengths : Header + n \in Nat \ {0} /\ n \in Nat
    BY SizesAssumption
  <1>4. \A m, n \in Lengths : m <= n => Header + m <= Header + n
    BY SizesAssumption, <1>3
  <1>5. \A n \in Lengths : AllocationSize(n) \in Nat \ {0}
    BY <1>2, <1>3 DEF AllocationSize
  <1>6. ASSUME NEW m \in Lengths, NEW n \in Lengths, m <= n
        PROVE  AllocationSize(m) <= AllocationSize(n)
    <2>1. PICK s \in Nat, t \in Nat : s = Header + m /\ t = Header + n /\ s <= t
      BY <1>3, <1>4, <1>6
    <2> QED
      BY <1>1, <2>1 DEF AllocationSize
  <1> QED
    BY <1>5, <1>6

----------------------------------------------------------------------------
(* Iterating over a region.                                                *)

(* A nonempty set of natural numbers has a least element.                  *)
LEMMA Least ==
  ASSUME NEW T \in SUBSET Nat, T # {}
  PROVE  \E n \in T : \A m \in T : n <= m
  <1> DEFINE Less == {ss \in Nat \X Nat : ss[1] < ss[2]}
  <1>1. IsWellFoundedOn(Less, Nat)
    BY NatLessThanWellFounded DEF OpToRel
  <1>2. \A x, y \in Nat : <<y, x>> \in Less <=> y < x
    OBVIOUS
  <1> HIDE DEF Less
  <1>3. \E x \in T : \A y \in T : ~ (<<y, x>> \in Less)
    BY <1>1, WFMin, Zenon
  <1>4. \A x, y \in Nat : ~(y < x) => x <= y
    OBVIOUS
  <1> QED
    BY <1>2, <1>3, <1>4

(* What a set of numbers has when it has n + 1 whenever it has n.          *)
LEMMA Induction ==
  ASSUME NEW T, 0 \in T, \A n \in Nat : n \in T => n + 1 \in T
  PROVE  \A n \in Nat : n \in T
  <1> SUFFICES ASSUME NEW n \in Nat, n \notin T
               PROVE  FALSE
    OBVIOUS
  <1>1. PICK k \in Nat \ T : \A m \in Nat \ T : k <= m
    BY Least
  <1> QED
    BY <1>1

(* What a chained region is, clause by clause.                             *)
LEMMA RegionFacts ==
  ASSUME NEW r, NEW m, GoodRegion(r, m)
  PROVE  /\ RegionSize \in Nat \ {0} /\ r.used \in 0 .. RegionSize
         /\ DOMAIN r.mem = 0 .. RegionSize - 1
         /\ Places(r) \in SUBSET (0 .. RegionSize - 1)
         /\ \A o : IsClauseAt(r, o) <=> o \in Places(r)
         /\ \A o \in Places(r) :
              /\ r.mem[o] \in Clauses(m) /\ Extent(r.mem[o]) \in Nat \ {0}
              /\ o + Extent(r.mem[o]) <= r.used
              /\ NextClause(r, o) = End <=> o + Extent(r.mem[o]) = r.used
              /\ NextClause(r, o) # End => /\ NextClause(r, o) = o + Extent(r.mem[o])
                                           /\ NextClause(r, o) \in Places(r)
  <1>1. /\ RegionSize \in Nat \ {0} /\ r.used \in 0 .. RegionSize
        /\ r.mem \in [0 .. RegionSize - 1 -> Clauses(m) \cup {Nothing}]
    BY SizesAssumption DEF GoodRegion, GoodRegions, RegionTypes
  <1>2. /\ DOMAIN r.mem = 0 .. RegionSize - 1
        /\ Places(r) \in SUBSET (0 .. RegionSize - 1)
        /\ \A o : IsClauseAt(r, o) <=> o \in Places(r)
    BY <1>1 DEF Places, IsClauseAt
  <1>3. ASSUME NEW o \in Places(r)
        PROVE  /\ r.mem[o] \in Clauses(m) /\ Extent(r.mem[o]) \in Nat \ {0}
               /\ o + Extent(r.mem[o]) <= r.used
               /\ NextClause(r, o) = End <=> o + Extent(r.mem[o]) = r.used
               /\ NextClause(r, o) # End => /\ NextClause(r, o) = o + Extent(r.mem[o])
                                            /\ NextClause(r, o) \in Places(r)
    <2>1. o \in 0 .. RegionSize - 1 /\ r.mem[o] \in Clauses(m)
      BY <1>1, <1>3 DEF Places
    <2>2. Extent(r.mem[o]) \in Nat \ {0}
      BY <2>1, AllocationSizes DEF Clauses, Extent
    <2>3. PICK e \in Nat \ {0} : e = Extent(r.mem[o])
      BY <2>2
    <2>4. \/ o + e = r.used
          \/ o + e < r.used /\ o + e \in Places(r)
      BY <1>3, <2>3 DEF GoodRegion, GoodRegions, Chained
    <2>5. NextClause(r, o) = IF o = r.used - e THEN End ELSE o + e
      BY <2>3 DEF NextClause
    <2>6. o = r.used - e <=> o + e = r.used
      BY <1>1, <2>1, <2>3
    <2>7. o + e # End /\ o + e <= r.used
      BY <1>1, <2>1, <2>3, <2>4 DEF End
    <2> QED
      BY <2>1, <2>3, <2>4, <2>5, <2>6, <2>7
  <1> QED
    BY <1>1, <1>2, <1>3

WalkStep(r, v, f, o) == IF ~IsClauseAt(r, o) THEN <<>> ELSE <<v[o]>> \o f[NextClause(r, o)]

(* An iteration that collects v at each clause is defined.                 *)
LEMMA WalkExists ==
  ASSUME NEW r, NEW m, GoodRegion(r, m), NEW S, NEW v, \A o \in Places(r) : v[o] \in S
  PROVE  \E f \in [-1 .. 2 * RegionSize -> Seq(S)] :
           \A o \in -1 .. 2 * RegionSize : f[o] = WalkStep(r, v, f, o)
  <1> DEFINE D == -1 .. 2 * RegionSize
             Right(f, o) == f[o] = WalkStep(r, v, f, o)
             T == {k \in Nat : k <= RegionSize =>
                     \E f \in [D -> Seq(S)] :
                       \A o \in D : o = -1 \/ o >= RegionSize - k => Right(f, o)}
  <1>1. /\ RegionSize \in Nat \ {0}
        /\ Places(r) \in SUBSET (0 .. RegionSize - 1)
        /\ \A o : IsClauseAt(r, o) <=> o \in Places(r)
        /\ \A o \in Places(r) : NextClause(r, o) = -1 \/ NextClause(r, o) \in o + 1 .. RegionSize - 1
    <2>1. \A o \in Places(r) : NextClause(r, o) = -1 \/ NextClause(r, o) \in o + 1 .. RegionSize - 1
      <3>1. ASSUME NEW o \in Places(r), NextClause(r, o) # -1
            PROVE  NextClause(r, o) \in o + 1 .. RegionSize - 1
        BY <3>1, RegionFacts DEF End
      <3> QED
        BY <3>1
    <2> QED
      BY <2>1, RegionFacts
  <1>2. 0 \in T
    <2> DEFINE f == [o \in D |-> <<>>]
    <2>1. f \in [D -> Seq(S)]
      OBVIOUS
    <2>2. \A o \in D : o = -1 \/ o >= RegionSize - 0 => Right(f, o)
      BY <1>1 DEF WalkStep
    <2> QED
      BY <2>1, <2>2
  <1>3. ASSUME NEW k \in Nat, k \in T
        PROVE  k + 1 \in T
    <2> SUFFICES ASSUME k + 1 <= RegionSize
                 PROVE  \E f \in [D -> Seq(S)] :
                          \A o \in D : o = -1 \/ o >= RegionSize - (k + 1) => Right(f, o)
      OBVIOUS
    <2>1. PICK f \in [D -> Seq(S)] : \A o \in D : o = -1 \/ o >= RegionSize - k => Right(f, o)
      <3>1. k <= RegionSize
        BY <1>1
      <3> QED
        BY <1>3, <3>1
    <2>2. PICK c \in 0 .. RegionSize - 1 : c = RegionSize - (k + 1)
      BY <1>1
    <2>3. c \in D /\ \A o \in D : o > c => o >= RegionSize - k
      BY <1>1, <2>2
    <2>4. WalkStep(r, v, f, c) \in Seq(S)
      <3>1. CASE ~IsClauseAt(r, c)
        BY <3>1 DEF WalkStep
      <3>2. CASE IsClauseAt(r, c)
        <4>1. NextClause(r, c) \in D
          BY <1>1, <2>2, <3>2
        <4>2. f[NextClause(r, c)] \in Seq(S) /\ v[c] \in S
          BY <1>1, <3>2, <4>1
        <4>3. \A x \in S, t \in Seq(S) : <<x>> \o t \in Seq(S)
          OBVIOUS
        <4> QED
          BY <3>2, <4>2, <4>3 DEF WalkStep
      <3> QED
        BY <3>1, <3>2
    <2> DEFINE g == [f EXCEPT ![c] = WalkStep(r, v, f, c)]
    <2>5. g \in [D -> Seq(S)] /\ g[c] = WalkStep(r, v, f, c) /\ \A o \in D : o # c => g[o] = f[o]
      BY <2>3, <2>4
    <2> HIDE DEF g
    <2>6. ASSUME NEW o \in D, o = -1 \/ o >= c
          PROVE  WalkStep(r, v, g, o) = WalkStep(r, v, f, o)
      <3>1. CASE ~IsClauseAt(r, o)
        BY <3>1 DEF WalkStep
      <3>2. CASE IsClauseAt(r, o)
        <4>1. NextClause(r, o) \in D /\ NextClause(r, o) # c
          BY <1>1, <2>2, <2>6, <3>2
        <4> QED
          BY <2>5, <4>1 DEF WalkStep
      <3> QED
        BY <3>1, <3>2
    <2>7. \A o \in D : o = -1 \/ o >= c => Right(g, o)
      <3> SUFFICES ASSUME NEW o \in D, o = -1 \/ o >= c
                   PROVE  g[o] = WalkStep(r, v, g, o)
        OBVIOUS
      <3>1. CASE o = c
        BY <2>5, <2>6, <3>1
      <3>2. CASE o # c
        <4>1. o = -1 \/ o > c
          BY <2>2, <3>2
        <4>2. f[o] = WalkStep(r, v, f, o)
          BY <2>1, <2>3, <4>1
        <4> QED
          BY <2>5, <2>6, <3>2, <4>2
      <3> QED
        BY <3>1, <3>2
    <2> QED
      BY <2>2, <2>5, <2>7
  <1>4. RegionSize \in T
    <2> HIDE DEF T
    <2>1. \A k \in Nat : k \in T
      BY <1>2, <1>3, Induction
    <2> QED
      BY <1>1, <2>1
  <1>5. PICK h \in [D -> Seq(S)] : \A o \in D : o = -1 \/ o >= RegionSize - RegionSize => Right(h, o)
    <2>1. RegionSize <= RegionSize
      BY <1>1
    <2> QED
      BY <1>4, <2>1
  <1>6. \A o \in D : h[o] = WalkStep(r, v, h, o)
    <2>1. \A o \in D : o = -1 \/ o >= RegionSize - RegionSize
      BY <1>1
    <2> QED
      BY <1>5, <2>1
  <1> QED
    BY <1>6

(* The function by which OffsetsFrom is defined.                           *)
LEMMA OffsetsDefined ==
  ASSUME NEW r, NEW m, GoodRegion(r, m)
  PROVE  \E f :
           /\ \A o \in -1 .. 2 * RegionSize :
                f[o] = IF ~IsClauseAt(r, o) THEN <<>> ELSE <<o>> \o f[NextClause(r, o)]
           /\ \A start : OffsetsFrom(r, start) = f[start]
  <1> DEFINE v == [o \in -1 .. 2 * RegionSize |-> o]
  <1>1. \A o \in Places(r) : v[o] \in Int
    BY SizesAssumption DEF Places
  <1>2. \A o \in -1 .. 2 * RegionSize : v[o] = o
    OBVIOUS
  <1> HIDE DEF v
  <1>3. PICK h \in [-1 .. 2 * RegionSize -> Seq(Int)] :
          \A o \in -1 .. 2 * RegionSize : h[o] = WalkStep(r, v, h, o)
    BY <1>1, WalkExists
  <1> DEFINE walk == CHOOSE f : f = [o \in -1 .. 2 * RegionSize |->
                       IF ~IsClauseAt(r, o) THEN <<>> ELSE <<o>> \o f[NextClause(r, o)]]
  <1>4. h = [o \in -1 .. 2 * RegionSize |->
               IF ~IsClauseAt(r, o) THEN <<>> ELSE <<o>> \o h[NextClause(r, o)]]
    BY <1>2, <1>3 DEF WalkStep
  <1>5. walk = [o \in -1 .. 2 * RegionSize |->
                  IF ~IsClauseAt(r, o) THEN <<>> ELSE <<o>> \o walk[NextClause(r, o)]]
    BY <1>4
  <1>6. \A start : OffsetsFrom(r, start) = walk[start]
    BY DEF OffsetsFrom
  <1>7. \A o \in -1 .. 2 * RegionSize :
          walk[o] = IF ~IsClauseAt(r, o) THEN <<>> ELSE <<o>> \o walk[NextClause(r, o)]
    BY <1>5
  <1> HIDE DEF walk
  <1> QED
    BY <1>6, <1>7

(* An iteration visits exactly the places of the clauses.                  *)
LEMMA OffsetsExact ==
  ASSUME NEW r, NEW m, GoodRegion(r, m)
  PROVE  ToSet(Offsets(r)) = Places(r)
  <1>1. PICK f : /\ \A o \in -1 .. 2 * RegionSize :
                      f[o] = IF ~IsClauseAt(r, o) THEN <<>> ELSE <<o>> \o f[NextClause(r, o)]
                 /\ \A start : OffsetsFrom(r, start) = f[start]
    BY OffsetsDefined
  <1>2. /\ RegionSize \in Nat \ {0}
        /\ Places(r) \in SUBSET (0 .. RegionSize - 1)
        /\ \A o : IsClauseAt(r, o) <=> o \in Places(r)
    BY RegionFacts
  <1>3. f[End] = <<>>
    <2>1. End \in -1 .. 2 * RegionSize /\ End \notin Places(r)
      BY <1>2 DEF End
    <2>2. ~IsClauseAt(r, End)
      BY <1>2, <2>1
    <2> QED
      BY <1>1, <2>1, <2>2
  <1> DEFINE T == {k \in Nat : \A o \in Places(r) : o >= RegionSize - k =>
                     f[o] \in Seq(Int) /\ ToSet(f[o]) = {p \in Places(r) : p >= o}}
  <1>4. 0 \in T
    BY <1>2
  <1>5. ASSUME NEW k \in Nat, k \in T
        PROVE  k + 1 \in T
    <2> SUFFICES ASSUME NEW o \in Places(r), o >= RegionSize - (k + 1)
                 PROVE  f[o] \in Seq(Int) /\ ToSet(f[o]) = {p \in Places(r) : p >= o}
      OBVIOUS
    <2>1. PICK e \in Nat \ {0} : e = Extent(r.mem[o])
      BY RegionFacts
    <2>2. PICK n : n = NextClause(r, o)
      OBVIOUS
    <2>3. f[o] = <<o>> \o f[n]
      <3>1. o \in -1 .. 2 * RegionSize
        BY <1>2
      <3>2. IsClauseAt(r, o)
        BY <1>2
      <3> QED
        BY <1>1, <2>2, <3>1, <3>2
    <2>4. ASSUME NEW p \in Places(r), o < p
          PROVE  o + e <= p
      BY <2>1, <2>4 DEF GoodRegion, GoodRegions, Chained
    <2>5. /\ o + e <= r.used /\ (n = End <=> o + e = r.used)
          /\ n # End => n = o + e /\ n \in Places(r)
      BY <2>1, <2>2, RegionFacts
    <2>6. f[n] \in Seq(Int) /\ ToSet(f[n]) = {p \in Places(r) : p > o}
      <3>1. CASE n = End
        <4>1. ASSUME NEW p \in Places(r), p > o
              PROVE  FALSE
          <5>1. PICK x \in Nat \ {0} : x = Extent(r.mem[p]) /\ p + x <= r.used
            BY RegionFacts
          <5>2. o + e <= p /\ o + e = r.used /\ r.used \in Nat
            BY <1>2, <2>4, <2>5, <3>1, <4>1, RegionFacts
          <5> QED
            BY <1>2, <5>1, <5>2
        <4>2. f[n] = <<>> /\ <<>> \in Seq(Int)
          BY <1>3, <3>1
        <4>3. ToSet(<<>>) = {}
          BY DEF ToSet
        <4> QED
          BY <4>1, <4>2, <4>3
      <3>2. CASE n # End
        <4>1. n \in Places(r) /\ n = o + e /\ n >= RegionSize - k
          BY <1>2, <2>5, <3>2
        <4>2. f[n] \in Seq(Int) /\ ToSet(f[n]) = {p \in Places(r) : p >= n}
          BY <1>5, <4>1
        <4>3. \A p \in Places(r) : p >= n <=> p > o
          BY <1>2, <2>4, <4>1
        <4> QED
          BY <4>2, <4>3
      <3> QED
        BY <3>1, <3>2
    <2>7. \A s \in Seq(Int) : <<o>> \o s \in Seq(Int) /\ ToSet(<<o>> \o s) = {o} \cup ToSet(s)
      <3> SUFFICES ASSUME NEW s \in Seq(Int)
                   PROVE  <<o>> \o s \in Seq(Int) /\ ToSet(<<o>> \o s) = {o} \cup ToSet(s)
        OBVIOUS
      <3>1. o \in Int /\ <<o>> \in Seq(Int) /\ Len(s) \in Nat
        BY <1>2
      <3>2. PICK t : t = <<o>> \o s
        OBVIOUS
      <3>3. /\ t \in Seq(Int) /\ Len(t) = Len(s) + 1 /\ t[1] = o
            /\ \A i \in 1 .. Len(s) : t[i + 1] = s[i]
        BY <3>1, <3>2
      <3>4. DOMAIN t = 1 .. Len(s) + 1 /\ DOMAIN s = 1 .. Len(s)
        BY <3>1, <3>3
      <3>5. \A i \in DOMAIN t : i = 1 \/ (i - 1 \in DOMAIN s /\ t[i] = s[i - 1])
        <4>1. ASSUME NEW i \in DOMAIN t, i # 1
              PROVE  i - 1 \in DOMAIN s /\ t[i] = s[i - 1]
          <5>1. i - 1 \in 1 .. Len(s) /\ (i - 1) + 1 = i
            BY <3>1, <3>4, <4>1
          <5> QED
            BY <3>3, <3>4, <5>1
        <4> QED
          BY <4>1
      <3>6. \A i \in DOMAIN s : i + 1 \in DOMAIN t /\ t[i + 1] = s[i]
        BY <3>1, <3>3, <3>4
      <3>7. 1 \in DOMAIN t
        BY <3>1, <3>4
      <3>8. ToSet(t) = {t[i] : i \in DOMAIN t} /\ ToSet(s) = {s[i] : i \in DOMAIN s}
        BY DEF ToSet
      <3>9. ASSUME NEW x \in ToSet(t)
            PROVE  x \in {o} \cup ToSet(s)
        <4>1. PICK i \in DOMAIN t : x = t[i]
          BY <3>8, <3>9
        <4> QED
          BY <3>3, <3>5, <3>8, <4>1
      <3>10. ASSUME NEW x \in {o} \cup ToSet(s)
             PROVE  x \in ToSet(t)
        BY <3>3, <3>6, <3>7, <3>8, <3>10
      <3> QED
        BY <3>2, <3>3, <3>9, <3>10
    <2>8. \A p \in Places(r) : p >= o <=> p = o \/ p > o
      BY <1>2
    <2> QED
      BY <2>3, <2>6, <2>7, <2>8
  <1>6. RegionSize \in T
    <2> HIDE DEF T
    <2>1. \A k \in Nat : k \in T
      BY <1>4, <1>5, Induction
    <2> QED
      BY <1>2, <2>1
  <1>7. CASE r.used = 0
    <2>1. \A o \in Places(r) : FALSE
      <3> SUFFICES ASSUME NEW o \in Places(r)
                   PROVE  FALSE
        OBVIOUS
      <3>1. Extent(r.mem[o]) \in Nat \ {0} /\ o + Extent(r.mem[o]) <= r.used
        BY RegionFacts
      <3> QED
        BY <1>2, <1>7, <3>1
    <2>2. Offsets(r) = <<>>
      BY <1>1, <1>3, <1>7 DEF Offsets, FirstClause
    <2> QED
      BY <2>1, <2>2 DEF ToSet
  <1>8. CASE r.used # 0
    <2>1. 0 \in Places(r)
      BY <1>8 DEF GoodRegion, GoodRegions, Chained
    <2>2. Offsets(r) = f[0]
      BY <1>1, <1>8 DEF Offsets, FirstClause
    <2>3. 0 >= RegionSize - RegionSize /\ \A p \in Places(r) : p >= 0
      BY <1>2
    <2>4. ToSet(f[0]) = {p \in Places(r) : p >= 0}
      BY <1>6, <2>1, <2>3
    <2> QED
      BY <2>2, <2>3, <2>4
  <1> QED
    BY <1>7, <1>8
----------------------------------------------------------------------------
(* What the operations make of a region.                                   *)

LEMMA EmptyGood ==
  ASSUME NEW m \in Nat
  PROVE  EmptyRegion \in GoodRegions(m) /\ EmptyRegion.used = 0 /\ Places(EmptyRegion) = {}
  <1>1. RegionSize \in Nat \ {0}
    BY SizesAssumption
  <1>2. EmptyRegion.used = 0 /\ EmptyRegion.mem = [o \in 0 .. RegionSize - 1 |-> Nothing]
    BY DEF EmptyRegion
  <1>3. EmptyRegion \in RegionTypes(m)
    BY <1>1 DEF EmptyRegion, RegionTypes
  <1>4. Places(EmptyRegion) = {}
    BY <1>2 DEF Places
  <1>5. Chained(EmptyRegion)
    BY <1>2, <1>4 DEF Chained
  <1> QED
    BY <1>2, <1>3, <1>4, <1>5 DEF GoodRegions

(* A region that is not used has no clauses left in its memory.            *)
LEMMA UnusedIsEmpty ==
  ASSUME NEW m, NEW r \in GoodRegions(m), r.used = 0
  PROVE  r = EmptyRegion
  <1>1. GoodRegion(r, m) /\ r \in RegionTypes(m)
    BY DEF GoodRegion, GoodRegions
  <1>2. \A o \in Places(r) : FALSE
    <2> SUFFICES ASSUME NEW o \in Places(r)
                 PROVE  FALSE
      OBVIOUS
    <2>1. PICK e \in Nat \ {0} : e = Extent(r.mem[o]) /\ o + e <= r.used
      BY <1>1, RegionFacts
    <2>2. o \in Nat
      BY SizesAssumption DEF Places
    <2> QED
      BY <2>1, <2>2
  <1>3. r.mem \in [0 .. RegionSize - 1 -> Clauses(m) \cup {Nothing}]
    BY <1>1 DEF RegionTypes
  <1>4. r.mem = [o \in 0 .. RegionSize - 1 |-> Nothing]
    BY <1>2, <1>3 DEF Places
  <1>5. r = [mem |-> r.mem, used |-> r.used]
    BY <1>1 DEF RegionTypes
  <1> QED
    BY <1>4, <1>5 DEF EmptyRegion

LEMMA GoodRegionsGrow ==
  ASSUME NEW m \in Nat
  PROVE  GoodRegions(m) \subseteq GoodRegions(m + 1)
  <1>1. Clauses(m) \subseteq Clauses(m + 1)
    <2>1. 1 .. m \subseteq 1 .. m + 1
      OBVIOUS
    <2> QED
      BY <2>1 DEF Clauses
  <1>2. RegionTypes(m) \subseteq RegionTypes(m + 1)
    BY <1>1 DEF RegionTypes
  <1> QED
    BY <1>2 DEF GoodRegions

(* A clause object is not Nothing.                                         *)
LEMMA ClauseIsThere ==
  ASSUME NEW m \in Nat, NEW c \in Clauses(m)
  PROVE  c # Nothing
  BY DEF Clauses, Nothing

(* A clause is put behind those that are there.                            *)
LEMMA AllocatedGood ==
  ASSUME NEW m \in Nat, NEW r \in GoodRegions(m), NEW c \in Clauses(m),
         c.len = c.initial, Fits(r, c.len)
  PROVE  /\ Allocated(r, c) \in GoodRegions(m)
         /\ Allocated(r, c).used = r.used + AllocationSize(c.len)
  <1>1. /\ RegionSize \in Nat \ {0} /\ r.used \in 0 .. RegionSize
        /\ r.mem \in [0 .. RegionSize - 1 -> Clauses(m) \cup {Nothing}]
    BY SizesAssumption DEF GoodRegions, RegionTypes
  <1>2. PICK e : e = Extent(c)
    OBVIOUS
  <1>3. e \in Nat \ {0} /\ e <= RegionSize - r.used /\ e = AllocationSize(c.len)
    BY <1>2, AllocationSizes DEF Clauses, Extent, Fits, Free
  <1>4. PICK u : u = r.used
    OBVIOUS
  <1>5. u \in 0 .. RegionSize - 1 /\ u + e \in 1 .. RegionSize
    BY <1>1, <1>3, <1>4
  <1>6. PICK q : q = Allocated(r, c)
    OBVIOUS
  <1>7. q.used = u + e /\ q.mem = [r.mem EXCEPT ![u] = c] /\ q = [mem |-> q.mem, used |-> q.used]
    BY <1>2, <1>4, <1>6 DEF Allocated
  <1>8. /\ q.mem \in [0 .. RegionSize - 1 -> Clauses(m) \cup {Nothing}] /\ q.mem[u] = c
        /\ \A o \in 0 .. RegionSize - 1 : o # u => q.mem[o] = r.mem[o]
    BY <1>1, <1>5, <1>7
  <1>9. q \in RegionTypes(m)
    <2>1. q.used \in 0 .. RegionSize
      BY <1>5, <1>7
    <2> QED
      BY <1>7, <1>8, <2>1 DEF RegionTypes
  <1>10. c # Nothing
    BY ClauseIsThere
  <1>11. /\ u \in Places(q) /\ Places(q) \subseteq Places(r) \cup {u} /\ Places(r) \subseteq 0 .. RegionSize - 1
         /\ \A o \in Places(r) : o # u => o \in Places(q) /\ q.mem[o] = r.mem[o]
    BY <1>5, <1>8, <1>10 DEF Places
  <1>12. \A o \in Places(r) : o < u
    <2> SUFFICES ASSUME NEW o \in Places(r)
                 PROVE  o < u
      OBVIOUS
    <2>1. PICK x \in Nat \ {0} : x = Extent(r.mem[o]) /\ o + x <= u
      BY <1>4, RegionFacts DEF GoodRegion
    <2> QED
      BY <1>1, <1>5, <1>11, <2>1
  <1>13. Chained(r)
    BY DEF GoodRegions
  <1>14. 0 \in Places(q)
    BY <1>4, <1>11, <1>12, <1>13 DEF Chained
  <1>15. ASSUME NEW o \in Places(q)
         PROVE  /\ q.mem[o].len <= q.mem[o].initial
                /\ \/ o + Extent(q.mem[o]) = q.used
                   \/ o + Extent(q.mem[o]) < q.used /\ o + Extent(q.mem[o]) \in Places(q)
                /\ \A p \in Places(q) : o < p => o + Extent(q.mem[o]) <= p
    <2>1. CASE o = u
      <3>1. c.len <= c.initial
        <4>1. PICK n \in Nat : c.len = n /\ c.initial = n
          BY SizesAssumption DEF Clauses
        <4> QED
          BY <4>1
      <3>2. \A p \in Places(q) : ~(o < p)
        BY <1>5, <1>11, <1>12, <2>1
      <3> QED
        BY <1>2, <1>7, <1>8, <2>1, <3>1, <3>2
    <2>2. CASE o # u
      <3>1. o \in Places(r) /\ q.mem[o] = r.mem[o] /\ o < u
        BY <1>11, <1>12, <2>2
      <3>2. PICK x \in Nat \ {0} : x = Extent(r.mem[o]) /\ o + x <= u
        BY <1>4, <3>1, RegionFacts DEF GoodRegion
      <3>3. /\ r.mem[o].len <= r.mem[o].initial
            /\ o + x = u \/ (o + x < u /\ o + x \in Places(r))
            /\ \A p \in Places(r) : o < p => o + x <= p
        BY <1>4, <1>13, <3>1, <3>2 DEF Chained
      <3>4. o + x < q.used /\ o + x \in Places(q)
        <4>1. o + x < u + e
          BY <1>3, <1>5, <1>11, <3>1, <3>2
        <4>2. o + x \in Places(q)
          BY <1>11, <1>12, <3>3
        <4> QED
          BY <1>7, <4>1, <4>2
      <3>5. \A p \in Places(q) : o < p => o + x <= p
        BY <1>11, <3>2, <3>3
      <3> QED
        BY <3>1, <3>2, <3>3, <3>4, <3>5
    <2> QED
      BY <2>1, <2>2
  <1>16. Chained(q)
    BY <1>14, <1>15 DEF Chained
  <1> QED
    BY <1>3, <1>4, <1>6, <1>7, <1>9, <1>16 DEF GoodRegions

(* A clause changes, but not the place it has.                             *)
LEMMA ModifiedGood ==
  ASSUME NEW m \in Nat, NEW r \in GoodRegions(m), NEW o \in Places(r), NEW c \in Clauses(m),
         c.initial = r.mem[o].initial, c.len <= c.initial
  PROVE  [r EXCEPT !.mem[o] = c] \in GoodRegions(m)
  <1>1. /\ r \in RegionTypes(m) /\ Chained(r) /\ o \in 0 .. RegionSize - 1
        /\ r.mem \in [0 .. RegionSize - 1 -> Clauses(m) \cup {Nothing}] /\ r.used \in 0 .. RegionSize
    BY DEF GoodRegions, RegionTypes, Places
  <1>2. PICK q : q = [r EXCEPT !.mem[o] = c]
    OBVIOUS
  <1>3. q = [mem |-> [r.mem EXCEPT ![o] = c], used |-> r.used]
    BY <1>1, <1>2 DEF RegionTypes
  <1>4. /\ q.used = r.used /\ q.mem[o] = c
        /\ \A p \in 0 .. RegionSize - 1 : p # o => q.mem[p] = r.mem[p]
        /\ q \in RegionTypes(m)
    BY <1>1, <1>3 DEF RegionTypes
  <1>5. Places(q) = Places(r)
    BY <1>1, <1>4, ClauseIsThere DEF Places
  <1>6. \A p \in Places(r) : Extent(q.mem[p]) = Extent(r.mem[p])
    BY <1>4 DEF Places, Extent
  <1>7. \A p \in Places(r) : q.mem[p].len <= q.mem[p].initial
    BY <1>1, <1>4 DEF Places, Chained
  <1>8. Chained(q)
    BY <1>1, <1>4, <1>5, <1>6, <1>7 DEF Chained
  <1> QED
    BY <1>2, <1>4, <1>8 DEF GoodRegions

(* The iteration begins and goes on at the place of a clause.              *)
LEMMA FirstAndNext ==
  ASSUME NEW m, NEW r \in GoodRegions(m)
  PROVE  /\ FirstClause(r) = End \/ FirstClause(r) \in Places(r)
         /\ \A o \in Places(r) :
              \/ NextClause(r, o) = End
              \/ /\ NextClause(r, o) \in Places(r)
                 /\ NextClause(r, o) = o + Extent(r.mem[o])
  <1>1. GoodRegion(r, m)
    BY DEF GoodRegion
  <1>2. FirstClause(r) = End \/ FirstClause(r) \in Places(r)
    BY DEF FirstClause, GoodRegions, Chained
  <1> QED
    BY <1>1, <1>2, RegionFacts
----------------------------------------------------------------------------
(* Sequences.                                                              *)

LEMMA LastAndFront ==
  ASSUME NEW S, NEW s \in Seq(S), s # <<>>
  PROVE  /\ Len(s) \in Nat \ {0} /\ Last(s) = s[Len(s)] /\ Last(s) \in S
         /\ Front(s) \in Seq(S) /\ Len(Front(s)) = Len(s) - 1
  <1>1. Len(s) \in Nat \ {0}
    BY EmptySeq
  <1>2. Last(s) = s[Len(s)] /\ Last(s) \in S
    BY <1>1 DEF Last
  <1>3. Front(s) = SubSeq(s, 1, Len(s) - 1)
    BY DEF Front
  <1>4. SubSeq(s, 1, Len(s) - 1) \in Seq(S) /\ Len(SubSeq(s, 1, Len(s) - 1)) = Len(s) - 1
    <2>1. PICK n \in Nat : n = Len(s) - 1
      BY <1>1
    <2>2. \A i \in 1 .. n : s[i] \in S
      BY <1>1, <2>1
    <2>3. SubSeq(s, 1, n) \in Seq(S) /\ Len(SubSeq(s, 1, n)) = IF 1 <= n THEN n - 1 + 1 ELSE 0
      BY <2>1, <2>2, SubSeqProperties
    <2> QED
      BY <2>1, <2>3
  <1> QED
    BY <1>1, <1>2, <1>3, <1>4

(* The list of spares after it has been filled up.                         *)
LEMMA Filled ==
  ASSUME spares \in Seq({EmptyRegion})
  PROVE  /\ FilledSpares \in Seq({EmptyRegion}) /\ Len(FilledSpares) >= SparesWanted
         /\ FilledSpares # <<>> /\ NewRegion = EmptyRegion
         /\ Front(FilledSpares) \in Seq({EmptyRegion}) /\ Front(FilledSpares) # <<>>
  <1>1. FilledSpares \in Seq({EmptyRegion}) /\ Len(FilledSpares) \in Nat /\ Len(FilledSpares) >= 3
    <2>1. CASE Len(spares) >= SparesWanted
      BY <2>1 DEF FilledSpares, SparesWanted
    <2>2. CASE ~(Len(spares) >= SparesWanted)
      <3>1. PICK k \in 1 .. 3 : k = SparesWanted - Len(spares) /\ Len(spares) = 3 - k
        BY <2>2 DEF SparesWanted
      <3>2. PICK t : t = [i \in 1 .. k |-> EmptyRegion]
        OBVIOUS
      <3>3. t \in Seq({EmptyRegion}) /\ Len(t) = k
        BY <3>2
      <3>4. FilledSpares = spares \o t
        BY <2>2, <3>1, <3>2 DEF FilledSpares
      <3>5. spares \o t \in Seq({EmptyRegion}) /\ Len(spares \o t) = Len(spares) + Len(t)
        BY <3>3, ConcatProperties
      <3>6. Len(FilledSpares) = 3
        <4>1. Len(FilledSpares) = Len(spares) + k
          BY <3>3, <3>4, <3>5
        <4>2. Len(spares) + k = 3
          BY ONLY <3>1
        <4> QED
          BY <4>1, <4>2
      <3> QED
        BY <3>4, <3>5, <3>6
    <2> QED
      BY <2>1, <2>2
  <1>2. FilledSpares # <<>>
    <2>1. Len(<<>>) = 0
      OBVIOUS
    <2> QED
      BY <1>1, <2>1
  <1>3. /\ Last(FilledSpares) \in {EmptyRegion} /\ Front(FilledSpares) \in Seq({EmptyRegion})
        /\ Len(Front(FilledSpares)) = Len(FilledSpares) - 1
    BY <1>1, <1>2, LastAndFront
  <1>4. Front(FilledSpares) # <<>>
    <2>1. Len(<<>>) = 0
      OBVIOUS
    <2> QED
      BY <1>1, <1>3, <2>1
  <1> QED
    BY <1>1, <1>2, <1>3, <1>4 DEF NewRegion, SparesWanted
----------------------------------------------------------------------------
(* Creating and changing clauses.                                          *)

LEMMA NewClause ==
  ASSUME created \in Nat, NEW n \in Lengths
  PROVE  /\ Clause(created + 1, n) \in Clauses(created + 1)
         /\ Clause(created + 1, n).len = n /\ Clause(created + 1, n).initial = n
  BY DEF Clause, Clauses

LEMMA CreateInRegionStep ==
  ASSUME DBIInv, NEW n \in Lengths, CreateInRegion(n)
  PROVE  DBIInv'
  <1>1. /\ created \in 0 .. MaxClauses /\ MaxClauses \in Nat
        /\ active \in Seq(GoodRegions(created)) /\ spares \in Seq({EmptyRegion})
        /\ spare \in GoodRegions(created) /\ pc = "idle" /\ IdleRight
    BY SizesAssumption DEF DBIInv, CreateInRegion
  <1>2. PICK m \in Nat : m = created + 1
    BY <1>1
  <1>3. /\ created' = m /\ m \in 0 .. MaxClauses /\ UNCHANGED <<spares, compressVars>>
        /\ active # <<>> /\ Fits(Last(active), n)
        /\ active' = [active EXCEPT ![Len(active)] = Allocated(active[Len(active)], Clause(m, n))]
    BY <1>1, <1>2 DEF CreateInRegion, HasRoom
  <1>4. GoodRegions(created) \subseteq GoodRegions(m)
    BY <1>1, <1>2, GoodRegionsGrow
  <1>5. active \in Seq(GoodRegions(m)) /\ spare \in GoodRegions(m)
    BY <1>1, <1>4, SeqMonotonic
  <1>6. /\ Len(active) \in 1 .. Len(active) /\ Last(active) = active[Len(active)]
        /\ active[Len(active)] \in GoodRegions(m)
    <2>1. PICK l : l = Len(active)
      OBVIOUS
    <2>2. l \in Nat \ {0} /\ Last(active) = active[l] /\ Last(active) \in GoodRegions(m)
      BY <1>3, <1>5, <2>1, LastAndFront
    <2>3. l \in 1 .. l
      BY <2>2
    <2> QED
      BY <2>1, <2>2, <2>3
  <1>7. PICK x, c : c = Clause(m, n) /\ x = Allocated(active[Len(active)], c)
    OBVIOUS
  <1>8. c \in Clauses(m) /\ c.len = n /\ c.initial = n
    BY <1>1, <1>2, <1>7, NewClause
  <1>9. x \in GoodRegions(m)
    BY <1>3, <1>6, <1>7, <1>8, AllocatedGood
  <1>10. active' \in Seq(GoodRegions(m))
    BY <1>3, <1>5, <1>6, <1>7, <1>9, ExceptSeq
  <1>11. IdleRight' /\ pc' = "idle" /\ spares' = spares /\ spare' = spare
    BY <1>1, <1>3 DEF IdleRight, compressVars
  <1> QED
    BY <1>1, <1>3, <1>5, <1>10, <1>11 DEF DBIInv

LEMMA CreateInNewRegionStep ==
  ASSUME DBIInv, NEW n \in Lengths, CreateInNewRegion(n)
  PROVE  DBIInv'
  <1>1. /\ created \in 0 .. MaxClauses /\ MaxClauses \in Nat
        /\ active \in Seq(GoodRegions(created)) /\ spares \in Seq({EmptyRegion})
        /\ spare \in GoodRegions(created) /\ pc = "idle" /\ IdleRight
    BY SizesAssumption DEF DBIInv, CreateInNewRegion
  <1>2. PICK m \in Nat : m = created + 1
    BY <1>1
  <1>3. /\ created' = m /\ m \in 0 .. MaxClauses /\ UNCHANGED compressVars
        /\ AllocationSize(n) <= RegionSize
        /\ active' = Append(active, Allocated(NewRegion, Clause(m, n)))
        /\ spares' = Front(FilledSpares)
    BY <1>1, <1>2 DEF CreateInNewRegion
  <1>4. GoodRegions(created) \subseteq GoodRegions(m)
    BY <1>1, <1>2, GoodRegionsGrow
  <1>5. active \in Seq(GoodRegions(m)) /\ spare \in GoodRegions(m)
    BY <1>1, <1>4, SeqMonotonic
  <1>6. NewRegion = EmptyRegion /\ spares' \in Seq({EmptyRegion}) /\ spares' # <<>>
    BY <1>1, <1>3, Filled
  <1>7. PICK x, c : c = Clause(m, n) /\ x = Allocated(EmptyRegion, c)
    OBVIOUS
  <1>8. c \in Clauses(m) /\ c.len = n /\ c.initial = n
    BY <1>1, <1>2, <1>7, NewClause
  <1>9. EmptyRegion \in GoodRegions(m) /\ Fits(EmptyRegion, n)
    <2>1. AllocationSize(n) \in Nat /\ RegionSize \in Nat
      BY AllocationSizes, SizesAssumption
    <2> QED
      BY <1>3, <2>1, EmptyGood DEF Fits, Free
  <1>10. x \in GoodRegions(m)
    BY <1>7, <1>8, <1>9, AllocatedGood
  <1>11. active' \in Seq(GoodRegions(m))
    BY <1>3, <1>5, <1>6, <1>7, <1>10, AppendProperties
  <1>12. IdleRight' /\ pc' = "idle" /\ spare' = spare
    BY <1>1, <1>3, <1>6 DEF IdleRight, compressVars
  <1> QED
    BY <1>1, <1>3, <1>5, <1>6, <1>11, <1>12 DEF DBIInv

LEMMA CreateFailsStep ==
  ASSUME DBIInv, NEW n \in Lengths, CreateFails(n)
  PROVE  DBIInv'
  <1>1. /\ created \in 0 .. MaxClauses /\ MaxClauses \in Nat
        /\ active \in Seq(GoodRegions(created)) /\ spares \in Seq({EmptyRegion})
        /\ spare \in GoodRegions(created) /\ pc = "idle" /\ IdleRight
    BY SizesAssumption DEF DBIInv, CreateFails
  <1>2. /\ created' = created /\ UNCHANGED compressVars
        /\ \/ /\ \E k \in Len(spares) .. SparesWanted : spares' = SubSeq(FilledSpares, 1, k)
              /\ active' = active
           \/ /\ active' = Append(active, NewRegion)
              /\ spares' = Front(FilledSpares)
    BY DEF CreateFails
  <1>3. /\ FilledSpares \in Seq({EmptyRegion}) /\ Len(FilledSpares) >= SparesWanted
        /\ NewRegion = EmptyRegion
        /\ Front(FilledSpares) \in Seq({EmptyRegion}) /\ Front(FilledSpares) # <<>>
    BY <1>1, Filled
  <1>4. /\ active' \in Seq(GoodRegions(created)) /\ spares' \in Seq({EmptyRegion})
        /\ active' # <<>> => spares' # <<>>
    <2>1. CASE /\ active' = active
               /\ \E k \in Len(spares) .. SparesWanted : spares' = SubSeq(FilledSpares, 1, k)
      <3>1. PICK k \in Len(spares) .. SparesWanted : spares' = SubSeq(FilledSpares, 1, k)
        BY <2>1
      <3>2. Len(spares) \in Nat /\ Len(FilledSpares) \in Nat /\ k \in 0 .. 3 /\ Len(FilledSpares) >= 3
        BY <1>1, <1>3, <3>1, LenProperties DEF SparesWanted
      <3>3. \A i \in 1 .. k : FilledSpares[i] \in {EmptyRegion}
        <4> SUFFICES ASSUME NEW i \in 1 .. k
                     PROVE  FilledSpares[i] \in {EmptyRegion}
          OBVIOUS
        <4>1. i \in 1 .. Len(FilledSpares)
          BY <3>2
        <4> QED
          BY <1>3, <4>1, ElementOfSeq
      <3>4. /\ SubSeq(FilledSpares, 1, k) \in Seq({EmptyRegion})
            /\ Len(SubSeq(FilledSpares, 1, k)) = IF 1 <= k THEN k - 1 + 1 ELSE 0
        BY <3>2, <3>3, SubSeqProperties
      <3>5. ASSUME active # <<>>
            PROVE  spares' # <<>>
        <4>1. spares # <<>>
          BY <1>1, <3>5 DEF IdleRight
        <4>2. Len(spares) # 0
          BY <1>1, <4>1, EmptySeq
        <4>3. Len(spares') # 0 /\ Len(<<>>) = 0
          BY <3>1, <3>2, <3>4, <4>2
        <4> QED
          BY <4>3
      <3> QED
        BY <1>1, <2>1, <3>1, <3>4, <3>5
    <2>2. CASE active' = Append(active, NewRegion) /\ spares' = Front(FilledSpares)
      <3>1. EmptyRegion \in GoodRegions(created)
        BY <1>1, EmptyGood
      <3>2. Append(active, EmptyRegion) \in Seq(GoodRegions(created))
        BY <1>1, <3>1, AppendProperties
      <3> QED
        BY <1>3, <2>2, <3>2
    <2> QED
      BY <1>2, <2>1, <2>2
  <1>5. IdleRight' /\ pc' = "idle" /\ spare' = spare
    BY <1>1, <1>2, <1>4 DEF IdleRight, compressVars
  <1> QED
    BY <1>1, <1>2, <1>4, <1>5 DEF DBIInv

LEMMA ModifyStep ==
  ASSUME DBIInv, NEW r \in DOMAIN active, NEW o \in Places(active[r]),
         NEW c \in Clauses(created), c.initial = active[r].mem[o].initial, c.len <= c.initial,
         Modify(r, o, c)
  PROVE  DBIInv'
  <1>1. /\ created \in 0 .. MaxClauses /\ MaxClauses \in Nat
        /\ active \in Seq(GoodRegions(created)) /\ spares \in Seq({EmptyRegion})
        /\ spare \in GoodRegions(created) /\ pc = "idle" /\ IdleRight
    BY SizesAssumption DEF DBIInv, Modify
  <1>2. PICK a, x : a = active[r] /\ x = [a EXCEPT !.mem[o] = c]
    OBVIOUS
  <1>3. r \in 1 .. Len(active) /\ a \in GoodRegions(created)
    BY <1>1, <1>2, LenProperties
  <1>4. x \in GoodRegions(created)
    <2>1. created \in Nat
      BY <1>1
    <2> QED
      BY <1>2, <1>3, <2>1, ModifiedGood
  <1>5. active' = [active EXCEPT ![r] = x] /\ UNCHANGED <<spares, created, compressVars>>
    BY <1>2, <1>3 DEF Modify
  <1>6. active' \in Seq(GoodRegions(created)) /\ Len(active') = Len(active)
    BY <1>1, <1>3, <1>4, <1>5, ExceptSeq
  <1>7. active' # <<>> => active # <<>>
    BY <1>1, <1>3, EmptySeq
  <1>8. IdleRight' /\ pc' = "idle" /\ spare' = spare /\ spares' = spares /\ created' = created
    BY <1>1, <1>5, <1>7 DEF IdleRight, compressVars
  <1> QED
    BY <1>1, <1>6, <1>8 DEF DBIInv

LEMMA ResizeAndDeleteStep ==
  ASSUME DBIInv, NEW r \in DOMAIN active, NEW o \in ToSet(Offsets(active[r])),
         Resize(r, o) \/ ScheduleForDeletion(r, o)
  PROVE  DBIInv'
  <1>1. created \in Nat /\ active \in Seq(GoodRegions(created))
    BY SizesAssumption DEF DBIInv
  <1>2. PICK a : a = active[r]
    OBVIOUS
  <1>3. a \in GoodRegions(created)
    BY <1>1, <1>2, LenProperties
  <1>4. GoodRegion(a, created)
    BY <1>3 DEF GoodRegion
  <1>5. o \in Places(a)
    BY <1>2, <1>4, OffsetsExact
  <1>6. PICK c : c = a.mem[o]
    OBVIOUS
  <1>7. c \in Clauses(created) /\ c.len <= c.initial /\ c.len \in Nat /\ c.initial \in Nat
    <2>1. c \in Clauses(created)
      BY <1>4, <1>5, <1>6, RegionFacts
    <2>2. c.len <= c.initial
      BY <1>3, <1>5, <1>6 DEF GoodRegions, Chained
    <2> QED
      BY <2>1, <2>2, SizesAssumption DEF Clauses
  <1>8. CASE Resize(r, o)
    <2>1. PICK n \in Lengths : n < c.len /\ Modify(r, o, [c EXCEPT !.len = n])
      BY <1>2, <1>6, <1>8 DEF Resize
    <2>2. PICK d : d = [c EXCEPT !.len = n]
      OBVIOUS
    <2>3. d \in Clauses(created) /\ d.initial = c.initial /\ d.len = n
      BY <1>7, <2>2 DEF Clauses
    <2>4. d.len <= d.initial
      BY <1>7, <2>1, <2>3, SizesAssumption
    <2> QED
      BY <1>2, <1>5, <1>6, <2>1, <2>2, <2>3, <2>4, ModifyStep
  <1>9. CASE ScheduleForDeletion(r, o)
    <2>1. PICK d : d = [c EXCEPT !.deleted = TRUE]
      OBVIOUS
    <2>2. d \in Clauses(created) /\ d.initial = c.initial /\ d.len = c.len
      BY <1>7, <2>1 DEF Clauses
    <2>3. Modify(r, o, d)
      BY <1>2, <1>6, <1>9, <2>1 DEF ScheduleForDeletion
    <2> QED
      BY <1>2, <1>5, <1>6, <1>7, <2>2, <2>3, ModifyStep
  <1> QED
    BY <1>8, <1>9
----------------------------------------------------------------------------
(* The steps of compress().                                                *)

LEMMA BeginCompressStep ==
  ASSUME DBIInv, BeginCompress
  PROVE  DBIInv'
  <1>1. /\ created \in Nat /\ created \in 0 .. MaxClauses
        /\ active \in Seq(GoodRegions(created)) /\ spares \in Seq({EmptyRegion})
        /\ active # <<>> /\ spares # <<>>
    BY SizesAssumption DEF DBIInv, BeginCompress, IdleRight
  <1>2. Last(spares) = EmptyRegion /\ Front(spares) \in Seq({EmptyRegion})
    BY <1>1, LastAndFront
  <1>3. /\ pc' = "compress" /\ spare' = EmptyRegion /\ spares' \in Seq({EmptyRegion})
        /\ swapIn' = 1 /\ idx' = 1 /\ pos' = FirstClause(active[1])
        /\ active' = active /\ created' = created
    BY <1>2 DEF BeginCompress
  <1>4. PICK l, a : l = Len(active) /\ a = active[1]
    OBVIOUS
  <1>5. l \in Nat \ {0} /\ a \in GoodRegions(created)
    BY <1>1, <1>4, EmptySeq, ElementOfSeq
  <1>6. /\ EmptyRegion \in GoodRegions(created) /\ EmptyRegion.used = 0
        /\ FirstClause(a) = End \/ FirstClause(a) \in Places(a)
    BY <1>1, <1>5, EmptyGood, FirstAndNext
  <1>7. Places(a) \subseteq Nat
    BY SizesAssumption DEF Places
  <1>8. CompressRight'
    <2>1. 1 \in 1 .. l /\ 1 \in 1 .. l + 1 /\ ~(1 > l) /\ \A i \in 1 .. 1 - 1 : FALSE
      BY <1>5
    <2>2. FirstClause(a) # End => 0 <= FirstClause(a)
      BY <1>6, <1>7
    <2> QED
      BY <1>3, <1>4, <1>6, <2>1, <2>2 DEF CompressRight
  <1> QED
    BY <1>1, <1>3, <1>6, <1>8 DEF DBIInv

(* What there is while a region is read.                                   *)
LEMMA WhileVisiting ==
  ASSUME DBIInv, Visiting
  PROVE  /\ created \in Nat /\ created \in 0 .. MaxClauses
         /\ active \in Seq(GoodRegions(created)) /\ spares \in Seq({EmptyRegion})
         /\ spare \in GoodRegions(created)
         /\ Len(active) \in Nat /\ swapIn \in 1 .. Len(active) /\ idx \in swapIn .. Len(active)
         /\ idx \in 1 .. Len(active)
         /\ \A i \in swapIn .. idx - 1 : active[i] = EmptyRegion
         /\ active[idx] \in GoodRegions(created)
         /\ pos \in Places(active[idx])
         /\ idx = swapIn => spare.used <= pos
         /\ pc = "compress" /\ pos # End
  <1>1. /\ created \in Nat /\ created \in 0 .. MaxClauses
        /\ active \in Seq(GoodRegions(created)) /\ spares \in Seq({EmptyRegion})
        /\ spare \in GoodRegions(created)
        /\ pc = "compress" /\ CompressRight /\ idx <= Len(active) /\ pos # End
    BY SizesAssumption DEF DBIInv, Visiting
  <1>2. Len(active) \in Nat
    BY <1>1, LenProperties
  <1>3. /\ swapIn \in 1 .. Len(active) /\ idx \in swapIn .. Len(active) + 1
        /\ \A i \in swapIn .. idx - 1 : active[i] = EmptyRegion
        /\ pos \in Places(active[idx])
        /\ idx = swapIn => spare.used <= pos
    BY <1>1 DEF CompressRight
  <1>4. idx \in swapIn .. Len(active) /\ idx \in 1 .. Len(active)
    BY <1>1, <1>2, <1>3
  <1>5. active[idx] \in GoodRegions(created)
    BY <1>1, <1>4, ElementOfSeq
  <1> QED
    BY <1>1, <1>2, <1>3, <1>4, <1>5

(* The clause that is read, its copy, and the next.                        *)
LEMMA VisitedClause ==
  ASSUME DBIInv, Visiting
  PROVE  \E e \in Nat \ {0}, k \in Nat \ {0} :
           /\ k = AllocationSize(Visited.len) /\ k <= e
           /\ pos \in Nat /\ pos + e <= active[idx].used /\ active[idx].used \in 0 .. RegionSize
           /\ Copy \in Clauses(created) /\ Copy.len = Copy.initial /\ Copy.len = Visited.len
           /\ \/ NextClause(active[idx], pos) = End
              \/ /\ NextClause(active[idx], pos) \in Places(active[idx])
                 /\ NextClause(active[idx], pos) = pos + e
  <1>1. PICK a, o, c : a = active[idx] /\ o = pos /\ c = a.mem[o]
    OBVIOUS
  <1>2. a \in GoodRegions(created) /\ o \in Places(a) /\ Visited = c /\ GoodRegion(a, created)
    BY <1>1, WhileVisiting DEF Visited, GoodRegion
  <1>3. /\ c \in Clauses(created) /\ Extent(c) \in Nat \ {0} /\ o + Extent(c) <= a.used
        /\ a.used \in 0 .. RegionSize /\ Places(a) \in SUBSET (0 .. RegionSize - 1)
    BY <1>1, <1>2, RegionFacts
  <1>4. c.len \in Lengths /\ c.initial \in Lengths /\ c.len <= c.initial
    BY <1>1, <1>2, <1>3 DEF GoodRegions, Chained, Clauses
  <1>5. /\ AllocationSize(c.len) \in Nat \ {0}
        /\ AllocationSize(c.len) <= AllocationSize(c.initial)
    BY <1>4, AllocationSizes
  <1>6. PICK e \in Nat \ {0}, k \in Nat \ {0} : e = Extent(c) /\ k = AllocationSize(c.len)
    BY <1>3, <1>5
  <1>7. k <= e /\ o \in Nat /\ o + e <= a.used
    BY <1>2, <1>3, <1>5, <1>6, SizesAssumption DEF Extent
  <1>8. PICK d : d = Copy
    OBVIOUS
  <1>9. d \in Clauses(created) /\ d.len = d.initial /\ d.len = c.len
    <2>1. d = [c EXCEPT !.initial = c.len]
      BY <1>2, <1>8 DEF Copy
    <2> QED
      BY <1>3, <1>4, <2>1 DEF Clauses
  <1>10. \/ NextClause(a, o) = End
         \/ NextClause(a, o) \in Places(a) /\ NextClause(a, o) = o + e
    BY <1>1, <1>2, <1>6, FirstAndNext
  <1> QED
    BY <1>1, <1>2, <1>3, <1>6, <1>7, <1>8, <1>9, <1>10

LEMMA SkipDeletedStep ==
  ASSUME DBIInv, SkipDeleted
  PROVE  DBIInv'
  <1>1. Visiting
    BY DEF SkipDeleted
  <1>2. PICK a, o, i, u : a = active[idx] /\ o = pos /\ i = idx /\ u = spare.used
    OBVIOUS
  <1>3. /\ pos' = NextClause(a, o)
        /\ active' = active /\ spares' = spares /\ created' = created /\ pc' = pc
        /\ spare' = spare /\ swapIn' = swapIn /\ idx' = idx
    BY <1>2 DEF SkipDeleted
  <1>4. PICK e \in Nat \ {0} :
          /\ o \in Nat
          /\ NextClause(a, o) = End \/ (NextClause(a, o) \in Places(a) /\ NextClause(a, o) = o + e)
    BY <1>1, <1>2, VisitedClause
  <1>5. /\ u \in Nat
        /\ idx = swapIn => u <= o
        /\ spare \in GoodRegions(created) /\ pc = "compress"
    BY <1>1, <1>2, WhileVisiting, SizesAssumption DEF GoodRegions, RegionTypes
  <1>6. idx = swapIn /\ NextClause(a, o) # End => u <= NextClause(a, o)
    BY <1>4, <1>5
  <1>7. /\ swapIn \in 1 .. Len(active) /\ idx \in swapIn .. Len(active) + 1
        /\ \A j \in swapIn .. idx - 1 : active[j] = EmptyRegion
        /\ ~(idx > Len(active))
    BY <1>1, WhileVisiting
  <1>8. CompressRight'
    BY <1>2, <1>3, <1>4, <1>6, <1>7 DEF CompressRight
  <1> QED
    BY <1>1, <1>3, <1>5, <1>8, WhileVisiting DEF DBIInv

LEMMA CopyToSpareStep ==
  ASSUME DBIInv, CopyToSpare
  PROVE  DBIInv'
  <1>1. Visiting
    BY DEF CopyToSpare
  <1>2. PICK a, o, u, d, s : a = active[idx] /\ o = pos /\ u = spare.used /\ d = Copy /\ s = spare
    OBVIOUS
  <1>3. /\ pos' = NextClause(a, o) /\ spare' = Allocated(s, d)
        /\ active' = active /\ spares' = spares /\ created' = created /\ pc' = pc
        /\ swapIn' = swapIn /\ idx' = idx
        /\ Fits(s, Visited.len)
    BY <1>2 DEF CopyToSpare
  <1>4. PICK e \in Nat \ {0}, k \in Nat \ {0} :
          /\ o \in Nat /\ k = AllocationSize(Visited.len) /\ k <= e
          /\ d \in Clauses(created) /\ d.len = d.initial /\ d.len = Visited.len
          /\ NextClause(a, o) = End \/ (NextClause(a, o) \in Places(a) /\ NextClause(a, o) = o + e)
    BY <1>1, <1>2, VisitedClause
  <1>5. /\ u \in Nat
        /\ idx = swapIn => u <= o
        /\ s \in GoodRegions(created) /\ pc = "compress" /\ created \in Nat
    BY <1>1, <1>2, WhileVisiting, SizesAssumption DEF GoodRegions, RegionTypes
  <1>6. spare' \in GoodRegions(created) /\ spare'.used = u + k
    <2>1. Fits(s, d.len) /\ AllocationSize(d.len) = k
      BY <1>3, <1>4
    <2>2. PICK m \in Nat : m = created
      BY <1>5
    <2>3. Allocated(s, d) \in GoodRegions(m) /\ Allocated(s, d).used = s.used + AllocationSize(d.len)
      BY <1>4, <1>5, <2>1, <2>2, AllocatedGood
    <2> QED
      BY <1>2, <1>3, <2>1, <2>2, <2>3
  <1>7. idx = swapIn /\ NextClause(a, o) # End => u + k <= NextClause(a, o)
    BY <1>4, <1>5
  <1>8. /\ swapIn \in 1 .. Len(active) /\ idx \in swapIn .. Len(active) + 1
        /\ \A j \in swapIn .. idx - 1 : active[j] = EmptyRegion
        /\ ~(idx > Len(active))
    BY <1>1, WhileVisiting
  <1>9. CompressRight'
    BY <1>2, <1>3, <1>4, <1>6, <1>7, <1>8 DEF CompressRight
  <1> QED
    BY <1>1, <1>3, <1>5, <1>6, <1>9, WhileVisiting DEF DBIInv

(* When the spare is full, the region to be overwritten has been read, and *)
(* the clause fits into it.                                                *)
LEMMA NextSpareEmpty ==
  ASSUME DBIInv, Visiting, ~Fits(spare, Visited.len)
  PROVE  swapIn < idx /\ active[swapIn] = EmptyRegion /\ Fits(EmptyRegion, Visited.len)
  <1>1. PICK e \in Nat \ {0}, k \in Nat \ {0} :
          /\ k = AllocationSize(Visited.len) /\ k <= e
          /\ pos \in Nat /\ pos + e <= active[idx].used /\ active[idx].used \in 0 .. RegionSize
    BY VisitedClause
  <1>2. PICK a, o, u, s, i : a = active[idx].used /\ o = pos /\ u = spare.used /\ s = swapIn /\ i = idx
    OBVIOUS
  <1>3. RegionSize \in Nat /\ u \in 0 .. RegionSize /\ o \in Nat /\ a \in 0 .. RegionSize /\ o + e <= a
    BY <1>1, <1>2, WhileVisiting, SizesAssumption DEF GoodRegions, RegionTypes
  <1>4. k > RegionSize - u
    BY <1>1, <1>2, <1>3 DEF Fits, Free
  <1>5. ~(u <= o)
    BY <1>1, <1>3, <1>4
  <1>6. s \in Nat /\ i \in Nat /\ s <= i /\ s # i /\ \A j \in s .. i - 1 : active[j] = EmptyRegion
    BY <1>2, <1>5, WhileVisiting
  <1>7. s < i /\ s \in s .. i - 1
    BY <1>6
  <1>8. k <= RegionSize
    BY <1>1, <1>3
  <1>9. EmptyRegion.used = 0
    BY DEF EmptyRegion
  <1>10. Fits(EmptyRegion, Visited.len)
    BY <1>1, <1>3, <1>8, <1>9 DEF Fits, Free
  <1> QED
    BY <1>2, <1>6, <1>7, <1>10

LEMMA CopyToNextSpareStep ==
  ASSUME DBIInv, CopyToNextSpare
  PROVE  DBIInv'
  <1>1. Visiting /\ ~Fits(spare, Visited.len)
    BY DEF CopyToNextSpare
  <1>2. swapIn < idx /\ active[swapIn] = EmptyRegion /\ Fits(EmptyRegion, Visited.len)
    BY <1>1, NextSpareEmpty
  <1>3. PICK a, o, d, s, i, w, l :
          a = active[idx] /\ o = pos /\ d = Copy /\ s = spare /\ i = idx /\ w = swapIn /\ l = Len(active)
    OBVIOUS
  <1>4. /\ pos' = NextClause(a, o) /\ spare' = Allocated(EmptyRegion, d)
        /\ active' = [active EXCEPT ![w] = s] /\ swapIn' = w + 1
        /\ spares' = spares /\ created' = created /\ pc' = pc /\ idx' = i
    BY <1>2, <1>3 DEF CopyToNextSpare
  <1>5. PICK e \in Nat \ {0}, k \in Nat \ {0} :
          /\ o \in Nat /\ k = AllocationSize(Visited.len) /\ k <= e
          /\ d \in Clauses(created) /\ d.len = d.initial /\ d.len = Visited.len
          /\ NextClause(a, o) = End \/ (NextClause(a, o) \in Places(a) /\ NextClause(a, o) = o + e)
    BY <1>1, <1>3, VisitedClause
  <1>6. /\ s \in GoodRegions(created) /\ pc = "compress" /\ created \in Nat
        /\ active \in Seq(GoodRegions(created))
        /\ l \in Nat /\ w \in 1 .. l /\ i \in 1 .. l /\ w < i
        /\ \A j \in w .. i - 1 : active[j] = EmptyRegion
    BY <1>1, <1>2, <1>3, WhileVisiting
  <1>7. EmptyRegion \in GoodRegions(created) /\ EmptyRegion.used = 0
    BY <1>6, EmptyGood
  <1>8. spare' \in GoodRegions(created) /\ spare'.used = 0 + k
    <2>1. Fits(EmptyRegion, d.len) /\ AllocationSize(d.len) = k
      BY <1>2, <1>5
    <2>2. PICK m \in Nat : m = created
      BY <1>6
    <2>3. /\ Allocated(EmptyRegion, d) \in GoodRegions(m)
          /\ Allocated(EmptyRegion, d).used = EmptyRegion.used + AllocationSize(d.len)
      BY <1>5, <1>7, <2>1, <2>2, AllocatedGood
    <2> QED
      BY <1>4, <1>7, <2>1, <2>2, <2>3
  <1>9. /\ active' \in Seq(GoodRegions(created)) /\ Len(active') = l
        /\ \A j \in 1 .. l : j # w => active'[j] = active[j]
    BY <1>3, <1>4, <1>6, ExceptSeq
  <1>10. NextClause(a, o) # End => spare'.used <= NextClause(a, o)
    BY <1>5, <1>8
  <1>11. /\ w + 1 \in 1 .. l /\ i \in w + 1 .. l + 1 /\ ~(i > l) /\ i # w /\ i \in 1 .. l
         /\ \A j \in w + 1 .. i - 1 : j \in w .. i - 1 /\ j \in 1 .. l /\ j # w
    BY <1>6
  <1>12. \A j \in w + 1 .. i - 1 : active'[j] = EmptyRegion
    BY <1>6, <1>9, <1>11
  <1>13. active'[i] = a
    BY <1>3, <1>9, <1>11
  <1>14. CompressRight'
    BY <1>4, <1>5, <1>9, <1>10, <1>11, <1>12, <1>13 DEF CompressRight
  <1> QED
    BY <1>1, <1>4, <1>6, <1>8, <1>9, <1>14, WhileVisiting DEF DBIInv

LEMMA RegionDoneStep ==
  ASSUME DBIInv, RegionDone
  PROVE  DBIInv'
  <1>1. PICK i, w, l : i = idx /\ w = swapIn /\ l = Len(active)
    OBVIOUS
  <1>2. /\ pc = "compress" /\ i <= l
        /\ active' = [active EXCEPT ![i] = EmptyRegion]
        /\ idx' = i + 1
        /\ pos' = IF i < l THEN FirstClause(active[i + 1]) ELSE End
        /\ spares' = spares /\ created' = created /\ pc' = pc /\ spare' = spare /\ swapIn' = w
    BY <1>1 DEF RegionDone
  <1>3. /\ created \in Nat /\ created \in 0 .. MaxClauses
        /\ active \in Seq(GoodRegions(created)) /\ spares \in Seq({EmptyRegion})
        /\ spare \in GoodRegions(created) /\ CompressRight /\ l \in Nat
    BY <1>1, <1>2, SizesAssumption, LenProperties DEF DBIInv
  <1>4. /\ w \in 1 .. l /\ i \in w .. l /\ i \in 1 .. l
        /\ \A j \in w .. i - 1 : active[j] = EmptyRegion
    <2>1. w \in 1 .. l /\ i \in w .. l + 1 /\ \A j \in w .. i - 1 : active[j] = EmptyRegion
      BY <1>1, <1>3 DEF CompressRight
    <2> QED
      BY <1>2, <1>3, <2>1
  <1>5. EmptyRegion \in GoodRegions(created)
    BY <1>3, EmptyGood
  <1>6. /\ active' \in Seq(GoodRegions(created)) /\ Len(active') = l
        /\ \A j \in 1 .. l : active'[j] = IF j = i THEN EmptyRegion ELSE active[j]
    BY <1>1, <1>2, <1>3, <1>4, <1>5, ExceptSeq
  <1>7. \A j \in w .. (i + 1) - 1 : active'[j] = EmptyRegion
    <2> SUFFICES ASSUME NEW j \in w .. (i + 1) - 1
                 PROVE  active'[j] = EmptyRegion
      OBVIOUS
    <2>1. j \in 1 .. l /\ (j = i \/ j \in w .. i - 1)
      BY <1>3, <1>4
    <2> QED
      BY <1>4, <1>6, <2>1
  <1>8. /\ i + 1 > l => pos' = End
        /\ i + 1 <= l => pos' = End \/ pos' \in Places(active'[i + 1])
    <2>1. CASE i < l
      <3>1. i + 1 \in 1 .. l /\ i + 1 # i /\ ~(i + 1 > l)
        BY <1>3, <1>4, <2>1
      <3>2. active'[i + 1] = active[i + 1] /\ active[i + 1] \in GoodRegions(created)
        BY <1>1, <1>3, <1>6, <3>1, ElementOfSeq
      <3>3. FirstClause(active[i + 1]) = End \/ FirstClause(active[i + 1]) \in Places(active[i + 1])
        BY <3>2, FirstAndNext
      <3> QED
        BY <1>2, <2>1, <3>1, <3>2, <3>3
    <2>2. CASE ~(i < l)
      <3>1. ~(i + 1 <= l)
        BY <1>3, <1>4, <2>2
      <3> QED
        BY <1>2, <2>2, <3>1
    <2> QED
      BY <2>1, <2>2
  <1>9. i + 1 \in w .. l + 1 /\ i + 1 # w
    BY <1>3, <1>4
  <1>10. CompressRight'
    BY <1>2, <1>4, <1>6, <1>7, <1>8, <1>9 DEF CompressRight
  <1> QED
    BY <1>2, <1>3, <1>6, <1>10 DEF DBIInv
(* The regions after the last one in use are empty, and there is such a    *)
(* last one, or the first.                                                 *)
LEMMA KeptRegions ==
  ASSUME NEW m, NEW s \in Seq(GoodRegions(m)), s # <<>>
  PROVE  \E n \in DOMAIN s :
           /\ n = 1 \/ s[n].used # 0
           /\ \A i \in n + 1 .. Len(s) : s[i].used = 0
  <1>1. PICK l \in Nat \ {0} : l = Len(s) /\ DOMAIN s = 1 .. l
    BY EmptySeq, LenProperties
  <1> DEFINE T == {n \in 1 .. l : \A i \in n + 1 .. l : s[i].used = 0}
  <1>2. l \in T /\ T \in SUBSET Nat
    OBVIOUS
  <1>3. PICK n \in T : \A k \in T : n <= k
    <2> HIDE DEF T
    <2> QED
      BY <1>2, Least
  <1>4. n \in 1 .. l /\ \A i \in n + 1 .. l : s[i].used = 0
    OBVIOUS
  <1>5. ASSUME n # 1, s[n].used = 0
        PROVE  FALSE
    <2>1. PICK k \in 1 .. l : n = k + 1
      <3>1. n - 1 \in 1 .. l /\ n = (n - 1) + 1
        BY <1>4, <1>5
      <3> QED
        BY <3>1
    <2>2. \A i \in k + 1 .. l : i = n \/ i \in n + 1 .. l
      BY <1>4, <2>1
    <2>3. k \in T
      BY <1>4, <1>5, <2>1, <2>2
    <2>4. n <= k
      BY <1>3, <2>3
    <2> QED
      BY <2>1, <2>4
  <1> QED
    BY <1>1, <1>4, <1>5

LEMMA FinishCompressStep ==
  ASSUME DBIInv, FinishCompress
  PROVE  DBIInv'
  <1>1. PICK w, l : w = swapIn /\ l = Len(active)
    OBVIOUS
  <1>2. /\ created \in Nat /\ created \in 0 .. MaxClauses
        /\ active \in Seq(GoodRegions(created)) /\ spares \in Seq({EmptyRegion})
        /\ spare \in GoodRegions(created) /\ l \in Nat /\ w \in 1 .. l
    <2>1. pc = "compress" /\ CompressRight
      BY DEF DBIInv, FinishCompress
    <2> QED
      BY <1>1, <2>1, SizesAssumption, LenProperties DEF DBIInv, CompressRight
  <1>3. PICK s : s = [active EXCEPT ![w] = spare]
    OBVIOUS
  <1>4. s \in Seq(GoodRegions(created)) /\ Len(s) = l /\ DOMAIN s = 1 .. l /\ s # <<>>
    <2>1. s \in Seq(GoodRegions(created)) /\ Len(s) = l
      BY <1>1, <1>2, <1>3, ExceptSeq
    <2> QED
      BY <1>2, <2>1, LenProperties, EmptySeq
  <1>5. PICK kept : kept = CHOOSE n \in DOMAIN s :
                             /\ n = 1 \/ s[n].used # 0
                             /\ \A i \in n + 1 .. Len(s) : s[i].used = 0
    OBVIOUS
  <1>6. kept \in 1 .. l /\ \A i \in kept + 1 .. l : s[i].used = 0
    <2>1. \E n \in DOMAIN s :
            /\ n = 1 \/ s[n].used # 0
            /\ \A i \in n + 1 .. Len(s) : s[i].used = 0
      BY <1>4, KeptRegions
    <2> QED
      BY <1>4, <1>5, <2>1
  <1>7. PICK t : t = SubSeq(s, kept + 1, l)
    OBVIOUS
  <1>8. /\ active' = SubSeq(s, 1, kept)
        /\ spares' = spares \o <<EmptyRegion>> \o Reverse(t)
        /\ pc' = "idle" /\ spare' = EmptyRegion /\ swapIn' = 0 /\ idx' = 0 /\ pos' = End
        /\ created' = created
    <2>1. s = [active EXCEPT ![swapIn] = spare] /\ Len(s) = l
      BY <1>1, <1>3, <1>4
    <2>2. /\ active' = SubSeq(s, 1, kept)
          /\ spares' = spares \o <<EmptyRegion>> \o Reverse(SubSeq(s, kept + 1, Len(s)))
      BY <1>5, <2>1, Zenon DEF FinishCompress
    <2> QED
      BY <1>7, <2>1, <2>2 DEF FinishCompress
  <1>9. active' \in Seq(GoodRegions(created))
    <2>1. kept \in Int /\ 1 \in Int /\ \A i \in 1 .. kept : i \in 1 .. l
      BY <1>2, <1>6
    <2>2. \A i \in 1 .. kept : s[i] \in GoodRegions(created)
      BY <1>4, <2>1, ElementOfSeq
    <2> QED
      BY <1>8, <2>1, <2>2, SubSeqProperties
  <1>10. t \in Seq({EmptyRegion})
    <2>1. kept + 1 \in Int /\ l \in Int /\ \A i \in kept + 1 .. l : i \in 1 .. l
      BY <1>2, <1>6
    <2>2. \A i \in kept + 1 .. l : s[i] \in {EmptyRegion}
      <3> SUFFICES ASSUME NEW i \in kept + 1 .. l
                   PROVE  s[i] = EmptyRegion
        OBVIOUS
      <3>1. s[i] \in GoodRegions(created) /\ s[i].used = 0
        BY <1>4, <1>6, <2>1, ElementOfSeq
      <3> QED
        BY <3>1, UnusedIsEmpty
    <2> QED
      BY <1>7, <2>1, <2>2, SubSeqProperties
  <1>11. Reverse(t) \in Seq({EmptyRegion})
    <2>1. PICK k \in Nat : k = Len(t)
      BY <1>10, LenProperties
    <2>2. \A i \in 1 .. k : t[(k - i) + 1] \in {EmptyRegion}
      <3> SUFFICES ASSUME NEW i \in 1 .. k
                   PROVE  t[(k - i) + 1] \in {EmptyRegion}
        OBVIOUS
      <3>1. (k - i) + 1 \in 1 .. k
        OBVIOUS
      <3> QED
        BY <1>10, <2>1, <3>1, ElementOfSeq
    <2>3. PICK v : v = [i \in 1 .. k |-> t[(k - i) + 1]]
      OBVIOUS
    <2>4. v \in Seq({EmptyRegion})
      BY <2>2, <2>3
    <2> QED
      BY <2>1, <2>3, <2>4 DEF Reverse
  <1>12. spares' \in Seq({EmptyRegion}) /\ spares' # <<>>
    <2>1. PICK p, q, v : p = spares /\ q = <<EmptyRegion>> /\ v = Reverse(t)
      OBVIOUS
    <2>2. q \in Seq({EmptyRegion}) /\ Len(q) = 1
      BY <2>1
    <2>3. p \o q \in Seq({EmptyRegion}) /\ Len(p \o q) = Len(p) + 1 /\ Len(p) \in Nat
      BY <1>2, <2>1, <2>2, ConcatProperties, LenProperties
    <2>4. (p \o q) \o v \in Seq({EmptyRegion}) /\ Len((p \o q) \o v) = Len(p) + 1 + Len(v) /\ Len(v) \in Nat
      BY <1>11, <2>1, <2>3, ConcatProperties, LenProperties
    <2>5. Len((p \o q) \o v) # 0 /\ Len(<<>>) = 0
      BY <2>3, <2>4
    <2>6. spares' = (p \o q) \o v
      BY <1>8, <2>1
    <2> QED
      BY <2>4, <2>5, <2>6
  <1>13. IdleRight' /\ EmptyRegion \in GoodRegions(created)
    BY <1>2, <1>8, <1>12, EmptyGood DEF IdleRight
  <1> QED
    BY <1>2, <1>8, <1>9, <1>12, <1>13 DEF DBIInv

----------------------------------------------------------------------------
(* The database keeps its regions in order, whatever clients do and        *)
(* wherever a compaction stands (IterableClauseDB.h:484-680).              *)
THEOREM DBInvariant == Spec => []DBIInv
  <1>1. Init => DBIInv
    <2> SUFFICES ASSUME Init
                 PROVE  DBIInv
      OBVIOUS
    <2>1. /\ active = <<>> /\ spares = <<>> /\ created = 0 /\ pc = "idle"
          /\ spare = EmptyRegion /\ swapIn = 0 /\ idx = 0 /\ pos = End
      BY DEF Init
    <2>2. EmptyRegion \in GoodRegions(0) /\ 0 \in 0 .. MaxClauses
      BY SizesAssumption, EmptyGood
    <2>3. <<>> \in Seq(GoodRegions(0)) /\ <<>> \in Seq({EmptyRegion})
      OBVIOUS
    <2>4. IdleRight
      BY <2>1 DEF IdleRight
    <2> QED
      BY <2>1, <2>2, <2>3, <2>4 DEF DBIInv
  <1>2. DBIInv /\ [Next]_dbVars => DBIInv'
    <2> SUFFICES ASSUME DBIInv, [Next]_dbVars
                 PROVE  DBIInv'
      OBVIOUS
    <2>1. ASSUME Client
          PROVE  DBIInv'
      <3>1. ASSUME NEW n \in Lengths, CreateInRegion(n) \/ CreateInNewRegion(n) \/ CreateFails(n)
            PROVE  DBIInv'
        BY <3>1, CreateInRegionStep, CreateInNewRegionStep, CreateFailsStep
      <3>2. ASSUME NEW r \in DOMAIN active, NEW o \in ToSet(Offsets(active[r])),
                   Resize(r, o) \/ ScheduleForDeletion(r, o)
            PROVE  DBIInv'
        BY <3>2, ResizeAndDeleteStep
      <3> QED
        BY <2>1, <3>1, <3>2, BeginCompressStep DEF Client
    <2>2. ASSUME CompressStep
          PROVE  DBIInv'
      BY <2>2, SkipDeletedStep, CopyToSpareStep, CopyToNextSpareStep, RegionDoneStep,
         FinishCompressStep DEF CompressStep
    <2>3. ASSUME UNCHANGED dbVars
          PROVE  DBIInv'
      BY <2>3 DEF dbVars, compressVars, DBIInv, IdleRight, CompressRight
    <2> QED
      BY <2>1, <2>2, <2>3 DEF Next
  <1> QED
    BY <1>1, <1>2, PTL DEF Spec

(* Every region there is, is in order.                                     *)
LEMMA AllRegionsGood ==
  ASSUME DBIInv
  PROVE  \A r \in Regions : r \in GoodRegions(created)
  <1> SUFFICES ASSUME NEW r \in Regions
               PROVE  r \in GoodRegions(created)
    OBVIOUS
  <1>1. /\ created \in Nat /\ active \in Seq(GoodRegions(created))
        /\ spares \in Seq({EmptyRegion}) /\ spare \in GoodRegions(created)
    BY SizesAssumption DEF DBIInv
  <1>2. CASE r \in ToSet(active)
    <2>1. PICK i \in DOMAIN active : r = active[i]
      BY <1>2 DEF ToSet
    <2> QED
      BY <1>1, <2>1, LenProperties, ElementOfSeq
  <1>3. CASE r \in ToSet(spares)
    <2>1. PICK i \in DOMAIN spares : r = spares[i]
      BY <1>3 DEF ToSet
    <2>2. r \in {EmptyRegion}
      BY <1>1, <2>1, LenProperties, ElementOfSeq
    <2> QED
      BY <1>1, <2>2, EmptyGood
  <1> QED
    BY <1>1, <1>2, <1>3 DEF Regions

(* The regions, the clauses in them and the variables of compress() have   *)
(* their types: no clause has grown, and no region is used beyond its size *)
(* (IterableClauseDB.h:245-330).                                           *)
THEOREM DBTypeCorrect == Spec => []DBTypeOK
  <1>1. DBIInv => DBTypeOK
    <2> SUFFICES ASSUME DBIInv
                 PROVE  DBTypeOK
      OBVIOUS
    <2>1. /\ created \in 0 .. MaxClauses /\ created \in Nat /\ pc \in {"idle", "compress"}
          /\ active \in Seq(GoodRegions(created)) /\ Len(active) \in Nat /\ RegionSize \in Nat \ {0}
          /\ pc = "idle" => IdleRight
          /\ pc = "compress" => CompressRight
      BY SizesAssumption, LenProperties DEF DBIInv
    <2>2. /\ swapIn \in 0 .. Len(active) /\ idx \in 0 .. Len(active) + 1
          /\ pos \in -1 .. RegionSize - 1
      <3>1. CASE pc = "idle"
        BY <2>1, <3>1 DEF IdleRight, End
      <3>2. CASE pc = "compress"
        <4>1. /\ swapIn \in 1 .. Len(active) /\ idx \in swapIn .. Len(active) + 1
              /\ pos = End \/ pos \in 0 .. RegionSize - 1
          BY <2>1, <3>2 DEF CompressRight, Places
        <4> QED
          BY <2>1, <4>1 DEF End
      <3> QED
        BY <2>1, <3>1, <3>2
    <2>3. ASSUME NEW r \in Regions
          PROVE  RegionType(r)
      <3>1. r \in GoodRegions(created)
        BY <2>3, AllRegionsGood
      <3>2. /\ r.used \in 0 .. RegionSize
            /\ r.mem \in [0 .. RegionSize - 1 -> Clauses(created) \cup {Nothing}]
        BY <3>1 DEF GoodRegions, RegionTypes
      <3>3. ASSUME NEW o \in 0 .. RegionSize - 1, r.mem[o] # Nothing
            PROVE  ClauseType(r.mem[o])
        <4>1. r.mem[o] \in Clauses(created)
          BY <3>2, <3>3
        <4>2. r.mem[o].len <= r.mem[o].initial
          BY <3>1, <3>3 DEF GoodRegions, Chained, Places
        <4> QED
          BY <4>1, <4>2 DEF ClauseType, Clauses
      <3> QED
        BY <3>2, <3>3 DEF RegionType
    <2> QED
      BY <2>1, <2>2, <2>3 DEF DBTypeOK
  <1> QED
    BY <1>1, DBInvariant, PTL

(* Iterating over a region visits exactly the clauses that are in it, and  *)
(* ends: also after clauses have been shortened, and in the middle of a    *)
(* compaction (IterableClauseDB.h:484-512).                                *)
THEOREM IterationIsExact == Spec => []IterationExact
  <1>1. DBIInv => IterationExact
    <2> SUFFICES ASSUME DBIInv, NEW r \in Regions
                 PROVE  ToSet(Offsets(r)) = {o \in DOMAIN r.mem : IsClauseAt(r, o)}
      BY DEF IterationExact
    <2>1. GoodRegion(r, created)
      BY AllRegionsGood DEF GoodRegion
    <2>2. ToSet(Offsets(r)) = Places(r)
      BY <2>1, OffsetsExact
    <2>3. DOMAIN r.mem = 0 .. RegionSize - 1 /\ \A o : IsClauseAt(r, o) <=> o \in Places(r)
      BY <2>1, RegionFacts
    <2>4. Places(r) = {o \in DOMAIN r.mem : IsClauseAt(r, o)}
      BY <2>3 DEF Places
    <2> QED
      BY <2>2, <2>4
  <1> QED
    BY <1>1, DBInvariant, PTL

(* compress() always finds a place for the clause it copies, so that the   *)
(* result of its second allocation needs no test                           *)
(* (IterableClauseDB.h:633-661).                                           *)
THEOREM CopiesAlwaysFit == Spec => []CopiesFit
  <1>1. DBIInv => CopiesFit
    <2> SUFFICES ASSUME DBIInv
                 PROVE  CopiesFit
      OBVIOUS
    <2>1. pc # "crash"
      BY DEF DBIInv
    <2>2. ASSUME Visiting, swapIn >= idx
          PROVE  swapIn = idx /\ Free(spare) >= active[idx].used - pos
      <3>1. PICK w, i, o, u, a : w = swapIn /\ i = idx /\ o = pos /\ u = spare.used /\ a = active[idx].used
        OBVIOUS
      <3>2. w \in Nat /\ i \in w .. Len(active) /\ Len(active) \in Nat
        BY <2>2, <3>1, WhileVisiting
      <3>3. w = i
        BY <2>2, <3>1, <3>2
      <3>4. u <= o
        BY <2>2, <3>1, <3>3, WhileVisiting
      <3>5. u \in Nat /\ o \in Nat /\ a \in 0 .. RegionSize /\ RegionSize \in Nat
        BY <2>2, <3>1, WhileVisiting, SizesAssumption DEF GoodRegions, RegionTypes, Places
      <3>6. RegionSize - u >= a - o
        BY <3>4, <3>5
      <3> QED
        BY <3>1, <3>3, <3>6 DEF Free
    <2> QED
      BY <2>1, <2>2 DEF CopiesFit
  <1> QED
    BY <1>1, DBInvariant, PTL

(* There is a spare region whenever compress() may begin, also after       *)
(* allocations that failed, and spare regions are empty                    *)
(* (IterableClauseDB.h:626-631).                                           *)
THEOREM SpareAlwaysAvailable == Spec => []SpareAvailable
  <1>1. DBIInv => SpareAvailable
    <2> SUFFICES ASSUME DBIInv
                 PROVE  SpareAvailable
      OBVIOUS
    <2>1. pc = "idle" /\ active # <<>> => spares # <<>>
      BY DEF DBIInv, IdleRight
    <2>2. \A i \in DOMAIN spares : spares[i] = EmptyRegion
      BY LenProperties, ElementOfSeq DEF DBIInv
    <2> QED
      BY <2>1, <2>2 DEF SpareAvailable
  <1> QED
    BY <1>1, DBInvariant, PTL

----------------------------------------------------------------------------
(* Sequences put one after the other: what ClausesOfAll and Kept compute.  *)

(* Sequences, one for each index, put one after the other.                 *)
Joined(g, n) ==
  LET upTo[i \in 0 .. n] == IF i = 0 THEN <<>> ELSE upTo[i - 1] \o g[i]
  IN upTo[n]

(* f joins the first i sequences for every i up to n.                      *)
Joins(f, g, n) == f[0] = <<>> /\ \A i \in 1 .. n : f[i] = f[i - 1] \o g[i]

(* The recursive function that Joined chooses exists ...                   *)
LEMMA JoinedExists ==
  ASSUME NEW S, NEW n \in Nat, NEW g, \A i \in 1 .. n : g[i] \in Seq(S)
  PROVE  \E f \in [0 .. n -> Seq(S)] : Joins(f, g, n)
  <1> DEFINE D == 0 .. n
             K == {k \in Nat : k <= n => \E f \in [D -> Seq(S)] : Joins(f, g, k)}
  <1>1. 0 \in K
    <2>1. [i \in D |-> <<>>] \in [D -> Seq(S)]
      OBVIOUS
    <2>2. Joins([i \in D |-> <<>>], g, 0)
      BY DEF Joins
    <2> QED
      BY <2>1, <2>2
  <1>2. ASSUME NEW k \in Nat, k \in K
        PROVE  k + 1 \in K
    <2> SUFFICES ASSUME k + 1 <= n
                 PROVE  \E f \in [D -> Seq(S)] : Joins(f, g, k + 1)
      OBVIOUS
    <2>1. PICK f \in [D -> Seq(S)] : Joins(f, g, k)
      BY <1>2
    <2>2. PICK j \in 1 .. n : j = k + 1 /\ j - 1 = k
      OBVIOUS
    <2>3. f[k] \o g[j] \in Seq(S)
      <3>1. f[k] \in Seq(S) /\ g[j] \in Seq(S)
        BY <2>1, <2>2
      <3> QED
        BY <3>1, ConcatProperties
    <2> DEFINE h == [f EXCEPT ![j] = f[k] \o g[j]]
    <2>4. h \in [D -> Seq(S)] /\ h[j] = f[k] \o g[j] /\ \A i \in D : i # j => h[i] = f[i]
      <3>1. j \in D /\ f \in [D -> Seq(S)]
        BY <2>1, <2>2
      <3>2. PICK x \in Seq(S) : x = f[k] \o g[j]
        BY <2>3
      <3>3. h = [f EXCEPT ![j] = x]
        BY <3>2
      <3> HIDE DEF h
      <3> QED
        BY <3>1, <3>2, <3>3
    <2> HIDE DEF h
    <2>5. h[0] = <<>>
      BY <2>1, <2>2, <2>4 DEF Joins
    <2>6. ASSUME NEW i \in 1 .. k + 1
          PROVE  h[i] = h[i - 1] \o g[i]
      <3>1. i - 1 \in D /\ i - 1 # j /\ h[i - 1] = f[i - 1]
        BY <2>2, <2>4
      <3>2. CASE i = j
        BY <2>2, <2>4, <3>1, <3>2
      <3>3. CASE i # j
        <4>1. i \in 1 .. k /\ i \in D
          BY <2>2, <3>3
        <4> QED
          BY <2>1, <2>4, <3>1, <3>3, <4>1 DEF Joins
      <3> QED
        BY <3>2, <3>3
    <2> QED
      BY <2>4, <2>5, <2>6 DEF Joins
  <1>3. n \in K
    <2> HIDE DEF K
    <2> QED
      BY <1>1, <1>2, Induction
  <1> QED
    BY <1>3

(* ... is determined by what it joins ...                                  *)
LEMMA JoinsUnique ==
  ASSUME NEW S, NEW n \in Nat, NEW g, \A i \in 1 .. n : g[i] \in Seq(S),
         NEW f, Joins(f, g, n), NEW h, Joins(h, g, n)
  PROVE  \A i \in 0 .. n : f[i] = h[i] /\ f[i] \in Seq(S)
  <1> DEFINE K == {i \in Nat : i <= n => f[i] = h[i] /\ f[i] \in Seq(S)}
  <1>1. 0 \in K
    <2>1. <<>> \in Seq(S)
      OBVIOUS
    <2> QED
      BY <2>1 DEF Joins
  <1>2. ASSUME NEW k \in Nat, k \in K
        PROVE  k + 1 \in K
    <2> SUFFICES ASSUME k + 1 <= n
                 PROVE  f[k + 1] = h[k + 1] /\ f[k + 1] \in Seq(S)
      OBVIOUS
    <2>1. PICK j \in 1 .. n : j = k + 1 /\ j - 1 = k
      OBVIOUS
    <2>2. f[k] = h[k] /\ f[k] \in Seq(S) /\ g[j] \in Seq(S)
      BY <1>2, <2>1
    <2>3. f[j] = f[k] \o g[j] /\ h[j] = h[k] \o g[j]
      BY <2>1 DEF Joins
    <2>4. f[k] \o g[j] \in Seq(S)
      BY <2>2, ConcatProperties
    <2> QED
      BY <2>1, <2>2, <2>3, <2>4
  <1> HIDE DEF K
  <1>3. \A i \in Nat : i \in K
    BY <1>1, <1>2, Induction
  <1> QED
    BY <1>3 DEF K

(* ... and is Joined: by induction on the index, the set of indices for    *)
(* which a function exists being all of Nat.                               *)
LEMMA JoinedIs ==
  ASSUME NEW S, NEW n \in Nat, NEW g, \A i \in 1 .. n : g[i] \in Seq(S),
         NEW h, Joins(h, g, n)
  PROVE  Joined(g, n) = h[n] /\ h[n] \in Seq(S)
  <1>1. PICK f \in [0 .. n -> Seq(S)] : Joins(f, g, n)
    BY JoinedExists
  <1> DEFINE upTo == CHOOSE u : u = [i \in 0 .. n |-> IF i = 0 THEN <<>> ELSE u[i - 1] \o g[i]]
  <1>2. f = [i \in 0 .. n |-> IF i = 0 THEN <<>> ELSE f[i - 1] \o g[i]]
    <2>1. \A i \in 0 .. n : f[i] = IF i = 0 THEN <<>> ELSE f[i - 1] \o g[i]
      <3>1. \A i \in 0 .. n : i # 0 => i \in 1 .. n
        OBVIOUS
      <3> QED
        BY <1>1, <3>1 DEF Joins
    <2> QED
      BY <1>1, <2>1
  <1>3. upTo = [i \in 0 .. n |-> IF i = 0 THEN <<>> ELSE upTo[i - 1] \o g[i]]
    BY <1>2
  <1>4. Joined(g, n) = upTo[n]
    BY DEF Joined
  <1> HIDE DEF upTo
  <1>5. Joins(upTo, g, n)
    <2>1. \A i \in 0 .. n : upTo[i] = IF i = 0 THEN <<>> ELSE upTo[i - 1] \o g[i]
      BY <1>3
    <2>2. 0 \in 0 .. n /\ \A i \in 1 .. n : i \in 0 .. n /\ i # 0
      OBVIOUS
    <2> QED
      BY <2>1, <2>2 DEF Joins
  <1>6. n \in 0 .. n
    OBVIOUS
  <1>7. upTo[n] = h[n] /\ upTo[n] \in Seq(S)
    BY <1>5, <1>6, JoinsUnique
  <1> QED
    BY <1>4, <1>7

(* What Joined does at 0, at 1 and from one index to the next.             *)
LEMMA JoinedSteps ==
  ASSUME NEW S, NEW n \in Nat, NEW g, \A i \in 1 .. n : g[i] \in Seq(S)
  PROVE  /\ Joined(g, 0) = <<>>
         /\ Joined(g, n) \in Seq(S)
         /\ n # 0 => Joined(g, n) = Joined(g, n - 1) \o g[n]
  <1>1. PICK f \in [0 .. n -> Seq(S)] : Joins(f, g, n)
    BY JoinedExists
  <1>2. Joined(g, n) = f[n] /\ f[n] \in Seq(S)
    BY <1>1, JoinedIs
  <1>3. Joined(g, 0) = <<>>
    <2>1. Joins(f, g, 0) /\ \A i \in 1 .. 0 : g[i] \in Seq(S)
      BY <1>1 DEF Joins
    <2>2. Joined(g, 0) = f[0]
      BY <2>1, JoinedIs
    <2> QED
      BY <2>1, <2>2 DEF Joins
  <1>4. ASSUME n # 0
        PROVE  Joined(g, n) = Joined(g, n - 1) \o g[n]
    <2>1. PICK k \in Nat : k = n - 1 /\ n \in 1 .. n /\ \A i \in 1 .. k : i \in 1 .. n
      BY <1>4
    <2>2. Joins(f, g, k) /\ \A i \in 1 .. k : g[i] \in Seq(S)
      BY <1>1, <2>1 DEF Joins
    <2>3. Joined(g, k) = f[k]
      BY <2>2, JoinedIs
    <2> QED
      BY <1>1, <1>2, <2>1, <2>3 DEF Joins
  <1> QED
    BY <1>2, <1>3, <1>4

LEMMA JoinedSame ==
  ASSUME NEW S, NEW n \in Nat, NEW g, \A i \in 1 .. n : g[i] \in Seq(S),
         NEW h, \A i \in 1 .. n : h[i] = g[i]
  PROVE  Joined(h, n) = Joined(g, n)
  <1>1. PICK f \in [0 .. n -> Seq(S)] : Joins(f, g, n)
    BY JoinedExists
  <1>2. Joins(f, h, n) /\ \A i \in 1 .. n : h[i] \in Seq(S)
    BY <1>1 DEF Joins
  <1>3. Joined(g, n) = f[n]
    BY <1>1, JoinedIs
  <1>4. Joined(h, n) = f[n]
    BY <1>2, JoinedIs
  <1> QED
    BY <1>3, <1>4

(* h is g from index m on.                                                 *)
Shifted(g, h, m, l) == \A i \in 1 .. l - m : h[i] = g[m + i]

(* Joining the first m and then the others is joining all.                 *)
LEMMA JoinedConcat ==
  ASSUME NEW S, NEW l \in Nat, NEW m \in 0 .. l,
         NEW g \in [1 .. l -> Seq(S)],
         NEW h, Shifted(g, h, m, l)
  PROVE  Joined(g, l) = Joined(g, m) \o Joined(h, l - m)
  <1>1. PICK n \in Nat : n = l - m /\ l = m + n /\ m \in Nat
    OBVIOUS
  <1> USE <1>1 DEF Shifted
  <1> DEFINE K == {k \in Nat : k <= n => Joined(g, m + k) = Joined(g, m) \o Joined(h, k)}
  <1>2. Joined(g, m) \in Seq(S)
    <2>1. \A i \in 1 .. m : g[i] \in Seq(S)
      OBVIOUS
    <2> QED
      BY <2>1, JoinedSteps
  <1>3. 0 \in K
    <2>1. Joined(h, 0) = <<>> 
      <3>1. \A i \in 1 .. 0 : h[i] \in Seq(S)
        OBVIOUS
      <3> QED
        BY <3>1, JoinedSteps
    <2>2. Joined(g, m) \o <<>> = Joined(g, m)
      BY <1>2, ConcatEmptySeq
    <2>3. m + 0 = m
      OBVIOUS
    <2> QED
      BY <2>1, <2>2, <2>3
  <1>4. ASSUME NEW k \in Nat, k \in K
        PROVE  k + 1 \in K
    <2> SUFFICES ASSUME k + 1 <= n
                 PROVE  Joined(g, m + (k + 1)) = Joined(g, m) \o Joined(h, k + 1)
      OBVIOUS
    <2>1. PICK j \in Nat, p \in Nat : /\ j = k + 1 /\ p = m + k /\ p + 1 = m + j
                                      /\ j - 1 = k /\ (p + 1) - 1 = p /\ j \in 1 .. n
                                      /\ j # 0 /\ p + 1 # 0 /\ p + 1 \in 1 .. m + n
      OBVIOUS
    <2>2. /\ \A i \in 1 .. p + 1 : g[i] \in Seq(S)
          /\ \A i \in 1 .. j : h[i] \in Seq(S)
          /\ \A i \in 1 .. k : h[i] \in Seq(S)
      <3>1. \A i \in 1 .. j : m + i \in 1 .. m + n /\ i \in 1 .. n
        BY <2>1
      <3>2. \A i \in 1 .. j : h[i] \in Seq(S)
        BY <3>1
      <3> QED
        BY <2>1, <3>2
    <2>3. Joined(g, p + 1) = Joined(g, p) \o g[p + 1]
      <3>1. PICK q \in Nat : q = p + 1 /\ q # 0 /\ q - 1 = p
        BY <2>1
      <3>2. \A i \in 1 .. q : g[i] \in Seq(S)
        BY <2>2, <3>1
      <3>3. Joined(g, q) = Joined(g, q - 1) \o g[q]
        BY <3>1, <3>2, JoinedSteps
      <3> QED
        BY <3>1, <3>3
    <2>4. Joined(h, j) = Joined(h, k) \o h[j] /\ h[j] = g[p + 1] /\ h[j] \in Seq(S)
      <3>1. Joined(h, j) = Joined(h, j - 1) \o h[j]
        BY <2>1, <2>2, JoinedSteps
      <3>2. h[j] = g[m + j] /\ m + j = p + 1
        BY <2>1
      <3>3. h[j] \in Seq(S)
        BY <2>1, <2>2
      <3> QED
        BY <2>1, <3>1, <3>2, <3>3
    <2>5. Joined(h, k) \in Seq(S)
      BY <2>2, JoinedSteps
    <2>6. Joined(g, p) = Joined(g, m) \o Joined(h, k)
      <3>1. k <= n
        OBVIOUS
      <3> QED
        BY <1>4, <2>1, <3>1
    <2>7. (Joined(g, m) \o Joined(h, k)) \o h[j] = Joined(g, m) \o (Joined(h, k) \o h[j])
      <3>1. PICK a \in Seq(S), b \in Seq(S), c \in Seq(S) :
              a = Joined(g, m) /\ b = Joined(h, k) /\ c = h[j]
        BY <1>2, <2>4, <2>5
      <3>2. (a \o b) \o c = a \o (b \o c)
        BY ConcatAssociative
      <3> QED
        BY <3>1, <3>2
    <2> QED
      BY <2>1, <2>3, <2>4, <2>6, <2>7
  <1> HIDE DEF K
  <1>5. \A k \in Nat : k \in K
    BY <1>3, <1>4, Induction
  <1>6. n \in K
    BY <1>5
  <1> QED
    BY <1>6 DEF K

----------------------------------------------------------------------------
(* The clauses of one region.                                              *)

(* The clauses of a region, as a client sees them.                         *)
Views(m) == [id : 1 .. m, len : Lengths, deleted : BOOLEAN]

(* What holds at a place when it holds at the next one, holds at all.      *)
LEMMA WalkInduction ==
  ASSUME NEW r, NEW m, GoodRegion(r, m), NEW T,
         \A o \in Places(r) : (NextClause(r, o) = End \/ NextClause(r, o) \in T) => o \in T
  PROVE  \A o \in Places(r) : o \in T
  <1> DEFINE K == {k \in Nat : \A o \in Places(r) : o >= RegionSize - k => o \in T}
  <1>1. RegionSize \in Nat \ {0} /\ Places(r) \in SUBSET (0 .. RegionSize - 1)
    BY RegionFacts
  <1>2. 0 \in K
    BY <1>1
  <1>3. ASSUME NEW k \in Nat, k \in K
        PROVE  k + 1 \in K
    <2> SUFFICES ASSUME NEW o \in Places(r), o >= RegionSize - (k + 1)
                 PROVE  o \in T
      OBVIOUS
    <2>1. CASE NextClause(r, o) = End
      BY <2>1
    <2>2. CASE NextClause(r, o) # End
      <3>1. PICK e \in Nat \ {0} : e = Extent(r.mem[o])
        BY RegionFacts
      <3>2. NextClause(r, o) = o + e /\ NextClause(r, o) \in Places(r)
        BY <2>2, <3>1, RegionFacts
      <3>3. o + e >= RegionSize - k
        BY <1>1, <3>1
      <3>4. NextClause(r, o) \in T
        BY <1>3, <3>2, <3>3
      <3> QED
        BY <3>4
    <2> QED
      BY <2>1, <2>2
  <1>4. RegionSize \in K
    <2> HIDE DEF K
    <2>1. \A k \in Nat : k \in K
      BY <1>2, <1>3, Induction
    <2> QED
      BY <1>1, <2>1
  <1> QED
    BY <1>1, <1>4

LEMMA ViewOf ==
  ASSUME NEW m, NEW c \in Clauses(m)
  PROVE  /\ Seen(c) \in Views(m) /\ Seen(c).id = c.id /\ Seen(c).len = c.len
         /\ Seen(c).deleted = c.deleted
  BY DEF Clauses, Views, Seen

(* The walk from a place: nothing at the end, the clause and then the walk *)
(* from the next place elsewhere.                                          *)
LEMMA ClausesFromFacts ==
  ASSUME NEW r, NEW m, GoodRegion(r, m)
  PROVE  /\ ClausesFrom(r, End) = <<>>
         /\ \A o \in Places(r) :
              /\ ClausesFrom(r, o) = <<Seen(r.mem[o])>> \o ClausesFrom(r, NextClause(r, o))
              /\ ClausesFrom(r, o) \in Seq(Views(m))
              /\ ClausesFrom(r, NextClause(r, o)) \in Seq(Views(m))
  <1> DEFINE v == [o \in -1 .. 2 * RegionSize |-> Seen(r.mem[o])]
  <1>1. /\ RegionSize \in Nat \ {0} /\ Places(r) \in SUBSET (0 .. RegionSize - 1)
        /\ \A o : IsClauseAt(r, o) <=> o \in Places(r)
        /\ \A o \in Places(r) : r.mem[o] \in Clauses(m)
    BY RegionFacts
  <1>2. \A o \in -1 .. 2 * RegionSize : v[o] = Seen(r.mem[o])
    OBVIOUS
  <1> HIDE DEF v
  <1>3. \A o \in Places(r) : o \in -1 .. 2 * RegionSize /\ v[o] \in Views(m)
    BY <1>1, <1>2, ViewOf
  <1>4. PICK h \in [-1 .. 2 * RegionSize -> Seq(Views(m))] :
          \A o \in -1 .. 2 * RegionSize : h[o] = WalkStep(r, v, h, o)
    BY <1>3, WalkExists
  <1> DEFINE walk == CHOOSE f : f = [o \in -1 .. 2 * RegionSize |->
                       IF ~IsClauseAt(r, o) THEN <<>>
                       ELSE <<Seen(r.mem[o])>> \o f[NextClause(r, o)]]
  <1>5. h = [o \in -1 .. 2 * RegionSize |->
               IF ~IsClauseAt(r, o) THEN <<>>
               ELSE <<Seen(r.mem[o])>> \o h[NextClause(r, o)]]
    BY <1>2, <1>4 DEF WalkStep
  <1>6. walk = [o \in -1 .. 2 * RegionSize |->
                  IF ~IsClauseAt(r, o) THEN <<>>
                  ELSE <<Seen(r.mem[o])>> \o walk[NextClause(r, o)]]
    BY <1>5
  <1>7. \A start : ClausesFrom(r, start) = walk[start]
    BY DEF ClausesFrom
  <1>8. \A o \in -1 .. 2 * RegionSize :
          walk[o] = IF ~IsClauseAt(r, o) THEN <<>>
                    ELSE <<Seen(r.mem[o])>> \o walk[NextClause(r, o)]
    BY <1>6
  <1> HIDE DEF walk
  <1>9. ClausesFrom(r, End) = <<>>
    <2>1. End \in -1 .. 2 * RegionSize /\ End \notin Places(r)
      BY <1>1 DEF End
    <2> QED
      BY <1>1, <1>7, <1>8, <2>1
  <1>10. \A o \in Places(r) :
           ClausesFrom(r, o) = <<Seen(r.mem[o])>> \o ClausesFrom(r, NextClause(r, o))
    BY <1>1, <1>3, <1>7, <1>8
  <1> DEFINE T == {o \in Places(r) : ClausesFrom(r, o) \in Seq(Views(m))}
  <1>11. ASSUME NEW o \in Places(r), NextClause(r, o) = End \/ NextClause(r, o) \in T
         PROVE  o \in T
    <2>1. ClausesFrom(r, NextClause(r, o)) \in Seq(Views(m))
      <3>1. <<>> \in Seq(Views(m))
        OBVIOUS
      <3> QED
        BY <1>9, <1>11, <3>1
    <2>2. PICK t \in Seq(Views(m)), x \in Views(m) :
            t = ClausesFrom(r, NextClause(r, o)) /\ x = Seen(r.mem[o])
      BY <1>1, <2>1, ViewOf
    <2>3. <<x>> \o t \in Seq(Views(m))
      OBVIOUS
    <2> QED
      BY <1>10, <2>2, <2>3
  <1>12. \A o \in Places(r) : o \in T
    <2> HIDE DEF T
    <2> QED
      BY <1>11, WalkInduction
  <1>13. \A o \in Places(r) : ClausesFrom(r, NextClause(r, o)) \in Seq(Views(m))
    <2> SUFFICES ASSUME NEW o \in Places(r)
                 PROVE  ClausesFrom(r, NextClause(r, o)) \in Seq(Views(m))
      OBVIOUS
    <2>1. NextClause(r, o) = End \/ NextClause(r, o) \in Places(r)
      BY RegionFacts
    <2>2. <<>> \in Seq(Views(m))
      OBVIOUS
    <2> QED
      BY <1>9, <1>12, <2>1, <2>2
  <1> QED
    BY <1>9, <1>10, <1>12, <1>13

LEMMA ClausesOfType ==
  ASSUME NEW m, NEW r \in GoodRegions(m)
  PROVE  /\ ClausesOf(r) \in Seq(Views(m))
         /\ r.used = 0 => ClausesOf(r) = <<>>
         /\ r.used # 0 => ClausesOf(r) = ClausesFrom(r, 0)
  <1>1. GoodRegion(r, m)
    BY DEF GoodRegion
  <1>2. CASE r.used = 0
    <2>1. ClausesOf(r) = <<>> /\ <<>> \in Seq(Views(m))
      BY <1>1, <1>2, ClausesFromFacts DEF ClausesOf, FirstClause
    <2> QED
      BY <1>2, <2>1
  <1>3. CASE r.used # 0
    <2>1. 0 \in Places(r) /\ ClausesOf(r) = ClausesFrom(r, 0)
      BY <1>3 DEF GoodRegions, Chained, ClausesOf, FirstClause
    <2>2. ClausesFrom(r, 0) \in Seq(Views(m))
      BY <1>1, <2>1, ClausesFromFacts
    <2> QED
      BY <1>3, <2>1, <2>2
  <1> QED
    BY <1>2, <1>3

(* Allocation puts a clause behind those of the region.                    *)
LEMMA AllocatedClauses ==
  ASSUME NEW m \in Nat, NEW r \in GoodRegions(m), NEW c \in Clauses(m),
         c.len = c.initial, Fits(r, c.len)
  PROVE  ClausesOf(Allocated(r, c)) = Append(ClausesOf(r), Seen(c))
  <1>1. PICK q : q = Allocated(r, c)
    OBVIOUS
  <1>2. PICK u, e : u = r.used /\ e = Extent(c)
    OBVIOUS
  <1>3. q \in GoodRegions(m) /\ GoodRegion(q, m) /\ GoodRegion(r, m)
    BY <1>1, AllocatedGood DEF GoodRegion
  <1>4. /\ q.used = u + e /\ q.mem = [r.mem EXCEPT ![u] = c]
    BY <1>1, <1>2 DEF Allocated
  <1>5. /\ RegionSize \in Nat \ {0} /\ u \in 0 .. RegionSize /\ u + e \in 0 .. RegionSize
        /\ e \in Nat \ {0} /\ DOMAIN r.mem = 0 .. RegionSize - 1
        /\ u \in 0 .. RegionSize - 1
    <2>1. /\ RegionSize \in Nat \ {0} /\ u \in 0 .. RegionSize
          /\ DOMAIN r.mem = 0 .. RegionSize - 1
      BY <1>2, <1>3, RegionFacts
    <2>2. u + e \in 0 .. RegionSize
      BY <1>3, <1>4, RegionFacts
    <2>3. e \in Nat \ {0}
      BY <1>2, AllocationSizes DEF Clauses, Extent
    <2> QED
      BY <2>1, <2>2, <2>3
  <1>6. q.mem[u] = c /\ \A o \in 0 .. RegionSize - 1 : o # u => q.mem[o] = r.mem[o]
    BY <1>4, <1>5
  <1>7. u \in Places(q)
    BY <1>5, <1>6, ClauseIsThere DEF Places
  <1>8. NextClause(q, u) = End
    <2>1. u + Extent(q.mem[u]) = q.used
      BY <1>2, <1>4, <1>6
    <2> QED
      BY <1>3, <1>7, <2>1, RegionFacts
  <1>9. ClausesFrom(q, u) = <<Seen(c)>>
    <2>1. ClausesFrom(q, u) = <<Seen(c)>> \o <<>>
      BY <1>3, <1>6, <1>7, <1>8, ClausesFromFacts
    <2>2. PICK x \in Views(m) : x = Seen(c)
      BY ViewOf
    <2>3. <<x>> \o <<>> = <<x>>
      OBVIOUS
    <2> QED
      BY <2>1, <2>2, <2>3
  <1>10. ASSUME NEW o \in Places(r)
         PROVE  /\ o \in Places(q) /\ q.mem[o] = r.mem[o] /\ o # u
                /\ NextClause(r, o) = End => NextClause(q, o) = u
                /\ NextClause(r, o) # End => NextClause(q, o) = NextClause(r, o)
    <2>1. PICK x \in Nat \ {0} : x = Extent(r.mem[o]) /\ o + x <= u
      BY <1>2, <1>3, RegionFacts
    <2>2. o \in 0 .. RegionSize - 1 /\ o # u
      BY <1>5, <2>1 DEF Places
    <2>3. o \in Places(q) /\ q.mem[o] = r.mem[o]
      BY <1>6, <2>2 DEF Places
    <2>4. o + x # u + e
      BY <1>5, <2>1, <2>2
    <2>5. NextClause(q, o) = o + x
      <3>1. Extent(q.mem[o]) = x
        BY <2>1, <2>3
      <3> QED
        BY <1>3, <1>4, <2>3, <2>4, <3>1, RegionFacts
    <2>6. /\ NextClause(r, o) = End <=> o + x = u
          /\ NextClause(r, o) # End => NextClause(r, o) = o + x
      BY <1>2, <1>3, <2>1, RegionFacts
    <2> QED
      BY <2>2, <2>3, <2>5, <2>6
  <1> DEFINE T == {o \in Places(r) : ClausesFrom(q, o) = Append(ClausesFrom(r, o), Seen(c))}
  <1>11. ASSUME NEW o \in Places(r), NextClause(r, o) = End \/ NextClause(r, o) \in T
         PROVE  o \in T
    <2>1. PICK x \in Views(m), t \in Seq(Views(m)), y \in Views(m) :
            x = Seen(r.mem[o]) /\ t = ClausesFrom(r, NextClause(r, o)) /\ y = Seen(c)
      <3>1. r.mem[o] \in Clauses(m) /\ ClausesFrom(r, NextClause(r, o)) \in Seq(Views(m))
        BY <1>3, RegionFacts, ClausesFromFacts
      <3> QED
        BY <3>1, ViewOf
    <2>2. ClausesFrom(r, o) = <<x>> \o t
      BY <1>3, <2>1, ClausesFromFacts
    <2>3. ClausesFrom(q, NextClause(q, o)) = Append(t, y)
      <3>1. CASE NextClause(r, o) = End
        <4>1. t = <<>> /\ ClausesFrom(q, NextClause(q, o)) = <<y>>
          BY <1>3, <1>9, <1>10, <2>1, <3>1, ClausesFromFacts
        <4>2. Append(<<>>, y) = <<y>>
          OBVIOUS
        <4> QED
          BY <4>1, <4>2
      <3>2. CASE NextClause(r, o) # End
        BY <1>10, <1>11, <2>1, <3>2
      <3> QED
        BY <3>1, <3>2
    <2>4. ClausesFrom(q, o) = <<x>> \o Append(t, y)
      BY <1>3, <1>10, <2>1, <2>3, ClausesFromFacts
    <2>5. <<x>> \o Append(t, y) = Append(<<x>> \o t, y)
      <3>1. PICK a \in Seq(Views(m)), b \in Seq(Views(m)) : a = <<x>> /\ b = <<y>>
        <4>1. \A z \in Views(m) : <<z>> \in Seq(Views(m))
          OBVIOUS
        <4> QED
          BY <4>1
      <3>2. (a \o t) \o b = a \o (t \o b)
        BY ConcatAssociative
      <3>3. Append(t, y) = t \o b
        BY <3>1, AppendIsConcat
      <3>4. a \o t \in Seq(Views(m))
        BY ConcatProperties
      <3>5. Append(a \o t, y) = (a \o t) \o b
        BY <3>1, <3>4, AppendIsConcat
      <3> QED
        BY <3>1, <3>2, <3>3, <3>5
    <2> QED
      BY <2>1, <2>2, <2>4, <2>5
  <1>12. \A o \in Places(r) : o \in T
    <2> HIDE DEF T
    <2> QED
      BY <1>3, <1>11, WalkInduction
  <1>13. q.used # 0 /\ ClausesOf(q) = ClausesFrom(q, 0)
    BY <1>3, <1>4, <1>5, ClausesOfType
  <1>14. CASE u = 0
    <2>1. ClausesOf(r) = <<>>
      BY <1>2, <1>14, ClausesOfType
    <2>2. PICK x : x = Seen(c)
      OBVIOUS
    <2>3. Append(<<>>, x) = <<x>>
      OBVIOUS
    <2> QED
      BY <1>1, <1>9, <1>13, <1>14, <2>1, <2>2, <2>3
  <1>15. CASE u # 0
    <2>1. 0 \in Places(r)
      BY <1>2, <1>15 DEF GoodRegions, Chained
    <2>2. ClausesOf(r) = ClausesFrom(r, 0)
      BY <1>2, <1>15, ClausesOfType
    <2> QED
      BY <1>1, <1>12, <1>13, <2>1, <2>2
  <1> QED
    BY <1>14, <1>15

----------------------------------------------------------------------------
(* Changes of clauses, and the clauses of several regions.                 *)

LEMMA ChangedSame ==
  ASSUME NEW m, NEW a \in Seq(Views(m))
  PROVE  Store!Changed(a, a)
  <1>1. DOMAIN a = 1 .. Len(a) /\ \A i \in DOMAIN a : a[i].len \in Nat
    <2>1. DOMAIN a = 1 .. Len(a)
      BY LenProperties
    <2>2. \A i \in DOMAIN a : a[i] \in Views(m)
      BY <2>1, ElementOfSeq
    <2> QED
      BY <2>1, <2>2, SizesAssumption DEF Views
  <1>2. \A i \in DOMAIN a : a[i].len <= a[i].len
    BY <1>1
  <1> QED
    BY <1>2 DEF Store!Changed

(* Changes of two parts are a change of the whole.                         *)
LEMMA ChangedConcat ==
  ASSUME NEW S, NEW a \in Seq(S), NEW b \in Seq(S), NEW x \in Seq(S), NEW y \in Seq(S),
         Store!Changed(a, b), Store!Changed(x, y)
  PROVE  Store!Changed(a \o x, b \o y)
  <1>1. PICK k \in Nat, n \in Nat : /\ k = Len(a) /\ n = Len(x)
                                    /\ DOMAIN a = 1 .. k /\ DOMAIN x = 1 .. n
                                    /\ DOMAIN b = 1 .. k /\ DOMAIN y = 1 .. n
    BY LenProperties DEF Store!Changed
  <1>2. Len(b) = k /\ Len(y) = n
    <2>1. /\ Len(b) \in Nat /\ 1 .. Len(b) = 1 .. k
          /\ Len(y) \in Nat /\ 1 .. Len(y) = 1 .. n
      BY <1>1, LenProperties
    <2>2. \A p, q \in Nat : 1 .. p = 1 .. q => p = q
      OBVIOUS
    <2> QED
      BY <2>1, <2>2
  <1>3. /\ a \o x \in Seq(S) /\ Len(a \o x) = k + n
        /\ \A i \in 1 .. k + n : (a \o x)[i] = IF i <= k THEN a[i] ELSE x[i - k]
        /\ b \o y \in Seq(S) /\ Len(b \o y) = k + n
        /\ \A i \in 1 .. k + n : (b \o y)[i] = IF i <= k THEN b[i] ELSE y[i - k]
    <2>1. /\ a \o x \in Seq(S) /\ Len(a \o x) = Len(a) + Len(x)
          /\ \A i \in 1 .. Len(a) + Len(x) : (a \o x)[i] = IF i <= Len(a) THEN a[i] ELSE x[i - Len(a)]
      BY ConcatProperties
    <2>2. /\ b \o y \in Seq(S) /\ Len(b \o y) = Len(b) + Len(y)
          /\ \A i \in 1 .. Len(b) + Len(y) : (b \o y)[i] = IF i <= Len(b) THEN b[i] ELSE y[i - Len(b)]
      BY ConcatProperties
    <2> QED
      BY <1>1, <1>2, <2>1, <2>2
  <1>4. PICK s, t : s = a \o x /\ t = b \o y
    OBVIOUS
  <1>5. DOMAIN s = 1 .. k + n /\ DOMAIN t = 1 .. k + n
    BY <1>3, <1>4, LenProperties
  <1>6. ASSUME NEW i \in 1 .. k + n
        PROVE  /\ t[i].id = s[i].id
               /\ t[i].len <= s[i].len
               /\ s[i].deleted => t[i].deleted
    <2>1. CASE i <= k
      <3>1. i \in DOMAIN b /\ s[i] = a[i] /\ t[i] = b[i]
        BY <1>1, <1>3, <1>4, <2>1
      <3> QED
        BY <3>1 DEF Store!Changed
    <2>2. CASE ~(i <= k)
      <3>1. PICK j \in 1 .. n : j = i - k
        BY <2>2
      <3>2. j \in DOMAIN y /\ s[i] = x[j] /\ t[i] = y[j]
        BY <1>1, <1>3, <1>4, <2>2, <3>1
      <3> QED
        BY <3>2 DEF Store!Changed
    <2> QED
      BY <2>1, <2>2
  <1> QED
    BY <1>4, <1>5, <1>6 DEF Store!Changed

(* What a client may make of a clause.                                     *)
ClauseChanges(c, d) ==
  /\ d.initial = c.initial /\ d.id = c.id
  /\ d.len <= c.len
  /\ c.deleted => d.deleted

(* Changing a clause of a region in place changes its clauses.             *)
LEMMA ModifiedClauses ==
  ASSUME NEW m \in Nat, NEW r \in GoodRegions(m), NEW o \in Places(r), NEW c \in Clauses(m),
         ClauseChanges(r.mem[o], c)
  PROVE  /\ [r EXCEPT !.mem[o] = c] \in GoodRegions(m)
         /\ Store!Changed(ClausesOf(r), ClausesOf([r EXCEPT !.mem[o] = c]))
  <1>1. PICK q : q = [r EXCEPT !.mem[o] = c]
    OBVIOUS
  <1>2. GoodRegion(r, m) /\ r.mem[o] \in Clauses(m) /\ r.mem[o].len <= r.mem[o].initial
    <2>1. GoodRegion(r, m)
      BY DEF GoodRegion
    <2>2. r.mem[o].len <= r.mem[o].initial
      BY DEF GoodRegions, Chained
    <2> QED
      BY <2>1, <2>2, RegionFacts
  <1>3. c.len <= c.initial
    <2>1. c.len <= r.mem[o].len /\ c.initial = r.mem[o].initial
      BY DEF ClauseChanges
    <2>2. c.len \in Nat /\ r.mem[o].len \in Nat /\ r.mem[o].initial \in Nat
      BY <1>2, SizesAssumption DEF Clauses
    <2> QED
      BY <1>2, <2>1, <2>2
  <1>4. q \in GoodRegions(m) /\ GoodRegion(q, m)
    BY <1>1, <1>3, ModifiedGood DEF ClauseChanges, GoodRegion
  <1>5. /\ q.used = r.used /\ q.mem[o] = c
        /\ \A p \in 0 .. RegionSize - 1 : p # o => q.mem[p] = r.mem[p]
    <2>1. r \in RegionTypes(m) /\ o \in 0 .. RegionSize - 1
      BY DEF GoodRegions, Places
    <2>2. q = [mem |-> [r.mem EXCEPT ![o] = c], used |-> r.used]
      BY <1>1, <2>1 DEF RegionTypes
    <2> QED
      BY <2>1, <2>2 DEF RegionTypes
  <1>6. Places(q) = Places(r)
    BY <1>2, <1>5, ClauseIsThere DEF Places
  <1>7. ASSUME NEW p \in Places(r)
        PROVE  NextClause(q, p) = NextClause(r, p)
    <2>1. Extent(q.mem[p]) = Extent(r.mem[p])
      BY <1>5 DEF Extent, Places, ClauseChanges
    <2> QED
      BY <1>5, <2>1 DEF NextClause
  <1> DEFINE T == {p \in Places(r) : Store!Changed(ClausesFrom(r, p), ClausesFrom(q, p))}
  <1>8. ASSUME NEW p \in Places(r), NextClause(r, p) = End \/ NextClause(r, p) \in T
        PROVE  p \in T
    <2>1. PICK x \in Views(m), t \in Seq(Views(m)), y \in Views(m), u \in Seq(Views(m)) :
            /\ x = Seen(r.mem[p]) /\ t = ClausesFrom(r, NextClause(r, p))
            /\ y = Seen(q.mem[p]) /\ u = ClausesFrom(q, NextClause(q, p))
      <3>1. /\ r.mem[p] \in Clauses(m) /\ ClausesFrom(r, NextClause(r, p)) \in Seq(Views(m))
            /\ q.mem[p] \in Clauses(m) /\ ClausesFrom(q, NextClause(q, p)) \in Seq(Views(m))
        BY <1>2, <1>4, <1>6, RegionFacts, ClausesFromFacts
      <3> QED
        BY <3>1, ViewOf
    <2>2. ClausesFrom(r, p) = <<x>> \o t /\ ClausesFrom(q, p) = <<y>> \o u
      BY <1>2, <1>4, <1>6, <2>1, ClausesFromFacts
    <2>3. Store!Changed(t, u)
      <3>1. CASE NextClause(r, p) = End
        <4>1. t = <<>> /\ u = t
          BY <1>2, <1>4, <1>7, <2>1, <3>1, ClausesFromFacts
        <4> QED
          BY <4>1, ChangedSame
      <3>2. CASE NextClause(r, p) # End
        BY <1>7, <1>8, <2>1, <3>2
      <3> QED
        BY <3>1, <3>2
    <2>4. y.id = x.id /\ y.len <= x.len /\ (x.deleted => y.deleted)
      <3>1. CASE p = o
        BY <1>5, <2>1, <3>1 DEF Seen, ClauseChanges
      <3>2. CASE p # o
        <4>1. y = x /\ x.len \in Nat
          BY <1>5, <2>1, <3>2, SizesAssumption DEF Places, Views
        <4> QED
          BY <4>1
      <3> QED
        BY <3>1, <3>2
    <2>5. PICK a \in Seq(Views(m)), b \in Seq(Views(m)) :
            /\ a = <<x>> /\ b = <<y>>
            /\ DOMAIN a = {1} /\ DOMAIN b = {1} /\ a[1] = x /\ b[1] = y
      <3>1. \A z \in Views(m) : <<z>> \in Seq(Views(m)) /\ DOMAIN <<z>> = {1} /\ <<z>>[1] = z
        OBVIOUS
      <3> QED
        BY <3>1
    <2>6. Store!Changed(a, b)
      BY <2>4, <2>5 DEF Store!Changed
    <2>7. Store!Changed(a \o t, b \o u)
      BY <2>3, <2>6, ChangedConcat
    <2> QED
      BY <2>2, <2>5, <2>7
  <1>9. \A p \in Places(r) : p \in T
    <2> HIDE DEF T
    <2> QED
      BY <1>2, <1>8, WalkInduction
  <1>10. r.used # 0 /\ 0 \in Places(r)
    <2>1. o \in Nat /\ \E e \in Nat \ {0} : o + e <= r.used /\ r.used \in Nat
      <3>1. Extent(r.mem[o]) \in Nat \ {0} /\ o + Extent(r.mem[o]) <= r.used /\ r.used \in 0 .. RegionSize
        BY <1>2, RegionFacts
      <3> QED
        BY <3>1, SizesAssumption DEF Places
    <2>2. r.used # 0
      BY <2>1
    <2> QED
      BY <2>2 DEF GoodRegions, Chained
  <1>11. ClausesOf(r) = ClausesFrom(r, 0) /\ ClausesOf(q) = ClausesFrom(q, 0)
    BY <1>4, <1>5, <1>10, ClausesOfType
  <1> QED
    BY <1>1, <1>4, <1>9, <1>10, <1>11

(* Sequences that agree have the same parts.                               *)
LEMMA SubSeqSame ==
  ASSUME NEW S, NEW s \in Seq(S), NEW t \in Seq(S), Len(t) = Len(s),
         NEW a \in Nat \ {0}, NEW b \in 0 .. Len(s),
         \A i \in a .. b : t[i] = s[i]
  PROVE  SubSeq(t, a, b) = SubSeq(s, a, b)
  <1>1. a \in Int /\ b \in Int /\ \A i \in a .. b : s[i] \in S /\ t[i] \in S
    <2>1. \A i \in a .. b : i \in 1 .. Len(s)
      BY LenProperties
    <2> QED
      BY <2>1, LenProperties, ElementOfSeq
  <1>2. /\ SubSeq(s, a, b) \in Seq(S) /\ SubSeq(t, a, b) \in Seq(S)
        /\ Len(SubSeq(s, a, b)) = IF a <= b THEN b - a + 1 ELSE 0
        /\ Len(SubSeq(t, a, b)) = IF a <= b THEN b - a + 1 ELSE 0
        /\ \A i \in 1 .. b - a + 1 : SubSeq(s, a, b)[i] = s[a + i - 1]
        /\ \A i \in 1 .. b - a + 1 : SubSeq(t, a, b)[i] = t[a + i - 1]
    BY <1>1, SubSeqProperties
  <1>3. PICK p \in Seq(S), q \in Seq(S) : p = SubSeq(s, a, b) /\ q = SubSeq(t, a, b)
    BY <1>2
  <1>4. Len(p) = Len(q) /\ \A i \in 1 .. Len(p) : i \in 1 .. b - a + 1
    BY <1>2, <1>3
  <1>5. \A i \in 1 .. b - a + 1 : a + i - 1 \in a .. b
    OBVIOUS
  <1>6. \A i \in 1 .. Len(p) : p[i] = q[i]
    BY <1>2, <1>3, <1>4, <1>5
  <1>7. p = q
    BY <1>4, <1>6, SeqEqual
  <1> QED
    BY <1>3, <1>7

(* The clauses of a sequence of regions, region by region.                 *)
PerRegion(s) == [i \in 1 .. Len(s) |-> ClausesOf(s[i])]

LEMMA AllJoined ==
  ASSUME NEW m, NEW s \in Seq(GoodRegions(m))
  PROVE  /\ Len(s) \in Nat
         /\ \A i \in 1 .. Len(s) : /\ s[i] \in GoodRegions(m)
                                   /\ PerRegion(s)[i] = ClausesOf(s[i])
                                   /\ PerRegion(s)[i] \in Seq(Views(m))
         /\ ClausesOfAll(s) = Joined(PerRegion(s), Len(s))
         /\ ClausesOfAll(s) \in Seq(Views(m))
  <1>1. PICK n \in Nat : n = Len(s)
    BY LenProperties
  <1>2. PICK g : g = PerRegion(s)
    OBVIOUS
  <1>3. \A i \in 1 .. n : /\ s[i] \in GoodRegions(m) /\ g[i] = ClausesOf(s[i])
                          /\ g[i] \in Seq(Views(m))
    BY <1>1, <1>2, ElementOfSeq, ClausesOfType DEF PerRegion
  <1>4. PICK h \in [0 .. n -> Seq(Views(m))] : Joins(h, g, n)
    BY <1>3, JoinedExists
  <1> DEFINE upTo == CHOOSE u : u = [i \in 0 .. Len(s) |->
                       IF i = 0 THEN <<>> ELSE u[i - 1] \o ClausesOf(s[i])]
  <1>5. h = [i \in 0 .. Len(s) |-> IF i = 0 THEN <<>> ELSE h[i - 1] \o ClausesOf(s[i])]
    <2>1. \A i \in 0 .. n : h[i] = IF i = 0 THEN <<>> ELSE h[i - 1] \o ClausesOf(s[i])
      <3>1. \A i \in 0 .. n : i # 0 => i \in 1 .. n
        OBVIOUS
      <3> QED
        BY <1>3, <1>4, <3>1 DEF Joins
    <2> QED
      BY <1>1, <1>4, <2>1
  <1>6. upTo = [i \in 0 .. Len(s) |-> IF i = 0 THEN <<>> ELSE upTo[i - 1] \o ClausesOf(s[i])]
    BY <1>5
  <1>7. ClausesOfAll(s) = upTo[Len(s)]
    BY DEF ClausesOfAll
  <1> HIDE DEF upTo
  <1>8. Joins(upTo, g, n)
    <2>1. \A i \in 0 .. n : upTo[i] = IF i = 0 THEN <<>> ELSE upTo[i - 1] \o ClausesOf(s[i])
      BY <1>1, <1>6
    <2>2. 0 \in 0 .. n /\ \A i \in 1 .. n : i \in 0 .. n /\ i # 0
      OBVIOUS
    <2> QED
      BY <1>3, <2>1, <2>2 DEF Joins
  <1>9. Joined(g, n) = upTo[n] /\ upTo[n] \in Seq(Views(m))
    BY <1>3, <1>8, JoinedIs
  <1> QED
    BY <1>1, <1>2, <1>3, <1>7, <1>9

(* The clauses of two sequences of regions.                                *)
LEMMA AllConcat ==
  ASSUME NEW m, NEW s \in Seq(GoodRegions(m)), NEW t \in Seq(GoodRegions(m))
  PROVE  ClausesOfAll(s \o t) = ClausesOfAll(s) \o ClausesOfAll(t)
  <1>1. PICK a \in Nat, b \in Nat : a = Len(s) /\ b = Len(t)
    BY LenProperties
  <1>2. PICK q : q = s \o t
    OBVIOUS
  <1>3. /\ q \in Seq(GoodRegions(m)) /\ Len(q) = a + b
        /\ \A i \in 1 .. a + b : q[i] = IF i <= a THEN s[i] ELSE t[i - a]
    BY <1>1, <1>2, ConcatProperties
  <1>4. PICK g, h, f : g = PerRegion(q) /\ h = PerRegion(t) /\ f = PerRegion(s)
    OBVIOUS
  <1>5. /\ \A i \in 1 .. a + b : g[i] = ClausesOf(q[i]) /\ g[i] \in Seq(Views(m))
        /\ ClausesOfAll(q) = Joined(g, a + b)
    BY <1>3, <1>4, AllJoined
  <1>6. /\ \A i \in 1 .. b : h[i] = ClausesOf(t[i])
        /\ \A i \in 1 .. a : f[i] = ClausesOf(s[i]) /\ f[i] \in Seq(Views(m))
        /\ ClausesOfAll(t) = Joined(h, b) /\ ClausesOfAll(s) = Joined(f, a)
    BY <1>1, <1>4, AllJoined
  <1>7. \A i \in 1 .. b : h[i] = g[a + i]
    <2> SUFFICES ASSUME NEW i \in 1 .. b
                 PROVE  h[i] = g[a + i]
      OBVIOUS
    <2>1. PICK j \in 1 .. a + b : j = a + i /\ ~(j <= a) /\ j - a = i
      OBVIOUS
    <2>2. q[j] = t[i]
      BY <1>3, <2>1
    <2> QED
      BY <1>5, <1>6, <2>1, <2>2
  <1>8. \A i \in 1 .. a : g[i] = f[i]
    <2> SUFFICES ASSUME NEW i \in 1 .. a
                 PROVE  g[i] = f[i]
      OBVIOUS
    <2>1. i \in 1 .. a + b /\ q[i] = s[i]
      BY <1>3
    <2> QED
      BY <1>5, <1>6, <2>1
  <1>9. Joined(g, a + b) = Joined(g, a) \o Joined(h, b)
    <2>1. PICK k \in Nat : k = a + b
      OBVIOUS
    <2>2. g \in [1 .. k -> Seq(Views(m))]
      BY <1>3, <1>4, <1>5, <2>1 DEF PerRegion
    <2>3. k - a = b /\ a \in 0 .. k /\ Shifted(g, h, a, k)
      BY <1>7, <2>1 DEF Shifted
    <2>4. Joined(g, k) = Joined(g, a) \o Joined(h, b)
      BY <2>2, <2>3, JoinedConcat
    <2> QED
      BY <2>1, <2>4
  <1>10. Joined(g, a) = Joined(f, a)
    BY <1>6, <1>8, JoinedSame
  <1> QED
    BY <1>2, <1>5, <1>6, <1>9, <1>10

LEMMA AllSmall ==
  ASSUME NEW m, NEW r \in GoodRegions(m)
  PROVE  /\ ClausesOfAll(<<>>) = <<>>
         /\ <<r>> \in Seq(GoodRegions(m))
         /\ ClausesOfAll(<<r>>) = ClausesOf(r)
  <1>1. <<>> \in Seq(GoodRegions(m)) /\ Len(<<>>) = 0
    OBVIOUS
  <1>2. ClausesOfAll(<<>>) = <<>>
    <2>1. PICK e \in Seq(GoodRegions(m)) : e = <<>> /\ Len(e) = 0
      BY <1>1
    <2>2. ClausesOfAll(e) = Joined(PerRegion(e), 0)
      BY <2>1, AllJoined
    <2>3. \A i \in 1 .. 0 : PerRegion(e)[i] \in Seq(Views(m))
      OBVIOUS
    <2>4. Joined(PerRegion(e), 0) = <<>>
      BY <2>3, JoinedSteps
    <2> QED
      BY <2>1, <2>2, <2>4
  <1>3. PICK s \in Seq(GoodRegions(m)) : s = <<r>> /\ Len(s) = 1 /\ s[1] = r
    <2>1. <<r>> \in Seq(GoodRegions(m)) /\ Len(<<r>>) = 1 /\ <<r>>[1] = r
      OBVIOUS
    <2> QED
      BY <2>1
  <1>4. PICK g : g = PerRegion(s)
    OBVIOUS
  <1>5. /\ \A i \in 1 .. 1 : g[i] = ClausesOf(s[i]) /\ g[i] \in Seq(Views(m))
        /\ ClausesOfAll(s) = Joined(g, 1)
    BY <1>3, <1>4, AllJoined
  <1>6. Joined(g, 1) = Joined(g, 0) \o g[1] /\ Joined(g, 0) = <<>>
    <2>1. 1 \in Nat /\ 1 # 0 /\ 1 - 1 = 0
      OBVIOUS
    <2>2. Joined(g, 1) = Joined(g, 1 - 1) \o g[1] /\ Joined(g, 0) = <<>>
      BY <1>5, <2>1, JoinedSteps
    <2> QED
      BY <2>1, <2>2
  <1>7. ClausesOf(r) \in Seq(Views(m)) /\ g[1] = ClausesOf(r)
    BY <1>3, <1>5, ClausesOfType
  <1>8. <<>> \o ClausesOf(r) = ClausesOf(r)
    BY <1>7, ConcatEmptySeq
  <1> QED
    BY <1>2, <1>3, <1>5, <1>6, <1>7, <1>8

(* Parts of a sequence of regions.                                         *)
LEMMA PartType ==
  ASSUME NEW S, NEW s \in Seq(S), NEW a \in Nat \ {0}, NEW b \in 0 .. Len(s)
  PROVE  SubSeq(s, a, b) \in Seq(S)
  <1>1. a \in Int /\ b \in Int /\ \A i \in a .. b : i \in 1 .. Len(s)
    BY LenProperties
  <1>2. \A i \in a .. b : s[i] \in S
    BY <1>1, ElementOfSeq
  <1> QED
    BY <1>1, <1>2, SubSeqProperties

(* The first region of a part and the others.                              *)
LEMMA AllFrom ==
  ASSUME NEW m, NEW s \in Seq(GoodRegions(m)), NEW i \in 1 .. Len(s)
  PROVE  ClausesOfAll(SubSeq(s, i, Len(s))) =
           ClausesOf(s[i]) \o ClausesOfAll(SubSeq(s, i + 1, Len(s)))
  <1>1. PICK l \in Nat : l = Len(s) /\ i \in 1 .. l /\ l \in i .. l /\ i + 1 \in Nat \ {0}
    BY LenProperties
  <1>2. PICK r \in GoodRegions(m), t \in Seq(GoodRegions(m)) : r = s[i] /\ t = SubSeq(s, i + 1, l)
    <2>1. s[i] \in GoodRegions(m) /\ SubSeq(s, i + 1, l) \in Seq(GoodRegions(m))
      BY <1>1, ElementOfSeq, PartType
    <2> QED
      BY <2>1
  <1>3. SubSeq(s, i, l) = <<r>> \o t
    BY <1>1, <1>2, SubSeqRecursiveFirst
  <1>4. <<r>> \in Seq(GoodRegions(m)) /\ ClausesOfAll(<<r>>) = ClausesOf(r)
    BY AllSmall
  <1>5. ClausesOfAll(<<r>> \o t) = ClausesOfAll(<<r>>) \o ClausesOfAll(t)
    BY <1>4, AllConcat
  <1> QED
    BY <1>1, <1>2, <1>3, <1>4, <1>5

(* The last region of a part and the others.                               *)
LEMMA AllUpTo ==
  ASSUME NEW m, NEW s \in Seq(GoodRegions(m)), NEW i \in 1 .. Len(s)
  PROVE  ClausesOfAll(SubSeq(s, 1, i)) = ClausesOfAll(SubSeq(s, 1, i - 1)) \o ClausesOf(s[i])
  <1>1. PICK l \in Nat : l = Len(s) /\ i \in 1 .. l /\ 1 \in 1 .. l /\ i - 1 \in 0 .. l
    BY LenProperties
  <1>2. PICK r \in GoodRegions(m), t \in Seq(GoodRegions(m)) : r = s[i] /\ t = SubSeq(s, 1, i - 1)
    <2>1. s[i] \in GoodRegions(m) /\ SubSeq(s, 1, i - 1) \in Seq(GoodRegions(m))
      BY <1>1, ElementOfSeq, PartType
    <2> QED
      BY <2>1
  <1>3. SubSeq(s, 1, i) = t \o <<r>>
    <2>1. i \in 1 .. Len(s) /\ 1 \in 1 .. Len(s)
      BY <1>1
    <2> QED
      BY <1>2, <2>1, SubSeqRecursiveSecond
  <1>4. <<r>> \in Seq(GoodRegions(m)) /\ ClausesOfAll(<<r>>) = ClausesOf(r)
    BY AllSmall
  <1>5. ClausesOfAll(t \o <<r>>) = ClausesOfAll(t) \o ClausesOfAll(<<r>>)
    BY <1>4, AllConcat
  <1> QED
    BY <1>2, <1>3, <1>4, <1>5

LEMMA AllSplit ==
  ASSUME NEW m, NEW s \in Seq(GoodRegions(m)), NEW i \in 0 .. Len(s)
  PROVE  /\ SubSeq(s, 1, i) \in Seq(GoodRegions(m))
         /\ SubSeq(s, i + 1, Len(s)) \in Seq(GoodRegions(m))
         /\ ClausesOfAll(s) =
              ClausesOfAll(SubSeq(s, 1, i)) \o ClausesOfAll(SubSeq(s, i + 1, Len(s)))
  <1>1. PICK l \in Nat : /\ l = Len(s) /\ i \in 0 .. l /\ i + 1 \in Nat \ {0} /\ l \in 0 .. l
                         /\ 1 \in 1 .. l + 1 /\ i \in 1 - 1 .. l /\ l \in i .. l
    BY LenProperties
  <1>2. PICK a \in Seq(GoodRegions(m)), b \in Seq(GoodRegions(m)) :
          a = SubSeq(s, 1, i) /\ b = SubSeq(s, i + 1, l)
    <2>1. SubSeq(s, 1, i) \in Seq(GoodRegions(m))
      BY <1>1, PartType
    <2>2. SubSeq(s, i + 1, l) \in Seq(GoodRegions(m))
      BY <1>1, PartType
    <2> QED
      BY <2>1, <2>2
  <1>3. a \o b = SubSeq(s, 1, l)
    BY <1>1, <1>2, ConcatAdjacentSubSeq
  <1>4. SubSeq(s, 1, l) = s
    BY <1>1, SubSeqFull
  <1>5. ClausesOfAll(a \o b) = ClausesOfAll(a) \o ClausesOfAll(b)
    BY AllConcat
  <1> QED
    BY <1>1, <1>2, <1>3, <1>4, <1>5

(* Empty regions have no clauses.                                          *)
LEMMA AllOfEmpty ==
  ASSUME NEW m \in Nat, NEW s \in Seq(GoodRegions(m)), \A i \in 1 .. Len(s) : s[i] = EmptyRegion
  PROVE  ClausesOfAll(s) = <<>>
  <1>1. PICK n, g : n \in Nat /\ n = Len(s) /\ g = PerRegion(s)
    BY LenProperties
  <1>2. \A i \in 1 .. n : g[i] = <<>>
    <2>1. ClausesOf(EmptyRegion) = <<>>
      BY EmptyGood, ClausesOfType
    <2> QED
      BY <1>1, <2>1, AllJoined
  <1> DEFINE f == [i \in 0 .. n |-> <<>>]
  <1>3. Joins(f, g, n)
    <2>1. f[0] = <<>>
      BY <1>1
    <2>2. \A i \in 1 .. n : f[i] = <<>> /\ f[i - 1] = <<>>
      BY <1>1
    <2>3. <<>> \o <<>> = <<>>
      OBVIOUS
    <2> HIDE DEF f
    <2> QED
      BY <1>2, <2>1, <2>2, <2>3 DEF Joins
  <1>4. f[n] = <<>>
    BY <1>1
  <1> HIDE DEF f
  <1>5. n \in Nat /\ \A i \in 1 .. n : g[i] \in Seq(Views(m))
    BY <1>1, AllJoined
  <1>6. Joined(g, n) = f[n]
    BY <1>3, <1>5, JoinedIs
  <1> QED
    BY <1>1, <1>4, <1>6, AllJoined

----------------------------------------------------------------------------
(* The clauses that are kept.                                              *)

PerClause(s) == [i \in 1 .. Len(s) |-> IF s[i].deleted THEN <<>> ELSE <<s[i]>>]

LEMMA KeptJoined ==
  ASSUME NEW S, NEW s \in Seq(S)
  PROVE  /\ Len(s) \in Nat
         /\ PerClause(s) \in [1 .. Len(s) -> Seq(S)]
         /\ \A i \in 1 .. Len(s) : PerClause(s)[i] = IF s[i].deleted THEN <<>> ELSE <<s[i]>>
         /\ Kept(s) = Joined(PerClause(s), Len(s))
         /\ Kept(s) \in Seq(S)
  <1>1. PICK n \in Nat : n = Len(s)
    BY LenProperties
  <1>2. PICK g : g = PerClause(s)
    OBVIOUS
  <1>3. /\ g \in [1 .. n -> Seq(S)]
        /\ \A i \in 1 .. n : g[i] = IF s[i].deleted THEN <<>> ELSE <<s[i]>>
    <2>1. \A x \in S : <<x>> \in Seq(S) /\ <<>> \in Seq(S)
      OBVIOUS
    <2>2. \A i \in 1 .. n : (IF s[i].deleted THEN <<>> ELSE <<s[i]>>) \in Seq(S)
      BY <1>1, <2>1, ElementOfSeq
    <2>3. g = [i \in 1 .. n |-> IF s[i].deleted THEN <<>> ELSE <<s[i]>>]
      BY <1>1, <1>2 DEF PerClause
    <2> QED
      BY <2>2, <2>3
  <1>4. PICK h \in [0 .. n -> Seq(S)] : Joins(h, g, n)
    BY <1>3, JoinedExists
  <1> DEFINE upTo == CHOOSE u : u = [i \in 0 .. Len(s) |->
                       IF i = 0 THEN <<>>
                       ELSE u[i - 1] \o IF s[i].deleted THEN <<>> ELSE <<s[i]>>]
  <1>5. h = [i \in 0 .. Len(s) |->
               IF i = 0 THEN <<>> ELSE h[i - 1] \o IF s[i].deleted THEN <<>> ELSE <<s[i]>>]
    <2>1. \A i \in 0 .. n : h[i] = IF i = 0 THEN <<>>
                                   ELSE h[i - 1] \o IF s[i].deleted THEN <<>> ELSE <<s[i]>>
      <3>1. \A i \in 0 .. n : i # 0 => i \in 1 .. n
        OBVIOUS
      <3> QED
        BY <1>3, <1>4, <3>1 DEF Joins
    <2> QED
      BY <1>1, <1>4, <2>1
  <1>6. upTo = [i \in 0 .. Len(s) |->
                  IF i = 0 THEN <<>> ELSE upTo[i - 1] \o IF s[i].deleted THEN <<>> ELSE <<s[i]>>]
    BY <1>5
  <1>7. Kept(s) = upTo[Len(s)]
    BY DEF Kept
  <1> HIDE DEF upTo
  <1>8. Joins(upTo, g, n)
    <2>1. \A i \in 0 .. n : upTo[i] = IF i = 0 THEN <<>>
                                      ELSE upTo[i - 1] \o IF s[i].deleted THEN <<>> ELSE <<s[i]>>
      BY <1>1, <1>6
    <2>2. 0 \in 0 .. n /\ \A i \in 1 .. n : i \in 0 .. n /\ i # 0
      OBVIOUS
    <2> QED
      BY <1>3, <2>1, <2>2 DEF Joins
  <1>9. \A i \in 1 .. n : g[i] \in Seq(S)
    BY <1>3
  <1>10. Joined(g, n) = upTo[n] /\ upTo[n] \in Seq(S)
    BY <1>8, <1>9, JoinedIs
  <1> QED
    BY <1>1, <1>2, <1>3, <1>7, <1>10

LEMMA KeptConcat ==
  ASSUME NEW S, NEW s \in Seq(S), NEW t \in Seq(S)
  PROVE  Kept(s \o t) = Kept(s) \o Kept(t)
  <1>1. PICK a \in Nat, b \in Nat : a = Len(s) /\ b = Len(t)
    BY LenProperties
  <1>2. PICK q : q = s \o t
    OBVIOUS
  <1>3. PICK k \in Nat : k = a + b
    OBVIOUS
  <1>4. /\ q \in Seq(S) /\ Len(q) = k
        /\ \A i \in 1 .. k : q[i] = IF i <= a THEN s[i] ELSE t[i - a]
    BY <1>3, <1>1, <1>2, ConcatProperties
  <1>5. PICK g, h, f : g = PerClause(q) /\ h = PerClause(t) /\ f = PerClause(s)
    OBVIOUS
  <1>6. /\ g \in [1 .. k -> Seq(S)] /\ Kept(q) = Joined(g, k)
        /\ \A i \in 1 .. k : g[i] = IF q[i].deleted THEN <<>> ELSE <<q[i]>>
    BY <1>4, <1>5, KeptJoined
  <1>7. /\ Kept(t) = Joined(h, b) /\ Kept(s) = Joined(f, a)
        /\ \A i \in 1 .. b : h[i] = IF t[i].deleted THEN <<>> ELSE <<t[i]>>
    BY <1>1, <1>5, KeptJoined
  <1>8. f \in [1 .. a -> Seq(S)] /\ \A i \in 1 .. a : f[i] = IF s[i].deleted THEN <<>> ELSE <<s[i]>>
    BY <1>1, <1>5, KeptJoined
  <1>9. k - a = b /\ a \in 0 .. k /\ Shifted(g, h, a, k)
    <2>1. ASSUME NEW i \in 1 .. b
          PROVE  h[i] = g[a + i]
      <3>1. PICK j \in 1 .. k : j = a + i /\ ~(j <= a) /\ j - a = i
        BY <1>3
      <3>2. q[j] = t[i]
        BY <1>4, <3>1
      <3> QED
        BY <1>6, <1>7, <3>1, <3>2
    <2> QED
      BY <1>3, <2>1 DEF Shifted
  <1>10. Joined(g, k) = Joined(g, a) \o Joined(h, b)
    <2>1. g \in [1 .. k -> Seq(S)]
      BY <1>6
    <2>2. a \in 0 .. k /\ Shifted(g, h, a, k)
      BY <1>9
    <2>3. Joined(g, k) = Joined(g, a) \o Joined(h, k - a)
      BY <2>1, <2>2, JoinedConcat
    <2> QED
      BY <1>9, <2>3
  <1>11. Joined(g, a) = Joined(f, a)
    <2>1. \A i \in 1 .. a : i \in 1 .. k /\ q[i] = s[i]
      BY <1>3, <1>4
    <2>2. \A i \in 1 .. a : g[i] = f[i]
      BY <1>6, <1>8, <2>1
    <2>3. \A i \in 1 .. a : f[i] \in Seq(S)
      BY <1>8
    <2> QED
      BY <2>2, <2>3, JoinedSame
  <1> QED
    BY <1>2, <1>6, <1>7, <1>10, <1>11

LEMMA KeptSmall ==
  ASSUME NEW S, NEW c \in S
  PROVE  /\ Kept(<<>>) = <<>> /\ <<c>> \in Seq(S)
         /\ Kept(<<c>>) = IF c.deleted THEN <<>> ELSE <<c>>
  <1>1. Kept(<<>>) = <<>>
    <2>1. PICK e \in Seq(S) : e = <<>> /\ Len(e) = 0
      <3>1. <<>> \in Seq(S) /\ Len(<<>>) = 0
        OBVIOUS
      <3> QED
        BY <3>1
    <2>2. Kept(e) = Joined(PerClause(e), 0)
      BY <2>1, KeptJoined
    <2>3. \A i \in 1 .. 0 : PerClause(e)[i] \in Seq(S)
      OBVIOUS
    <2>4. Joined(PerClause(e), 0) = <<>>
      BY <2>3, JoinedSteps
    <2> QED
      BY <2>1, <2>2, <2>4
  <1>2. PICK s \in Seq(S) : s = <<c>> /\ Len(s) = 1 /\ s[1] = c
    <2>1. <<c>> \in Seq(S) /\ Len(<<c>>) = 1 /\ <<c>>[1] = c
      OBVIOUS
    <2> QED
      BY <2>1
  <1>3. PICK g : g = PerClause(s)
    OBVIOUS
  <1>4. /\ g \in [1 .. 1 -> Seq(S)] /\ g[1] = IF c.deleted THEN <<>> ELSE <<c>>
        /\ Kept(s) = Joined(g, 1)
    <2>1. /\ g \in [1 .. Len(s) -> Seq(S)] /\ Kept(s) = Joined(g, Len(s))
          /\ \A i \in 1 .. Len(s) : g[i] = IF s[i].deleted THEN <<>> ELSE <<s[i]>>
      BY <1>3, KeptJoined
    <2>2. 1 \in 1 .. 1
      OBVIOUS
    <2> QED
      BY <1>2, <2>1, <2>2
  <1>5. g[1] \in Seq(S) /\ \A i \in 1 .. 1 : g[i] \in Seq(S)
    BY <1>4
  <1>6. Joined(g, 1) = <<>> \o g[1]
    <2>1. 1 \in Nat /\ 1 # 0 /\ 1 - 1 = 0
      OBVIOUS
    <2>2. Joined(g, 1) = Joined(g, 1 - 1) \o g[1] /\ Joined(g, 0) = <<>>
      BY <1>5, <2>1, JoinedSteps
    <2> QED
      BY <2>1, <2>2
  <1>7. <<>> \o g[1] = g[1]
    BY <1>5, ConcatEmptySeq
  <1> QED
    BY <1>1, <1>2, <1>4, <1>6, <1>7

----------------------------------------------------------------------------
(* The stored clauses, and what each step makes of them.                   *)

(* A region of a sequence is replaced.                                     *)
Replaced(s, i, x) == [s EXCEPT ![i] = x]

(* The other regions, and the clauses before and behind it, stay.          *)
LEMMA ReplacedRegion ==
  ASSUME NEW m, NEW s \in Seq(GoodRegions(m)), NEW i \in 1 .. Len(s), NEW x \in GoodRegions(m)
  PROVE  /\ Replaced(s, i, x) \in Seq(GoodRegions(m)) /\ Len(Replaced(s, i, x)) = Len(s)
         /\ \A j \in 1 .. Len(s) : Replaced(s, i, x)[j] = IF j = i THEN x ELSE s[j]
         /\ \A k \in i + 1 .. Len(s) + 1 :
              SubSeq(Replaced(s, i, x), k, Len(s)) = SubSeq(s, k, Len(s))
         /\ ClausesOfAll(SubSeq(s, 1, i - 1)) \in Seq(Views(m))
         /\ ClausesOfAll(SubSeq(s, i + 1, Len(s))) \in Seq(Views(m))
         /\ ClausesOfAll(Replaced(s, i, x)) = ClausesOfAll(SubSeq(s, 1, i - 1))
                                \o (ClausesOf(x) \o ClausesOfAll(SubSeq(s, i + 1, Len(s))))
  <1>1. PICK l \in Nat : /\ l = Len(s) /\ i \in 1 .. l /\ i - 1 \in 0 .. l /\ (i - 1) + 1 = i
                         /\ i + 1 \in Nat \ {0} /\ l \in 0 .. l /\ i - 1 \in 0 .. i - 1
                         /\ i + 1 \in i + 1 .. l + 1 /\ l \in Int
    BY LenProperties
  <1>2. PICK t : t = Replaced(s, i, x)
    OBVIOUS
  <1>3. /\ t \in Seq(GoodRegions(m)) /\ Len(t) = l
        /\ \A j \in 1 .. l : t[j] = IF j = i THEN x ELSE s[j]
    BY <1>2, <1>1, ExceptSeq DEF Replaced
  <1>4. \A k \in 0 .. i - 1 : SubSeq(t, 1, k) = SubSeq(s, 1, k)
    <2> SUFFICES ASSUME NEW k \in 0 .. i - 1
                 PROVE  SubSeq(t, 1, k) = SubSeq(s, 1, k)
      OBVIOUS
    <2>1. 1 \in Nat \ {0} /\ k \in 0 .. l /\ \A j \in 1 .. k : j \in 1 .. l /\ j # i
      BY <1>1
    <2>2. \A j \in 1 .. k : t[j] = s[j]
      BY <1>3, <2>1
    <2> QED
      BY <1>1, <1>3, <2>1, <2>2, SubSeqSame
  <1>5. \A k \in i + 1 .. l + 1 : SubSeq(t, k, l) = SubSeq(s, k, l)
    <2> SUFFICES ASSUME NEW k \in i + 1 .. l + 1
                 PROVE  SubSeq(t, k, l) = SubSeq(s, k, l)
      OBVIOUS
    <2>1. k \in Nat \ {0} /\ \A j \in k .. l : j \in 1 .. l /\ j # i
      BY <1>1
    <2>2. \A j \in k .. l : t[j] = s[j]
      BY <1>3, <2>1
    <2> QED
      BY <1>1, <1>3, <2>1, <2>2, SubSeqSame
  <1>6. PICK p, n, u : p = SubSeq(s, 1, i - 1) /\ n = SubSeq(s, i + 1, l) /\ u = SubSeq(t, i, l)
    OBVIOUS
  <1>7. SubSeq(t, 1, i - 1) = p /\ SubSeq(t, i + 1, l) = n
    BY <1>1, <1>4, <1>5, <1>6
  <1>8. p \in Seq(GoodRegions(m)) /\ n \in Seq(GoodRegions(m))
    <2>1. SubSeq(s, 1, i - 1) \in Seq(GoodRegions(m))
      BY <1>1, PartType
    <2>2. SubSeq(s, i + 1, l) \in Seq(GoodRegions(m))
      BY <1>1, PartType
    <2> QED
      BY <1>6, <2>1, <2>2
  <1>9. ClausesOfAll(p) \in Seq(Views(m)) /\ ClausesOfAll(n) \in Seq(Views(m))
    BY <1>8, AllJoined
  <1>10. ClausesOfAll(t) = ClausesOfAll(p) \o ClausesOfAll(u)
    <2>1. PICK j \in 0 .. l : j = i - 1 /\ j + 1 = i
      BY <1>1
    <2>2. ClausesOfAll(t) = ClausesOfAll(SubSeq(t, 1, j)) \o ClausesOfAll(SubSeq(t, j + 1, l))
      BY <1>3, AllSplit
    <2> QED
      BY <1>6, <1>7, <2>1, <2>2
  <1>11. ClausesOfAll(u) = ClausesOf(x) \o ClausesOfAll(n)
    <2>1. ClausesOfAll(SubSeq(t, i, l)) = ClausesOf(t[i]) \o ClausesOfAll(SubSeq(t, i + 1, l))
      BY <1>1, <1>3, AllFrom
    <2> QED
      BY <1>1, <1>3, <1>6, <1>7, <2>1
  <1> QED
    BY <1>2, <1>1, <1>3, <1>4, <1>5, <1>6, <1>9, <1>10, <1>11

LEMMA ReplacedPrefix ==
  ASSUME NEW m, NEW s \in Seq(GoodRegions(m)), NEW i \in 1 .. Len(s), NEW x \in GoodRegions(m),
         NEW k \in 0 .. i - 1
  PROVE  SubSeq(Replaced(s, i, x), 1, k) = SubSeq(s, 1, k)
  <1>1. /\ Replaced(s, i, x) \in Seq(GoodRegions(m)) /\ Len(Replaced(s, i, x)) = Len(s)
        /\ \A j \in 1 .. Len(s) : Replaced(s, i, x)[j] = IF j = i THEN x ELSE s[j]
    BY ReplacedRegion
  <1>2. /\ k \in 0 .. Len(s) /\ 1 \in Nat \ {0} /\ Len(s) \in Nat
        /\ \A j \in 1 .. k : j \in 1 .. Len(s) /\ j # i
    BY LenProperties
  <1>3. \A j \in 1 .. k : Replaced(s, i, x)[j] = s[j]
    BY <1>1, <1>2
  <1>4. k \in 0 .. Len(Replaced(s, i, x))
    BY <1>1, <1>2
  <1> QED
    BY <1>1, <1>2, <1>3, <1>4, SubSeqSame

(* Adding at the end of the last part.                                     *)
LEMMA ConcatAppend ==
  ASSUME NEW S, NEW a \in Seq(S), NEW b \in Seq(S), NEW c \in S
  PROVE  a \o Append(b, c) = Append(a \o b, c)
  <1>1. PICK d \in Seq(S) : d = <<c>>
    <2>1. <<c>> \in Seq(S)
      OBVIOUS
    <2> QED
      BY <2>1
  <1>2. Append(b, c) = b \o d
    BY <1>1, AppendIsConcat
  <1>3. a \o b \in Seq(S)
    BY ConcatProperties
  <1>4. Append(a \o b, c) = (a \o b) \o d
    BY <1>1, <1>3, AppendIsConcat
  <1>5. (a \o b) \o d = a \o (b \o d)
    BY ConcatAssociative
  <1> QED
    BY <1>2, <1>4, <1>5

(* A clause with the next number is a clause that has been added.          *)
LEMMA AddedLast ==
  ASSUME NEW m \in Nat, NEW s \in Seq(Views(m)), NEW c, c.id = m + 1
  PROVE  Store!StoreStep(s, Append(s, c))
  <1>1. PICK n \in Nat : n = Len(s) /\ DOMAIN s = 1 .. n
    BY LenProperties
  <1>2. PICK t : t = Append(s, c)
    OBVIOUS
  <1>3. Len(t) = n + 1 /\ t[n + 1] = c
    <2>1. s \in Seq(Views(m) \cup {c}) /\ c \in Views(m) \cup {c}
      BY SeqMonotonic
    <2> QED
      BY <1>1, <1>2, <2>1, AppendProperties
  <1>4. \A i \in DOMAIN s : s[i].id < c.id
    <2> SUFFICES ASSUME NEW i \in DOMAIN s
                 PROVE  s[i].id < c.id
      OBVIOUS
    <2>1. s[i] \in Views(m)
      BY <1>1, ElementOfSeq
    <2>2. s[i].id \in 1 .. m
      BY <2>1 DEF Views
    <2> QED
      BY <2>2
  <1>5. t[Len(t)] = c /\ Len(t) > Len(s)
    BY <1>1, <1>3
  <1> QED
    BY <1>2, <1>4, <1>5 DEF Store!StoreStep, Store!Added

(* The clauses that compress() has not read when it stands at o in a[i],   *)
(* and all that are stored: copied, in the spare region, and kept unread.  *)
UnreadOf(a, i, o) ==
  IF i > Len(a) THEN <<>>
  ELSE ClausesFrom(a[i], o) \o ClausesOfAll(SubSeq(a, i + 1, Len(a)))

StoredOf(a, s, w, i, o) ==
  ClausesOfAll(SubSeq(a, 1, w - 1)) \o ClausesOf(s) \o Kept(UnreadOf(a, i, o))

(* StoredClauses in these terms, before a step and after it.               *)
LEMMA StoredIs ==
  /\ pc = "idle" => StoredClauses = ClausesOfAll(active)
  /\ pc # "idle" => StoredClauses = StoredOf(active, spare, swapIn, idx, pos)
  BY DEF StoredClauses, Unread, StoredOf, UnreadOf

LEMMA StoredWillBe ==
  /\ pc' = "idle" => StoredClauses' = ClausesOfAll(active')
  /\ pc' # "idle" => StoredClauses' = StoredOf(active', spare', swapIn', idx', pos')
  BY DEF StoredClauses, Unread, StoredOf, UnreadOf

(* allocate() in the last region adds a clause.                            *)
LEMMA CreateInRegionStored ==
  ASSUME DBIInv, NEW n \in Lengths, CreateInRegion(n)
  PROVE  Store!StoreStep(StoredClauses, StoredClauses')
  <1>1. PICK m, a, l : m \in Nat /\ m = created + 1 /\ a = active /\ l = Len(active)
    BY SizesAssumption DEF DBIInv
  <1>2. PICK k \in Nat : k = created /\ m = k + 1
    BY <1>1, SizesAssumption DEF DBIInv
  <1>3. /\ a \in Seq(GoodRegions(k)) /\ a # <<>> /\ Fits(Last(a), n) /\ pc = "idle" /\ pc' = pc
        /\ active' = [a EXCEPT ![l] = Allocated(a[l], Clause(m, n))]
    BY <1>1, <1>2 DEF DBIInv, CreateInRegion, HasRoom, compressVars
  <1>4. a \in Seq(GoodRegions(m))
    BY <1>2, <1>3, GoodRegionsGrow, SeqMonotonic
  <1>5. l \in Nat \ {0} /\ Last(a) = a[l] /\ a[l] \in GoodRegions(m) /\ l \in 1 .. l
    <2>1. Len(a) \in Nat \ {0} /\ Last(a) = a[Len(a)] /\ Last(a) \in GoodRegions(m)
      BY <1>3, <1>4, LastAndFront
    <2> QED
      BY <1>1, <2>1
  <1>6. PICK r, c, x, y : /\ r = a[l] /\ c = Clause(m, n) /\ x = Allocated(r, c) /\ y = Seen(c)
    OBVIOUS
  <1>7. c \in Clauses(m) /\ c.len = n /\ c.initial = n /\ c.id = m
    BY <1>1, <1>6, SizesAssumption DEF DBIInv, Clause, Clauses
  <1>8. x \in GoodRegions(m) /\ ClausesOf(x) = Append(ClausesOf(r), y)
    <2>1. Fits(r, c.len) /\ c.len = c.initial
      BY <1>3, <1>5, <1>6, <1>7
    <2> QED
      BY <1>1, <1>5, <1>6, <1>7, <2>1, AllocatedGood, AllocatedClauses
  <1>9. y \in Views(m) /\ y.id = m
    BY <1>6, <1>7, ViewOf
  <1>10. PICK p, q : p = ClausesOfAll(SubSeq(a, 1, l - 1)) /\ q = ClausesOf(r)
    OBVIOUS
  <1>11. p \in Seq(Views(m)) /\ q \in Seq(Views(m))
    <2>1. SubSeq(a, 1, l - 1) \in Seq(GoodRegions(m))
      <3>1. l - 1 \in 0 .. l /\ 1 \in Nat \ {0}
        BY <1>5
      <3> QED
        BY <1>1, <1>4, <3>1, PartType
    <2> QED
      BY <1>5, <1>6, <1>10, <2>1, AllJoined, ClausesOfType
  <1>12. ClausesOfAll(a) = p \o q
    <2>1. ClausesOfAll(SubSeq(a, 1, l)) = p \o q
      BY <1>1, <1>4, <1>5, <1>6, <1>10, AllUpTo
    <2>2. SubSeq(a, 1, l) = a
      BY <1>1, <1>4, SubSeqFull
    <2> QED
      BY <2>1, <2>2
  <1>13. ClausesOfAll(active') = p \o Append(q, y)
    <2>1. PICK t, z : /\ t = active' /\ t = Replaced(a, l, x)
                      /\ z = SubSeq(a, l + 1, l)
      BY <1>3, <1>6 DEF Replaced
    <2>2. ClausesOfAll(t) = p \o (ClausesOf(x) \o ClausesOfAll(z))
      <3>1. l \in 1 .. Len(a) /\ l = Len(a)
        BY <1>1, <1>5
      <3>2. ClausesOfAll(Replaced(a, l, x)) =
              ClausesOfAll(SubSeq(a, 1, l - 1))
                \o (ClausesOf(x) \o ClausesOfAll(SubSeq(a, l + 1, Len(a))))
        BY <1>4, <1>8, <3>1, ReplacedRegion
      <3> QED
        BY <1>10, <2>1, <3>1, <3>2
    <2>3. z = <<>>
      <3>1. l + 1 \in Int /\ l \in Int /\ l < l + 1
        BY <1>5
      <3> QED
        BY <2>1, <3>1, SubSeqEmpty
    <2>4. ClausesOfAll(z) = <<>>
      BY <1>5, <2>3, AllSmall
    <2>5. ClausesOf(x) \o <<>> = ClausesOf(x)
      BY <1>8, ClausesOfType, ConcatEmptySeq
    <2> QED
      BY <1>8, <1>10, <2>1, <2>2, <2>4, <2>5
  <1>14. ClausesOfAll(active') = Append(ClausesOfAll(a), y)
    BY <1>9, <1>11, <1>12, <1>13, ConcatAppend
  <1>15. ClausesOfAll(a) \in Seq(Views(k))
    BY <1>3, AllJoined
  <1>16. Store!StoreStep(ClausesOfAll(a), Append(ClausesOfAll(a), y))
    BY <1>2, <1>9, <1>15, AddedLast
  <1> QED
    BY <1>1, <1>3, <1>14, <1>16, StoredIs, StoredWillBe

(* allocate() in a new region adds a clause.                               *)
LEMMA CreateInNewRegionStored ==
  ASSUME DBIInv, NEW n \in Lengths, CreateInNewRegion(n)
  PROVE  Store!StoreStep(StoredClauses, StoredClauses')
  <1>1. PICK m, a : m \in Nat /\ m = created + 1 /\ a = active
    BY SizesAssumption DEF DBIInv
  <1>2. PICK k \in Nat : k = created /\ m = k + 1
    BY <1>1, SizesAssumption DEF DBIInv
  <1>3. /\ a \in Seq(GoodRegions(k)) /\ spares \in Seq({EmptyRegion})
        /\ pc = "idle" /\ pc' = pc /\ AllocationSize(n) <= RegionSize
        /\ active' = Append(a, Allocated(NewRegion, Clause(m, n)))
    BY <1>1, <1>2 DEF DBIInv, CreateInNewRegion, compressVars
  <1>4. a \in Seq(GoodRegions(m)) /\ NewRegion = EmptyRegion
    BY <1>2, <1>3, GoodRegionsGrow, SeqMonotonic, Filled
  <1>5. PICK c, x, y : c = Clause(m, n) /\ x = Allocated(EmptyRegion, c) /\ y = Seen(c)
    OBVIOUS
  <1>6. c \in Clauses(m) /\ c.len = n /\ c.initial = n /\ c.id = m
    BY <1>1, <1>5, SizesAssumption DEF DBIInv, Clause, Clauses
  <1>7. EmptyRegion \in GoodRegions(m) /\ Fits(EmptyRegion, n) /\ ClausesOf(EmptyRegion) = <<>>
    <2>1. AllocationSize(n) \in Nat /\ RegionSize \in Nat
      BY AllocationSizes, SizesAssumption
    <2> QED
      BY <1>1, <1>3, <2>1, EmptyGood, ClausesOfType DEF Fits, Free
  <1>8. x \in GoodRegions(m) /\ ClausesOf(x) = Append(<<>>, y)
    <2>1. Fits(EmptyRegion, c.len) /\ c.len = c.initial
      BY <1>6, <1>7
    <2>2. x \in GoodRegions(m) /\ ClausesOf(x) = Append(ClausesOf(EmptyRegion), y)
      BY <1>1, <1>5, <1>6, <1>7, <2>1, AllocatedGood, AllocatedClauses
    <2> QED
      BY <1>7, <2>2
  <1>9. y \in Views(m) /\ y.id = m
    BY <1>5, <1>6, ViewOf
  <1>10. active' = a \o <<x>> /\ <<x>> \in Seq(GoodRegions(m)) /\ ClausesOfAll(<<x>>) = ClausesOf(x)
    BY <1>3, <1>4, <1>5, <1>8, AppendIsConcat, AllSmall
  <1>11. PICK p : p = ClausesOfAll(a)
    OBVIOUS
  <1>12. p \in Seq(Views(m)) /\ p \in Seq(Views(k)) /\ <<>> \in Seq(Views(m))
    BY <1>3, <1>4, <1>11, AllJoined
  <1>13. ClausesOfAll(a \o <<x>>) = p \o Append(<<>>, y)
    BY <1>4, <1>8, <1>10, <1>11, AllConcat
  <1>14. p \o Append(<<>>, y) = Append(p \o <<>>, y) /\ p \o <<>> = p
    BY <1>9, <1>12, ConcatAppend, ConcatEmptySeq
  <1>15. Store!StoreStep(p, Append(p, y))
    BY <1>2, <1>9, <1>12, AddedLast
  <1> QED
    BY <1>1, <1>3, <1>10, <1>11, <1>13, <1>14, <1>15, StoredIs, StoredWillBe

(* allocate() that finds no room adds none, whatever region it left.       *)
LEMMA CreateFailsStored ==
  ASSUME DBIInv, NEW n \in Lengths, CreateFails(n)
  PROVE  StoredClauses' = StoredClauses
  <1>1. PICK k, a : k \in Nat /\ k = created /\ a = active
    BY SizesAssumption DEF DBIInv
  <1>2. /\ a \in Seq(GoodRegions(k)) /\ spares \in Seq({EmptyRegion}) /\ pc = "idle" /\ pc' = pc
        /\ active' = a \/ active' = Append(a, NewRegion)
    BY <1>1 DEF DBIInv, CreateFails, compressVars
  <1>3. PICK e \in GoodRegions(k) : e = EmptyRegion /\ ClausesOf(e) = <<>>
    BY <1>1, EmptyGood, ClausesOfType
  <1>4. Append(a, NewRegion) = a \o <<e>>
    BY <1>2, <1>3, Filled, AppendIsConcat
  <1>5. <<e>> \in Seq(GoodRegions(k)) /\ ClausesOfAll(<<e>>) = <<>>
    BY <1>3, AllSmall
  <1>6. ClausesOfAll(a \o <<e>>) = ClausesOfAll(a) \o <<>>
    BY <1>2, <1>5, AllConcat
  <1>7. ClausesOfAll(a) \o <<>> = ClausesOfAll(a)
    BY <1>2, AllJoined, ConcatEmptySeq
  <1>8. ClausesOfAll(active') = ClausesOfAll(a)
    BY <1>2, <1>4, <1>6, <1>7
  <1> QED
    BY <1>1, <1>2, <1>8, StoredIs, StoredWillBe

(* A clause that is shortened or scheduled for deletion.                   *)
LEMMA ModifyStored ==
  ASSUME DBIInv, NEW r \in DOMAIN active, NEW o \in Places(active[r]),
         NEW c \in Clauses(created), ClauseChanges(active[r].mem[o], c),
         Modify(r, o, c)
  PROVE  Store!StoreStep(StoredClauses, StoredClauses')
  <1>1. PICK k, a, l : k \in Nat /\ k = created /\ a = active /\ l = Len(active)
    BY SizesAssumption DEF DBIInv
  <1>2. PICK q, x : q = a[r] /\ x = [q EXCEPT !.mem[o] = c]
    OBVIOUS
  <1>3. /\ a \in Seq(GoodRegions(k)) /\ pc = "idle" /\ pc' = pc
        /\ active' = [a EXCEPT ![r] = x]
    BY <1>1, <1>2 DEF DBIInv, Modify, compressVars
  <1>4. l \in Nat /\ r \in 1 .. l /\ q \in GoodRegions(k) /\ l = Len(a)
    BY <1>1, <1>2, <1>3, LenProperties, ElementOfSeq
  <1>5. x \in GoodRegions(k) /\ Store!Changed(ClausesOf(q), ClausesOf(x))
    BY <1>1, <1>2, <1>4, ModifiedClauses
  <1>6. PICK t, p, n, f, g : /\ t = active' /\ f = ClausesOf(q) /\ g = ClausesOf(x)
                             /\ p = ClausesOfAll(SubSeq(a, 1, r - 1))
                             /\ n = ClausesOfAll(SubSeq(a, r + 1, l))
    OBVIOUS
  <1>7. /\ p \in Seq(Views(k)) /\ n \in Seq(Views(k))
        /\ ClausesOfAll(t) = p \o (g \o n)
    <2>1. t = Replaced(a, r, x)
      BY <1>3, <1>6 DEF Replaced
    <2> QED
      <3>1. r \in 1 .. Len(a) /\ l = Len(a)
        BY <1>4
      <3>2. /\ ClausesOfAll(SubSeq(a, 1, r - 1)) \in Seq(Views(k))
            /\ ClausesOfAll(SubSeq(a, r + 1, Len(a))) \in Seq(Views(k))
            /\ ClausesOfAll(Replaced(a, r, x)) =
                 ClausesOfAll(SubSeq(a, 1, r - 1))
                   \o (ClausesOf(x) \o ClausesOfAll(SubSeq(a, r + 1, Len(a))))
        BY <1>3, <1>5, <3>1, ReplacedRegion
      <3> QED
        BY <1>6, <2>1, <3>1, <3>2
  <1>8. ClausesOfAll(a) = p \o (f \o n)
    <2>1. a = Replaced(a, r, q)
      BY <1>2, <1>3, <1>4, LenProperties DEF Replaced
    <2> QED
      <3>1. r \in 1 .. Len(a) /\ l = Len(a)
        BY <1>4
      <3>2. ClausesOfAll(Replaced(a, r, q)) =
              ClausesOfAll(SubSeq(a, 1, r - 1))
                \o (ClausesOf(q) \o ClausesOfAll(SubSeq(a, r + 1, Len(a))))
        BY <1>3, <1>4, <3>1, ReplacedRegion
      <3> QED
        BY <1>6, <2>1, <3>1, <3>2
  <1>9. f \in Seq(Views(k)) /\ g \in Seq(Views(k))
    BY <1>4, <1>5, <1>6, ClausesOfType
  <1>10. Store!Changed(p, p) /\ Store!Changed(n, n) /\ Store!Changed(f, g)
    BY <1>5, <1>6, <1>7, ChangedSame
  <1>11. Store!Changed(f \o n, g \o n)
    BY <1>7, <1>9, <1>10, ChangedConcat
  <1>12. f \o n \in Seq(Views(k)) /\ g \o n \in Seq(Views(k))
    BY <1>7, <1>9, ConcatProperties
  <1>13. Store!Changed(p \o (f \o n), p \o (g \o n))
    BY <1>7, <1>10, <1>11, <1>12, ChangedConcat
  <1> QED
    BY <1>1, <1>3, <1>6, <1>7, <1>8, <1>13, StoredIs, StoredWillBe DEF Store!StoreStep

LEMMA ResizeAndDeleteStored ==
  ASSUME DBIInv, NEW r \in DOMAIN active, NEW o \in ToSet(Offsets(active[r])),
         Resize(r, o) \/ ScheduleForDeletion(r, o)
  PROVE  Store!StoreStep(StoredClauses, StoredClauses')
  <1>1. created \in Nat /\ active \in Seq(GoodRegions(created))
    BY SizesAssumption DEF DBIInv
  <1>2. PICK a : a = active[r]
    OBVIOUS
  <1>3. a \in GoodRegions(created) /\ GoodRegion(a, created)
    BY <1>1, <1>2, LenProperties DEF GoodRegion
  <1>4. o \in Places(a)
    BY <1>2, <1>3, OffsetsExact
  <1>5. PICK c : c = a.mem[o]
    OBVIOUS
  <1>6. c \in Clauses(created) /\ c.len \in Nat
    BY <1>3, <1>4, <1>5, RegionFacts, SizesAssumption DEF Clauses
  <1>7. CASE Resize(r, o)
    <2>1. PICK n \in Lengths : n < c.len /\ Modify(r, o, [c EXCEPT !.len = n])
      BY <1>2, <1>5, <1>7 DEF Resize
    <2>2. PICK d : d = [c EXCEPT !.len = n]
      OBVIOUS
    <2>3. /\ d \in Clauses(created) /\ d.initial = c.initial /\ d.len = n /\ d.id = c.id
          /\ d.deleted = c.deleted
      BY <1>6, <2>2 DEF Clauses
    <2>4. ClauseChanges(c, d)
      BY <1>6, <2>1, <2>3, SizesAssumption DEF ClauseChanges
    <2> QED
      BY <1>2, <1>4, <1>5, <2>1, <2>2, <2>3, <2>4, ModifyStored
  <1>8. CASE ScheduleForDeletion(r, o)
    <2>1. PICK d : d = [c EXCEPT !.deleted = TRUE]
      OBVIOUS
    <2>2. d \in Clauses(created) /\ ClauseChanges(c, d)
      <3>1. /\ d \in Clauses(created) /\ d.initial = c.initial /\ d.len = c.len /\ d.id = c.id
            /\ d.deleted = TRUE
        BY <1>6, <2>1 DEF Clauses
      <3>2. d.len <= c.len
        BY <1>6, <3>1
      <3> QED
        BY <3>1, <3>2 DEF ClauseChanges
    <2>3. Modify(r, o, d)
      BY <1>2, <1>5, <1>8, <2>1 DEF ScheduleForDeletion
    <2> QED
      BY <1>2, <1>4, <1>5, <2>2, <2>3, ModifyStored
  <1> QED
    BY <1>7, <1>8

(* compress() begins: nothing is copied yet, and everything unread.        *)
LEMMA BeginCompressStored ==
  ASSUME DBIInv, BeginCompress
  PROVE  Store!StoreStep(StoredClauses, StoredClauses')
  <1>1. PICK k, a : k \in Nat /\ k = created /\ a = active
    BY SizesAssumption DEF DBIInv
  <1>2. /\ a \in Seq(GoodRegions(k)) /\ a # <<>> /\ spares \in Seq({EmptyRegion}) /\ spares # <<>>
        /\ pc = "idle"
    BY <1>1 DEF DBIInv, BeginCompress, IdleRight
  <1>3. PICK l \in Nat \ {0} : l = Len(a) /\ 1 \in 1 .. l /\ ~(1 > l)
    BY <1>2, EmptySeq
  <1>4. PICK e \in GoodRegions(k) : e = EmptyRegion /\ ClausesOf(e) = <<>>
    BY <1>1, EmptyGood, ClausesOfType
  <1>5. /\ active' = a /\ pc' = "compress" /\ spare' = e /\ swapIn' = 1 /\ idx' = 1
        /\ pos' = FirstClause(a[1])
    BY <1>1, <1>2, <1>4, LastAndFront DEF BeginCompress
  <1>6. UnreadOf(a, 1, FirstClause(a[1])) = ClausesOfAll(a)
    <2>1. UnreadOf(a, 1, FirstClause(a[1])) = ClausesOf(a[1]) \o ClausesOfAll(SubSeq(a, 1 + 1, Len(a)))
      BY <1>3 DEF UnreadOf, ClausesOf
    <2>2. ClausesOfAll(SubSeq(a, 1, Len(a))) = ClausesOf(a[1]) \o ClausesOfAll(SubSeq(a, 1 + 1, Len(a)))
      BY <1>2, <1>3, AllFrom
    <2>3. SubSeq(a, 1, Len(a)) = a
      BY <1>2, SubSeqFull
    <2> QED
      BY <2>1, <2>2, <2>3
  <1>7. ClausesOfAll(SubSeq(a, 1, 1 - 1)) = <<>>
    <2>1. SubSeq(a, 1, 0) = <<>> /\ 1 - 1 = 0
      BY SubSeqEmpty
    <2>2. ClausesOfAll(<<>>) = <<>>
      BY <1>4, AllSmall
    <2> QED
      BY <2>1, <2>2
  <1>8. PICK c : c = ClausesOfAll(a)
    OBVIOUS
  <1>9. c \in Seq(Views(k)) /\ Kept(c) \in Seq(Views(k))
    BY <1>2, <1>8, AllJoined, KeptJoined
  <1>10. StoredClauses' = (<<>> \o <<>>) \o Kept(c)
    BY <1>4, <1>5, <1>6, <1>7, <1>8, StoredWillBe DEF StoredOf
  <1>11. StoredClauses' = Kept(c)
    <2>1. <<>> \o <<>> = <<>>
      OBVIOUS
    <2> QED
      BY <1>9, <1>10, <2>1, ConcatEmptySeq
  <1>12. StoredClauses = c
    BY <1>1, <1>2, <1>8, StoredIs
  <1>13. Store!Kept(c) = Kept(c)
    BY DEF Store!Kept, Kept
  <1> QED
    BY <1>11, <1>12, <1>13 DEF Store!StoreStep, Store!Compressed

(* What is left to be read, with the clause that is read.                  *)
LEMMA UnreadStep ==
  ASSUME DBIInv, Visiting
  PROVE  LET next == UnreadOf(active, idx, NextClause(active[idx], pos))
         IN /\ UnreadOf(active, idx, pos) = <<Seen(Visited)>> \o next
            /\ next \in Seq(Views(created)) /\ Seen(Visited) \in Views(created)
            /\ Seen(Visited).deleted = Visited.deleted
            /\ Kept(next) \in Seq(Views(created))
            /\ Kept(UnreadOf(active, idx, pos)) =
                 IF Visited.deleted THEN Kept(next) ELSE <<Seen(Visited)>> \o Kept(next)
  <1>1. PICK k, a, i, o, r, l : /\ k = created /\ a = active /\ i = idx /\ o = pos /\ r = active[idx]
                                /\ l = Len(active)
    OBVIOUS
  <1>2. /\ k \in Nat /\ a \in Seq(GoodRegions(k)) /\ l \in Nat /\ i \in 1 .. l /\ ~(i > l)
        /\ r \in GoodRegions(k) /\ o \in Places(r) /\ r = a[i] /\ l = Len(a)
    BY <1>1, WhileVisiting
  <1>3. GoodRegion(r, k)
    BY <1>2 DEF GoodRegion
  <1>4. PICK t : t = ClausesOfAll(SubSeq(a, i + 1, l))
    OBVIOUS
  <1>5. t \in Seq(Views(k))
    <2>1. i + 1 \in Nat \ {0} /\ l \in 0 .. l
      BY <1>2
    <2>2. SubSeq(a, i + 1, l) \in Seq(GoodRegions(k))
      BY <1>2, <2>1, PartType
    <2> QED
      BY <1>4, <2>2, AllJoined
  <1>6. PICK c, v, p : /\ c = Visited /\ v = Seen(Visited)
                       /\ p = ClausesFrom(r, NextClause(r, o))
    OBVIOUS
  <1>7. v \in Views(k) /\ v.deleted = c.deleted
    <2>1. c = r.mem[o] /\ v = Seen(c)
      BY <1>1, <1>6 DEF Visited
    <2>2. c \in Clauses(k)
      BY <1>2, <1>3, <2>1, RegionFacts
    <2> QED
      BY <2>1, <2>2, ViewOf
  <1>8. p \in Seq(Views(k)) /\ ClausesFrom(r, o) = <<v>> \o p
    <2>1. v = Seen(r.mem[o])
      BY <1>1, <1>6 DEF Visited
    <2> QED
      BY <1>2, <1>3, <1>6, <2>1, ClausesFromFacts
  <1>9. PICK n : n = p \o t
    OBVIOUS
  <1>10. n \in Seq(Views(k)) /\ n = UnreadOf(a, i, NextClause(r, o))
    BY <1>2, <1>4, <1>5, <1>6, <1>8, <1>9, ConcatProperties DEF UnreadOf
  <1>11. PICK f \in Seq(Views(k)) : f = <<v>> /\ Kept(f) = IF v.deleted THEN <<>> ELSE <<v>>
    BY <1>7, KeptSmall
  <1>12. UnreadOf(a, i, o) = f \o n
    <2>1. UnreadOf(a, i, o) = (f \o p) \o t
      BY <1>2, <1>4, <1>8, <1>11 DEF UnreadOf
    <2>2. (f \o p) \o t = f \o (p \o t)
      BY <1>5, <1>8, ConcatAssociative
    <2> QED
      BY <1>9, <2>1, <2>2
  <1>13. Kept(f \o n) = Kept(f) \o Kept(n) /\ Kept(n) \in Seq(Views(k))
    BY <1>10, KeptConcat, KeptJoined
  <1>14. <<>> \o Kept(n) = Kept(n)
    BY <1>13, ConcatEmptySeq
  <1>15. Kept(UnreadOf(a, i, o)) = IF c.deleted THEN Kept(n) ELSE <<v>> \o Kept(n)
    BY <1>7, <1>11, <1>12, <1>13, <1>14
  <1> QED
    BY <1>1, <1>6, <1>7, <1>10, <1>11, <1>12, <1>13, <1>15

(* A clause scheduled for deletion was not counted, and is skipped.        *)
LEMMA SkipDeletedStored ==
  ASSUME DBIInv, SkipDeleted
  PROVE  StoredClauses' = StoredClauses
  <1>1. Visiting /\ Visited.deleted /\ pc # "idle"
    BY DEF SkipDeleted, Visiting
  <1>2. /\ pos' = NextClause(active[idx], pos) /\ active' = active /\ pc' = pc
        /\ spare' = spare /\ swapIn' = swapIn /\ idx' = idx
    BY DEF SkipDeleted
  <1>3. Kept(UnreadOf(active, idx, pos)) = Kept(UnreadOf(active, idx, NextClause(active[idx], pos)))
    BY <1>1, UnreadStep
  <1>4. StoredClauses = StoredOf(active, spare, swapIn, idx, pos)
    BY <1>1, StoredIs
  <1>5. StoredClauses' = StoredOf(active, spare, swapIn, idx, NextClause(active[idx], pos))
    BY <1>1, <1>2, StoredWillBe
  <1> QED
    BY <1>3, <1>4, <1>5 DEF StoredOf

(* A copy moves from the unread clauses to the spare region.               *)
LEMMA CopyToSpareStored ==
  ASSUME DBIInv, CopyToSpare
  PROVE  StoredClauses' = StoredClauses
  <1>1. Visiting /\ Visited.deleted = FALSE /\ pc # "idle" /\ Fits(spare, Visited.len)
    <2>1. Seen(Visited) \in Views(created) /\ Seen(Visited).deleted = Visited.deleted
      BY UnreadStep DEF CopyToSpare
    <2>2. Visited.deleted \in BOOLEAN
      BY <2>1 DEF Views
    <2> QED
      BY <2>2 DEF CopyToSpare, Visiting
  <1>2. PICK k, s, d : k = created /\ s = spare /\ d = Copy
    OBVIOUS
  <1>3. /\ pos' = NextClause(active[idx], pos) /\ active' = active /\ pc' = pc
        /\ spare' = Allocated(s, d) /\ swapIn' = swapIn /\ idx' = idx
    BY <1>2 DEF CopyToSpare
  <1>4. /\ k \in Nat /\ s \in GoodRegions(k) /\ d \in Clauses(k) /\ d.len = d.initial
        /\ Fits(s, d.len) /\ active \in Seq(GoodRegions(k))
        /\ swapIn \in 1 .. Len(active) /\ Len(active) \in Nat
    BY <1>1, <1>2, WhileVisiting, VisitedClause
  <1>5. PICK v, n, f, g :
          /\ v = Seen(Visited) /\ n = UnreadOf(active, idx, NextClause(active[idx], pos))
          /\ f = ClausesOfAll(SubSeq(active, 1, swapIn - 1)) /\ g = ClausesOf(s)
    OBVIOUS
  <1>6. Seen(d) = v
    BY <1>2, <1>5 DEF Copy, Seen
  <1>7. ClausesOf(spare') = Append(g, v) /\ g \in Seq(Views(k))
    BY <1>3, <1>4, <1>5, <1>6, AllocatedClauses, ClausesOfType
  <1>8. f \in Seq(Views(k))
    <2>1. 1 \in Nat \ {0} /\ swapIn - 1 \in 0 .. Len(active)
      BY <1>4
    <2>2. SubSeq(active, 1, swapIn - 1) \in Seq(GoodRegions(k))
      BY <1>4, <2>1, PartType
    <2> QED
      BY <1>5, <2>2, AllJoined
  <1>9. /\ Kept(n) \in Seq(Views(k)) /\ v \in Views(k)
        /\ Kept(UnreadOf(active, idx, pos)) = <<v>> \o Kept(n)
    BY <1>1, <1>2, <1>5, UnreadStep
  <1>10. StoredClauses = (f \o g) \o (<<v>> \o Kept(n))
    BY <1>1, <1>2, <1>5, <1>9, StoredIs DEF StoredOf
  <1>11. StoredClauses' = (f \o Append(g, v)) \o Kept(n)
    <2>1. StoredClauses' = StoredOf(active, spare', swapIn, idx, NextClause(active[idx], pos))
      BY <1>1, <1>3, StoredWillBe
    <2> QED
      BY <1>5, <1>7, <2>1 DEF StoredOf
  <1>12. (f \o g) \o (<<v>> \o Kept(n)) = (f \o Append(g, v)) \o Kept(n)
    <2>1. f \o Append(g, v) = Append(f \o g, v) /\ f \o g \in Seq(Views(k))
      BY <1>7, <1>8, <1>9, ConcatAppend, ConcatProperties
    <2>2. PICK b \in Seq(Views(k)), e \in Seq(Views(k)) : b = f \o g /\ e = <<v>>
      BY <1>9, <2>1, KeptSmall
    <2>3. Append(b, v) = b \o e
      BY <1>9, <2>2, AppendIsConcat
    <2>4. (b \o e) \o Kept(n) = b \o (e \o Kept(n))
      BY <1>9, ConcatAssociative
    <2> QED
      BY <2>1, <2>2, <2>3, <2>4
  <1> QED
    BY <1>10, <1>11, <1>12

(* The spare region is full: it takes its place, and the next one begins.  *)
LEMMA CopyToNextSpareStored ==
  ASSUME DBIInv, CopyToNextSpare
  PROVE  StoredClauses' = StoredClauses
  <1>1. Visiting /\ Visited.deleted = FALSE /\ pc # "idle" /\ ~Fits(spare, Visited.len)
    <2>1. Seen(Visited) \in Views(created) /\ Seen(Visited).deleted = Visited.deleted
      BY UnreadStep DEF CopyToNextSpare
    <2>2. Visited.deleted \in BOOLEAN
      BY <2>1 DEF Views
    <2> QED
      BY <2>2 DEF CopyToNextSpare, Visiting
  <1>2. swapIn < idx /\ active[swapIn] = EmptyRegion /\ Fits(EmptyRegion, Visited.len)
    BY <1>1, NextSpareEmpty
  <1>3. PICK k, a, s, d, w, i, l, x :
          /\ k = created /\ a = active /\ s = spare /\ d = Copy /\ w = swapIn /\ i = idx
          /\ l = Len(active) /\ x = NextClause(active[idx], pos)
    OBVIOUS
  <1>4. /\ pos' = x /\ active' = Replaced(a, w, s) /\ pc' = pc
        /\ spare' = Allocated(EmptyRegion, d) /\ swapIn' = w + 1 /\ idx' = i
    BY <1>2, <1>3 DEF CopyToNextSpare, Replaced
  <1>5. /\ k \in Nat /\ s \in GoodRegions(k) /\ d \in Clauses(k) /\ d.len = d.initial
        /\ Fits(EmptyRegion, d.len) /\ a \in Seq(GoodRegions(k))
        /\ w \in 1 .. l /\ l \in Nat /\ l = Len(a) /\ i \in 1 .. l /\ w < i
    BY <1>1, <1>2, <1>3, WhileVisiting, VisitedClause
  <1>6. PICK v, n, f, g, t :
          /\ v = Seen(Visited) /\ n = UnreadOf(a, i, x)
          /\ f = ClausesOfAll(SubSeq(a, 1, w - 1)) /\ g = ClausesOf(s) /\ t = Replaced(a, w, s)
    OBVIOUS
  <1>7. Seen(d) = v
    BY <1>3, <1>6 DEF Copy, Seen
  <1>8. ClausesOf(spare') = Append(<<>>, v)
    <2>1. EmptyRegion \in GoodRegions(k) /\ ClausesOf(EmptyRegion) = <<>>
      BY <1>5, EmptyGood, ClausesOfType
    <2>2. ClausesOf(Allocated(EmptyRegion, d)) = Append(ClausesOf(EmptyRegion), Seen(d))
      BY <1>5, <2>1, AllocatedClauses
    <2> QED
      BY <1>4, <1>7, <2>1, <2>2
  <1>9. /\ Kept(n) \in Seq(Views(k)) /\ v \in Views(k)
        /\ Kept(UnreadOf(a, i, pos)) = <<v>> \o Kept(n)
    BY <1>1, <1>3, <1>6, UnreadStep
  <1>10. /\ t \in Seq(GoodRegions(k)) /\ Len(t) = l /\ f \in Seq(Views(k))
         /\ t[w] = s /\ t[i] = a[i]
         /\ SubSeq(t, 1, w - 1) = SubSeq(a, 1, w - 1)
         /\ SubSeq(t, i + 1, l) = SubSeq(a, i + 1, l)
    <2>1. /\ w \in 1 .. Len(a) /\ w - 1 \in 0 .. w - 1 /\ i + 1 \in w + 1 .. Len(a) + 1
          /\ i \in 1 .. Len(a) /\ i # w
      BY <1>5
    <2>2. a \in Seq(GoodRegions(k)) /\ s \in GoodRegions(k) /\ w \in 1 .. Len(a)
      BY <1>5
    <2>3. Replaced(a, w, s) \in Seq(GoodRegions(k)) /\ Len(Replaced(a, w, s)) = Len(a)
      BY <2>2, ReplacedRegion
    <2>4. \A j \in 1 .. Len(a) : Replaced(a, w, s)[j] = IF j = w THEN s ELSE a[j]
      BY <2>2, <2>1, ReplacedRegion
    <2>5. SubSeq(Replaced(a, w, s), 1, w - 1) = SubSeq(a, 1, w - 1)
      BY <2>2, <2>1, ReplacedPrefix
    <2>6. SubSeq(Replaced(a, w, s), i + 1, Len(a)) = SubSeq(a, i + 1, Len(a))
      BY <2>2, <2>1, ReplacedRegion
    <2>7. ClausesOfAll(SubSeq(a, 1, w - 1)) \in Seq(Views(k))
      BY <2>2, <2>1, ReplacedRegion
    <2> QED
      BY <1>5, <1>6, <2>1, <2>3, <2>4, <2>5, <2>6, <2>7
  <1>11. ClausesOfAll(SubSeq(t, 1, w)) = f \o g
    <2>1. w \in 1 .. Len(t)
      BY <1>5, <1>10
    <2>2. ClausesOfAll(SubSeq(t, 1, w)) = ClausesOfAll(SubSeq(t, 1, w - 1)) \o ClausesOf(t[w])
      BY <1>10, <2>1, AllUpTo
    <2> QED
      BY <1>6, <1>10, <2>2
  <1>12. UnreadOf(t, i, x) = n
    BY <1>5, <1>6, <1>10 DEF UnreadOf
  <1>13. StoredClauses = (f \o g) \o (<<v>> \o Kept(n))
    <2>1. StoredClauses = StoredOf(a, s, w, i, pos)
      BY <1>1, <1>3, StoredIs
    <2> QED
      BY <1>6, <1>9, <2>1 DEF StoredOf
  <1>14. StoredClauses' = ((f \o g) \o Append(<<>>, v)) \o Kept(n)
    <2>1. StoredClauses' = StoredOf(t, spare', w + 1, i, x)
      BY <1>1, <1>4, <1>6, StoredWillBe
    <2>2. (w + 1) - 1 = w
      BY <1>5
    <2> QED
      BY <1>8, <1>11, <1>12, <2>1, <2>2 DEF StoredOf
  <1>15. (f \o g) \o (<<v>> \o Kept(n)) = ((f \o g) \o Append(<<>>, v)) \o Kept(n)
    <2>1. g \in Seq(Views(k))
      BY <1>5, <1>6, ClausesOfType
    <2>2. f \o g \in Seq(Views(k))
      BY <1>10, <2>1, ConcatProperties
    <2>3. PICK b \in Seq(Views(k)), e \in Seq(Views(k)) : b = f \o g /\ e = <<v>>
      BY <1>9, <2>2, KeptSmall
    <2>4. Append(<<>>, v) = e
      <3>1. Append(<<>>, v) = <<v>>
        OBVIOUS
      <3> QED
        BY <2>3, <3>1
    <2>5. (b \o e) \o Kept(n) = b \o (e \o Kept(n))
      BY <1>9, ConcatAssociative
    <2> QED
      BY <2>3, <2>4, <2>5
  <1> QED
    BY <1>13, <1>14, <1>15

(* A region that has been read is emptied; the next one is read.           *)
LEMMA RegionDoneStored ==
  ASSUME DBIInv, RegionDone
  PROVE  StoredClauses' = StoredClauses
  <1>1. PICK k, a, s, w, i, l :
          k = created /\ a = active /\ s = spare /\ w = swapIn /\ i = idx /\ l = Len(active)
    OBVIOUS
  <1>2. /\ pc = "compress" /\ pc' = pc /\ i <= l /\ pos = End
        /\ active' = Replaced(a, i, EmptyRegion)
        /\ idx' = i + 1 /\ spare' = s /\ swapIn' = w
        /\ pos' = IF i < l THEN FirstClause(a[i + 1]) ELSE End
    BY <1>1 DEF RegionDone, Replaced
  <1>3. /\ k \in Nat /\ a \in Seq(GoodRegions(k)) /\ s \in GoodRegions(k) /\ CompressRight
        /\ l \in Nat /\ l = Len(a)
    BY <1>1, <1>2, SizesAssumption, LenProperties DEF DBIInv
  <1>4. w \in 1 .. l /\ i \in w .. l /\ i \in 1 .. l /\ ~(i > l)
    <2>1. w \in 1 .. l /\ i \in w .. l + 1
      BY <1>1, <1>3 DEF CompressRight
    <2> QED
      BY <1>2, <1>3, <2>1
  <1>5. EmptyRegion \in GoodRegions(k)
    BY <1>3, EmptyGood
  <1>6. PICK t : t = Replaced(a, i, EmptyRegion)
    OBVIOUS
  <1>7. /\ Len(t) = l /\ \A j \in i + 1 .. l : t[j] = a[j]
        /\ SubSeq(t, 1, w - 1) = SubSeq(a, 1, w - 1)
        /\ \A j \in i + 1 .. l + 1 : SubSeq(t, j, l) = SubSeq(a, j, l)
    <2>1. i \in 1 .. Len(a) /\ w - 1 \in 0 .. i - 1 /\ \A j \in i + 1 .. l : j \in 1 .. l /\ j # i
      BY <1>3, <1>4
    <2>2. PICK e \in GoodRegions(k) : e = EmptyRegion
      BY <1>5
    <2>3. a \in Seq(GoodRegions(k)) /\ i \in 1 .. Len(a)
      BY <1>3, <2>1
    <2>4. Len(Replaced(a, i, e)) = Len(a)
      BY <2>3, ReplacedRegion
    <2>5. \A j \in 1 .. Len(a) : Replaced(a, i, e)[j] = IF j = i THEN e ELSE a[j]
      BY <2>3, ReplacedRegion
    <2>6. SubSeq(Replaced(a, i, e), 1, w - 1) = SubSeq(a, 1, w - 1)
      BY <2>3, <2>1, ReplacedPrefix
    <2>7. \A j \in i + 1 .. Len(a) + 1 :
            SubSeq(Replaced(a, i, e), j, Len(a)) = SubSeq(a, j, Len(a))
      BY <2>3, ReplacedRegion
    <2> QED
      BY <1>3, <1>6, <2>1, <2>2, <2>4, <2>5, <2>6, <2>7
  <1>8. UnreadOf(a, i, End) = ClausesOfAll(SubSeq(a, i + 1, l))
    <2>1. a[i] \in GoodRegions(k)
      BY <1>3, <1>4, ElementOfSeq
    <2>2. ClausesFrom(a[i], End) = <<>>
      BY <2>1, ClausesFromFacts DEF GoodRegion
    <2>3. i + 1 \in Nat \ {0} /\ l \in 0 .. l
      BY <1>3, <1>4
    <2>4. SubSeq(a, i + 1, l) \in Seq(GoodRegions(k))
      BY <1>3, <2>3, PartType
    <2>5. PICK c : c = ClausesOfAll(SubSeq(a, i + 1, l))
      OBVIOUS
    <2>6. c \in Seq(Views(k))
      BY <2>4, <2>5, AllJoined
    <2>7. <<>> \o c = c
      BY <2>6, ConcatEmptySeq
    <2> QED
      BY <1>3, <1>4, <2>2, <2>5, <2>7 DEF UnreadOf
  <1>9. UnreadOf(t, i + 1, pos') = ClausesOfAll(SubSeq(a, i + 1, l))
    <2>1. CASE i < l
      <3>1. PICK j \in 1 .. l : j = i + 1
        BY <1>3, <1>4, <2>1
      <3>2. /\ j \in i + 1 .. l /\ j + 1 \in i + 1 .. l + 1 /\ ~(j > l)
        BY <1>3, <1>4, <3>1
      <3>3. t[j] = a[j] /\ SubSeq(t, j + 1, l) = SubSeq(a, j + 1, l)
        BY <1>7, <3>2
      <3>4. UnreadOf(t, j, FirstClause(a[j])) = ClausesOf(a[j]) \o ClausesOfAll(SubSeq(a, j + 1, l))
        BY <1>7, <3>2, <3>3 DEF UnreadOf, ClausesOf
      <3>5. ClausesOfAll(SubSeq(a, j, l)) = ClausesOf(a[j]) \o ClausesOfAll(SubSeq(a, j + 1, l))
        BY <1>3, <3>1, AllFrom
      <3> QED
        BY <1>2, <2>1, <3>1, <3>4, <3>5
    <2>2. CASE ~(i < l)
      <3>1. i + 1 > l /\ i + 1 \in Int /\ l \in Int /\ l < i + 1
        BY <1>3, <1>4, <2>2
      <3>2. SubSeq(a, i + 1, l) = <<>>
        BY <3>1, SubSeqEmpty
      <3>3. ClausesOfAll(<<>>) = <<>>
        BY <1>3, AllSmall
      <3>4. UnreadOf(t, i + 1, pos') = <<>>
        BY <1>7, <3>1 DEF UnreadOf
      <3> QED
        BY <3>2, <3>3, <3>4
    <2> QED
      BY <2>1, <2>2
  <1>10. StoredClauses = StoredOf(a, s, w, i, End)
    BY <1>1, <1>2, StoredIs
  <1>11. StoredClauses' = StoredOf(t, s, w, i + 1, pos')
    BY <1>2, <1>6, StoredWillBe
  <1> QED
    BY <1>7, <1>8, <1>9, <1>10, <1>11 DEF StoredOf

(* The last spare region takes its place; empty regions are dropped.       *)
LEMMA FinishCompressStored ==
  ASSUME DBIInv, FinishCompress
  PROVE  StoredClauses' = StoredClauses
  <1>1. PICK k, a, s, w, i, l :
          k = created /\ a = active /\ s = spare /\ w = swapIn /\ i = idx /\ l = Len(active)
    OBVIOUS
  <1>2. pc = "compress" /\ i > l /\ pc' = "idle"
    BY <1>1 DEF FinishCompress
  <1>3. /\ k \in Nat /\ a \in Seq(GoodRegions(k)) /\ s \in GoodRegions(k) /\ CompressRight
        /\ l \in Nat /\ l = Len(a)
    BY <1>1, <1>2, SizesAssumption, LenProperties DEF DBIInv
  <1>4. w \in 1 .. l /\ i = l + 1 /\ \A j \in w .. l : a[j] = EmptyRegion
    <2>1. w \in 1 .. l /\ i \in w .. l + 1 /\ \A j \in w .. i - 1 : a[j] = EmptyRegion
      BY <1>1, <1>3 DEF CompressRight
    <2>2. i = l + 1 /\ i - 1 = l
      BY <1>2, <1>3, <2>1
    <2> QED
      BY <2>1, <2>2
  <1>5. PICK t : t = Replaced(a, w, s)
    OBVIOUS
  <1>6. PICK kept : kept = CHOOSE n \in DOMAIN t :
                             /\ n = 1 \/ t[n].used # 0
                             /\ \A j \in n + 1 .. Len(t) : t[j].used = 0
    OBVIOUS
  <1>7. PICK f, g, n, r : /\ f = ClausesOfAll(SubSeq(a, 1, w - 1)) /\ g = ClausesOf(s)
                          /\ r = SubSeq(a, w + 1, l) /\ n = ClausesOfAll(r)
    OBVIOUS
  <1>8. /\ t \in Seq(GoodRegions(k)) /\ Len(t) = l /\ f \in Seq(Views(k))
        /\ ClausesOfAll(t) = f \o (g \o n)
    <2>1. w \in 1 .. Len(a)
      BY <1>3, <1>4
    <2>2. Replaced(a, w, s) \in Seq(GoodRegions(k)) /\ Len(Replaced(a, w, s)) = Len(a)
      BY <1>3, <2>1, ReplacedRegion
    <2>3. ClausesOfAll(SubSeq(a, 1, w - 1)) \in Seq(Views(k))
      BY <1>3, <2>1, ReplacedRegion
    <2>4. ClausesOfAll(Replaced(a, w, s)) =
            ClausesOfAll(SubSeq(a, 1, w - 1))
              \o (ClausesOf(s) \o ClausesOfAll(SubSeq(a, w + 1, Len(a))))
      BY <1>3, <2>1, ReplacedRegion
    <2> QED
      BY <1>3, <1>5, <1>7, <2>2, <2>3, <2>4
  <1>9. n = <<>>
    <2>1. /\ w + 1 \in Int /\ l \in Int
          /\ \A j \in w + 1 .. l : j \in w .. l /\ j \in 1 .. l
          /\ \A j \in 1 .. l - (w + 1) + 1 : (w + 1) + j - 1 \in w + 1 .. l
      BY <1>3, <1>4
    <2>2. \A j \in w + 1 .. l : a[j] = EmptyRegion /\ a[j] \in GoodRegions(k)
      BY <1>3, <1>4, <2>1, ElementOfSeq
    <2>3. /\ r \in Seq(GoodRegions(k))
          /\ Len(r) = IF w + 1 <= l THEN l - (w + 1) + 1 ELSE 0
          /\ \A j \in 1 .. l - (w + 1) + 1 : r[j] = a[(w + 1) + j - 1]
      BY <1>7, <2>1, <2>2, SubSeqProperties
    <2>4. \A j \in 1 .. Len(r) : j \in 1 .. l - (w + 1) + 1
      BY <1>3, <1>4, <2>3
    <2>5. \A j \in 1 .. Len(r) : r[j] = EmptyRegion
      BY <2>1, <2>2, <2>3, <2>4
    <2> QED
      BY <1>3, <1>7, <2>3, <2>5, AllOfEmpty
  <1>10. g \in Seq(Views(k)) /\ f \o g \in Seq(Views(k))
    BY <1>3, <1>7, <1>8, ClausesOfType, ConcatProperties
  <1>11. ClausesOfAll(t) = f \o g
    <2>1. g \o <<>> = g
      BY <1>10, ConcatEmptySeq
    <2> QED
      BY <1>8, <1>9, <2>1
  <1>12. kept \in 1 .. l /\ \A j \in kept + 1 .. l : t[j].used = 0
    <2>1. DOMAIN t = 1 .. l /\ t # <<>>
      BY <1>3, <1>4, <1>8, LenProperties, EmptySeq
    <2>2. \E n1 \in DOMAIN t :
            /\ n1 = 1 \/ t[n1].used # 0
            /\ \A j \in n1 + 1 .. Len(t) : t[j].used = 0
      BY <1>8, <2>1, KeptRegions
    <2> QED
      BY <1>6, <1>8, <2>1, <2>2
  <1>13. active' = SubSeq(t, 1, kept)
    <2>1. t = [active EXCEPT ![swapIn] = spare]
      BY <1>1, <1>5 DEF Replaced
    <2> QED
      BY <1>6, <2>1, Zenon DEF FinishCompress
  <1>14. ClausesOfAll(t) = ClausesOfAll(SubSeq(t, 1, kept))
    <2>1. PICK b, e : b = SubSeq(t, 1, kept) /\ e = SubSeq(t, kept + 1, l)
      OBVIOUS
    <2>2. kept \in 0 .. Len(t)
      BY <1>8, <1>12
    <2>3. /\ SubSeq(t, 1, kept) \in Seq(GoodRegions(k))
          /\ SubSeq(t, kept + 1, Len(t)) \in Seq(GoodRegions(k))
          /\ ClausesOfAll(t) =
               ClausesOfAll(SubSeq(t, 1, kept)) \o ClausesOfAll(SubSeq(t, kept + 1, Len(t)))
      BY <1>8, <2>2, AllSplit
    <2>4. /\ b \in Seq(GoodRegions(k)) /\ e \in Seq(GoodRegions(k))
          /\ ClausesOfAll(t) = ClausesOfAll(b) \o ClausesOfAll(e)
      BY <1>8, <2>1, <2>3
    <2>5. \A j \in 1 .. Len(e) : e[j] = EmptyRegion
      <3>1. /\ kept + 1 \in Int /\ l \in Int
            /\ \A j \in kept + 1 .. l : j \in 1 .. l
            /\ \A j \in 1 .. l - (kept + 1) + 1 : (kept + 1) + j - 1 \in kept + 1 .. l
        BY <1>3, <1>12
      <3>2. ASSUME NEW j \in kept + 1 .. l
            PROVE  t[j] = EmptyRegion /\ t[j] \in GoodRegions(k)
        <4>1. t[j] \in GoodRegions(k) /\ t[j].used = 0
          BY <1>8, <1>12, <3>1, ElementOfSeq
        <4> QED
          BY <4>1, UnusedIsEmpty
      <3>3. /\ Len(e) = IF kept + 1 <= l THEN l - (kept + 1) + 1 ELSE 0
            /\ \A j \in 1 .. l - (kept + 1) + 1 : e[j] = t[(kept + 1) + j - 1]
        BY <2>1, <3>1, <3>2, SubSeqProperties
      <3>4. \A j \in 1 .. Len(e) : j \in 1 .. l - (kept + 1) + 1
        BY <1>3, <1>12, <3>3
      <3> QED
        BY <3>1, <3>2, <3>3, <3>4
    <2>6. ClausesOfAll(e) = <<>>
      BY <1>3, <2>4, <2>5, AllOfEmpty
    <2>7. ClausesOfAll(b) \o <<>> = ClausesOfAll(b)
      BY <2>4, AllJoined, ConcatEmptySeq
    <2> QED
      BY <2>1, <2>4, <2>6, <2>7
  <1>15. StoredClauses' = f \o g
    BY <1>2, <1>11, <1>13, <1>14, StoredWillBe
  <1>16. StoredClauses = (f \o g) \o <<>>
    <2>1. UnreadOf(a, i, pos) = <<>>
      BY <1>2, <1>3 DEF UnreadOf
    <2>2. Kept(<<>>) = <<>>
      BY KeptSmall
    <2>3. StoredClauses = StoredOf(a, s, w, i, pos)
      BY <1>1, <1>2, StoredIs
    <2> QED
      BY <1>7, <2>1, <2>2, <2>3 DEF StoredOf
  <1> QED
    BY <1>10, <1>15, <1>16, ConcatEmptySeq

(* The database implements ClauseStore: no addition, shortening or         *)
(* compaction loses, duplicates or exchanges a clause, and compress()      *)
(* removes the clauses scheduled for deletion and no others                *)
(* (IterableClauseDB.h:608-680).                                           *)
THEOREM StoreImplemented == Spec => ImplementsStore
  <1>1. Init => StoredClauses = <<>>
    <2> SUFFICES ASSUME Init
                 PROVE  StoredClauses = <<>>
      OBVIOUS
    <2>1. active = <<>> /\ pc = "idle" /\ EmptyRegion \in GoodRegions(0)
      BY EmptyGood DEF Init
    <2>2. ClausesOfAll(<<>>) = <<>>
      BY <2>1, AllSmall
    <2> QED
      BY <2>1, <2>2, StoredIs
  <1>2. DBIInv /\ [Next]_dbVars => [Store!StoreStep(StoredClauses, StoredClauses')]_StoredClauses
    <2> SUFFICES ASSUME DBIInv, [Next]_dbVars
                 PROVE  Store!StoreStep(StoredClauses, StoredClauses') \/ StoredClauses' = StoredClauses
      OBVIOUS
    <2>1. ASSUME Client
          PROVE  Store!StoreStep(StoredClauses, StoredClauses') \/ StoredClauses' = StoredClauses
      <3>1. ASSUME NEW n \in Lengths, CreateInRegion(n) \/ CreateInNewRegion(n) \/ CreateFails(n)
            PROVE  Store!StoreStep(StoredClauses, StoredClauses') \/ StoredClauses' = StoredClauses
        BY <3>1, CreateInRegionStored, CreateInNewRegionStored, CreateFailsStored
      <3>2. ASSUME NEW r \in DOMAIN active, NEW o \in ToSet(Offsets(active[r])),
                   Resize(r, o) \/ ScheduleForDeletion(r, o)
            PROVE  Store!StoreStep(StoredClauses, StoredClauses')
        BY <3>2, ResizeAndDeleteStored
      <3> QED
        BY <2>1, <3>1, <3>2, BeginCompressStored DEF Client
    <2>2. ASSUME CompressStep
          PROVE  StoredClauses' = StoredClauses
      BY <2>2, SkipDeletedStored, CopyToSpareStored, CopyToNextSpareStored, RegionDoneStored,
         FinishCompressStored DEF CompressStep
    <2>3. ASSUME UNCHANGED dbVars
          PROVE  StoredClauses' = StoredClauses
      BY <2>3 DEF dbVars, compressVars, StoredClauses, Unread
    <2> QED
      BY <2>1, <2>2, <2>3 DEF Next
  <1> QED
    BY <1>1, <1>2, DBInvariant, PTL DEF Spec, ImplementsStore, Store!StoreSpec

=============================================================================
