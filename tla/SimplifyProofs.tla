--------------------------- MODULE SimplifyProofs ---------------------------
(***************************************************************************)
(* Proofs about the occurrence map, for any optimizer that keeps to its    *)
(* preconditions, and about the FactCleaner, for every problem.            *)
(***************************************************************************)
EXTENDS FactCleaner, FiniteSetTheorems, SequenceTheorems, TLAPS

----------------------------------------------------------------------------
(* The inductive invariant of the occurrence map.  The list of a literal   *)
(* holds the clauses that contain it, those that lost it since the list    *)
(* was purged, which are pending, and deleted ones; in the last two cases  *)
(* the list is known to be stale.                                          *)
MapTypes ==
  /\ content \in [Clauses -> SUBSET Lits] /\ pending \in [Clauses -> SUBSET Lits]
  /\ deleted \in SUBSET Clauses /\ modified \in SUBSET Clauses /\ inserted \in SUBSET Clauses
  /\ stale \in SUBSET Lits
  /\ occList \in [Lits -> Seq(Clauses)]

Lists(c, l) == c \in ToSet(occList[l])

ListsRight ==
  /\ \A l \in Lits : IsInjective(occList[l])
  /\ \A c \in Clauses, l \in Lits :
       IF c \in deleted THEN Lists(c, l) => l \in stale
       ELSE Lists(c, l) <=> c \in inserted /\ l \in content[c] \cup pending[c]

PendingRight ==
  /\ modified = {c \in Clauses : pending[c] # {}}
  /\ \A c \in Clauses \ deleted :
       /\ pending[c] \cap content[c] = {} /\ pending[c] \subseteq stale
       /\ pending[c] # {} => c \in inserted

MapIInv == MapTypes /\ ListsRight /\ PendingRight

----------------------------------------------------------------------------
(* The inductive invariant of the FactCleaner.                             *)

Facts == ToSet(facts)

CleanerTypes ==
  /\ pc \in {"idle", "delete", "strengthen", "unsat", "other"}
  /\ facts \in Seq(Lits) /\ IsInjective(facts)
  /\ factsCleaned \in 0 .. Len(facts)
  /\ todo \in Seq(Clauses) /\ IsInjective(todo)
  /\ next \in 1 .. Len(facts) + 1
  /\ proof \in [DOMAIN proof -> Nat \ {0}]

(* Between two calls there is no map.                                      *)
MapRight ==
  IF pc \in {"delete", "strengthen"} THEN Clauses \ deleted \subseteq inserted
  ELSE inserted = {} /\ \A c \in Clauses : pending[c] = {}

(* There are no units in the problem, and of every clause there is a copy  *)
(* in the proof.                                                           *)
Occurring(C) == {c \in Clauses \ deleted : content[c] = C}
ClausesRight ==
  /\ \A c \in Clauses \ deleted : Cardinality(content[c]) >= 2
  /\ \A C \in SUBSET Lits : Copies(C, proof) >= Cardinality(Occurring(C))
  /\ ModelsOf(Live \cup UnitsOf(Facts)) = ModelsOf(problem)

(* The facts are closed under propagation: a clause without a fact has two *)
(* literals that will stay.                                                *)
FactsRight ==
  /\ factsCleaned = Len(facts)
  /\ \A f \in Facts : Neg(f) \notin Facts
  /\ \A c \in Clauses \ deleted :
       \/ \E f \in Facts : f \in content[c]
       \/ \E l, m \in content[c] : l # m /\ Neg(l) \notin Facts /\ Neg(m) \notin Facts

(* What has been looked up has been cleared, except for what is still in   *)
(* the range; clauses in the range exist and contain the literal.          *)
ClearedOf(L) == \A c \in Clauses \ deleted, l \in L : l \notin content[c]
RangeRight(sign) ==
  /\ \A k \in 1 .. next - 1 : \A c \in Clauses \ deleted :
       sign * facts[k] \in content[c] => k = next - 1 /\ c \in ToSet(todo)
  /\ todo # <<>> => next > 1
  /\ \A c \in ToSet(todo) : c \notin deleted /\ sign * facts[next - 1] \in content[c]

LoopRight ==
  /\ pc = "delete" => /\ FactsRight /\ RangeRight(1)
                      /\ \A c \in Clauses \ deleted : pending[c] = {}
  /\ pc = "strengthen" => FactsRight /\ ClearedOf(Facts) /\ RangeRight(-1)
  /\ pc = "idle" /\ Len(facts) = factsCleaned =>
       ClearedOf(Facts) /\ ClearedOf({Neg(f) : f \in Facts})
  /\ pc \notin {"delete", "strengthen"} => todo = <<>>

CleanerIInv ==
  /\ MapIInv
  /\ IF pc = "other" THEN todo = <<>>
     ELSE CleanerTypes /\ MapRight /\ ClausesRight /\ LoopRight

----------------------------------------------------------------------------
(* Lists.                                                                  *)

LEMMA Neighbours ==
  ASSUME NEW S, NEW s \in Seq(S)
  PROVE  Len(s) \in Nat /\ DOMAIN s = 1 .. Len(s) /\ ToSet(s) \subseteq S
         /\ ToSet(s) = {s[i] : i \in 1 .. Len(s)}
  BY LenProperties, ElementOfSeq DEF ToSet

(* What a set of numbers has when it has n + 1 whenever it has n.          *)
LEMMA Induction ==
  ASSUME NEW T, 0 \in T, \A n \in Nat : n \in T => n + 1 \in T
  PROVE  \A n \in Nat : n \in T
  <1> DEFINE Less == {ss \in Nat \X Nat : ss[1] < ss[2]}
             U == {n \in Nat : n \notin T}
  <1> SUFFICES ASSUME U # {}
               PROVE  FALSE
    OBVIOUS
  <1>1. IsWellFoundedOn(Less, Nat)
    BY NatLessThanWellFounded DEF OpToRel
  <1>2. \A x, y \in Nat : <<y, x>> \in Less <=> y < x
    OBVIOUS
  <1>3. U \in SUBSET Nat
    OBVIOUS
  <1> HIDE DEF Less
  <1>4. \E x \in U : \A y \in U : ~ (<<y, x>> \in Less)
    <2> HIDE DEF U
    <2> QED
      BY <1>1, <1>3, WFMin, Zenon
  <1>5. PICK x \in U : \A y \in U : ~(y < x)
    BY <1>2, <1>4
  <1>6. x \in Nat /\ x # 0 /\ x - 1 \in Nat /\ (x - 1) + 1 = x
    BY <1>5
  <1>7. x - 1 \in T
    BY <1>5, <1>6
  <1> QED
    BY <1>5, <1>6, <1>7

FilterStep(s, T, f, i) ==
  IF i = 0 THEN <<>> ELSE IF s[i] \in T THEN Append(f[i - 1], s[i]) ELSE f[i - 1]

(* The function by which Filtered is defined exists.                       *)
LEMMA FilterDefined ==
  ASSUME NEW S, NEW s \in Seq(S), NEW T
  PROVE  \E f : /\ \A i \in 0 .. Len(s) : f[i] = FilterStep(s, T, f, i)
                /\ Filtered(s, T) = f[Len(s)]
  <1> DEFINE D == 0 .. Len(s)
             K == {k \in Nat : k <= Len(s) =>
                     \E f \in [D -> Seq(S)] : \A i \in 0 .. k : f[i] = FilterStep(s, T, f, i)}
  <1>1. Len(s) \in Nat /\ \A i \in 1 .. Len(s) : s[i] \in S
    BY LenProperties, ElementOfSeq
  <1>2. 0 \in K
    <2>1. [i \in D |-> <<>>] \in [D -> Seq(S)]
      OBVIOUS
    <2>2. \A i \in 0 .. 0 : [j \in D |-> <<>>][i] = FilterStep(s, T, [j \in D |-> <<>>], i)
      BY <1>1 DEF FilterStep
    <2> QED
      BY <2>1, <2>2
  <1>3. ASSUME NEW k \in Nat, k \in K
        PROVE  k + 1 \in K
    <2> SUFFICES ASSUME k + 1 <= Len(s)
                 PROVE  \E f \in [D -> Seq(S)] : \A i \in 0 .. k + 1 : f[i] = FilterStep(s, T, f, i)
      OBVIOUS
    <2>1. PICK f \in [D -> Seq(S)] : \A i \in 0 .. k : f[i] = FilterStep(s, T, f, i)
      BY <1>1, <1>3
    <2>2. PICK n \in D \ {0} : n = k + 1 /\ n - 1 = k
      BY <1>1
    <2>3. FilterStep(s, T, f, n) \in Seq(S)
      <3>1. f[n - 1] \in Seq(S) /\ s[n] \in S
        BY <1>1, <2>1, <2>2
      <3>2. Append(f[n - 1], s[n]) \in Seq(S)
        BY <3>1, AppendProperties
      <3> QED
        BY <2>2, <3>1, <3>2 DEF FilterStep
    <2> DEFINE g == [f EXCEPT ![n] = FilterStep(s, T, f, n)]
    <2>4. g \in [D -> Seq(S)] /\ g[n] = FilterStep(s, T, f, n) /\ \A i \in D : i # n => g[i] = f[i]
      BY <2>2, <2>3
    <2> HIDE DEF g
    <2>5. ASSUME NEW i \in 0 .. k + 1
          PROVE  g[i] = FilterStep(s, T, g, i)
      <3>1. i \in D /\ (i # 0 => i - 1 \in D /\ i - 1 # n) /\ (i # n => i \in 0 .. k)
        BY <1>1, <2>2
      <3>2. FilterStep(s, T, g, i) = FilterStep(s, T, f, i)
        BY <2>4, <3>1 DEF FilterStep
      <3> QED
        BY <2>1, <2>4, <3>1, <3>2
    <2> QED
      BY <2>4, <2>5
  <1>4. PICK h \in [D -> Seq(S)] : \A i \in D : h[i] = FilterStep(s, T, h, i)
    <2>1. Len(s) \in K
      <3> HIDE DEF K
      <3> QED
        BY <1>1, <1>2, <1>3, Induction
    <2>2. Len(s) <= Len(s)
      BY <1>1
    <2> QED
      BY <2>1, <2>2
  <1> DEFINE upTo == CHOOSE f : f = [i \in 0 .. Len(s) |->
                       IF i = 0 THEN <<>>
                       ELSE IF s[i] \in T THEN Append(f[i - 1], s[i]) ELSE f[i - 1]]
  <1>5. h = [i \in 0 .. Len(s) |->
               IF i = 0 THEN <<>>
               ELSE IF s[i] \in T THEN Append(h[i - 1], s[i]) ELSE h[i - 1]]
    BY <1>4 DEF FilterStep
  <1>6. upTo = [i \in 0 .. Len(s) |->
                  IF i = 0 THEN <<>>
                  ELSE IF s[i] \in T THEN Append(upTo[i - 1], s[i]) ELSE upTo[i - 1]]
    BY <1>5
  <1>7. Filtered(s, T) = upTo[Len(s)]
    BY DEF Filtered
  <1>8. \A i \in 0 .. Len(s) : upTo[i] = FilterStep(s, T, upTo, i)
    BY <1>6 DEF FilterStep
  <1> HIDE DEF upTo
  <1> QED
    BY <1>7, <1>8

(* A list with one more element.                                           *)
LEMMA AppendFacts ==
  ASSUME NEW S, NEW s \in Seq(S), NEW x \in S
  PROVE  /\ Append(s, x) \in Seq(S) /\ ToSet(Append(s, x)) = ToSet(s) \cup {x}
         /\ IsInjective(s) /\ x \notin ToSet(s) => IsInjective(Append(s, x))
  <1>1. PICK n, t : n = Len(s) /\ t = Append(s, x)
    OBVIOUS
  <1>2. /\ n \in Nat /\ t \in Seq(S) /\ Len(t) = n + 1 /\ t[n + 1] = x
        /\ \A i \in 1 .. n : t[i] = s[i]
    BY <1>1, AppendProperties, LenProperties
  <1>3. /\ DOMAIN s = 1 .. n /\ DOMAIN t = 1 .. n + 1
        /\ ToSet(s) = {s[i] : i \in 1 .. n} /\ ToSet(t) = {t[i] : i \in 1 .. n + 1}
    <2>1. DOMAIN s = 1 .. n /\ ToSet(s) = {s[i] : i \in 1 .. n}
      BY <1>1, Neighbours
    <2>2. PICK m : m = Len(t)
      OBVIOUS
    <2>3. DOMAIN t = 1 .. m /\ ToSet(t) = {t[i] : i \in 1 .. m}
      BY <1>2, <2>2, Neighbours
    <2> QED
      BY <1>2, <2>1, <2>2, <2>3
  <1>4. \A i \in 1 .. n + 1 : i = n + 1 \/ i \in 1 .. n
    BY <1>2
  <1>5. \A i \in 1 .. n : i \in 1 .. n + 1 /\ i # n + 1
    BY <1>2
  <1>6. n + 1 \in 1 .. n + 1
    BY <1>2
  <1>7. ToSet(t) = ToSet(s) \cup {x}
    <2>1. ASSUME NEW y \in ToSet(t)
          PROVE  y \in ToSet(s) \cup {x}
      BY <1>2, <1>3, <1>4, <2>1
    <2>2. ASSUME NEW y \in ToSet(s) \cup {x}
          PROVE  y \in ToSet(t)
      BY <1>2, <1>3, <1>5, <1>6, <2>2
    <2> QED
      BY <2>1, <2>2
  <1>8. ASSUME IsInjective(s), x \notin ToSet(s)
        PROVE  IsInjective(t)
    <2> SUFFICES ASSUME NEW i \in 1 .. n + 1, NEW j \in 1 .. n + 1, t[i] = t[j]
                 PROVE  i = j
      BY <1>3 DEF IsInjective
    <2>1. CASE i \in 1 .. n /\ j \in 1 .. n
      BY <1>2, <1>3, <1>8, <2>1 DEF IsInjective
    <2>2. CASE i = n + 1 /\ j \in 1 .. n
      BY <1>2, <1>3, <1>8, <2>2
    <2>3. CASE j = n + 1 /\ i \in 1 .. n
      BY <1>2, <1>3, <1>8, <2>3
    <2> QED
      BY <1>4, <2>1, <2>2, <2>3
  <1> QED
    BY <1>1, <1>2, <1>7, <1>8

LEMMA EmptyFacts ==
  ToSet(<<>>) = {} /\ IsInjective(<<>>)
  BY DEF ToSet, IsInjective

(* A filtered list has just the elements that pass, each once if each was  *)
(* there once.                                                             *)
LEMMA FilteredFacts ==
  ASSUME NEW S, NEW s \in Seq(S), NEW T
  PROVE  /\ Filtered(s, T) \in Seq(S) /\ ToSet(Filtered(s, T)) = ToSet(s) \cap T
         /\ IsInjective(s) => IsInjective(Filtered(s, T))
  <1>1. PICK f : /\ \A i \in 0 .. Len(s) : f[i] = FilterStep(s, T, f, i)
                 /\ Filtered(s, T) = f[Len(s)]
    BY FilterDefined
  <1>2. PICK n \in Nat : n = Len(s)
    BY LenProperties
  <1>3. /\ \A i \in 1 .. n : s[i] \in S
        /\ DOMAIN s = 1 .. n /\ ToSet(s) = {s[i] : i \in 1 .. n}
    BY <1>2, Neighbours, ElementOfSeq
  <1> DEFINE Good(k) == /\ f[k] \in Seq(S) /\ ToSet(f[k]) = {s[j] : j \in 1 .. k} \cap T
                        /\ IsInjective(s) => IsInjective(f[k])
             K == {k \in Nat : k <= n => Good(k)}
  <1>4. 0 \in K
    <2>1. f[0] = <<>>
      BY <1>1, <1>2 DEF FilterStep
    <2>2. <<>> \in Seq(S) /\ {s[j] : j \in 1 .. 0} = {}
      OBVIOUS
    <2> QED
      BY <2>1, <2>2, EmptyFacts
  <1>5. ASSUME NEW k \in Nat, k \in K
        PROVE  k + 1 \in K
    <2> SUFFICES ASSUME k + 1 <= n
                 PROVE  Good(k + 1)
      OBVIOUS
    <2>1. f[k] \in Seq(S) /\ ToSet(f[k]) = {s[j] : j \in 1 .. k} \cap T /\ (IsInjective(s) => IsInjective(f[k]))
      BY <1>2, <1>5
    <2>2. PICK m \in 1 .. n : m = k + 1 /\ m - 1 = k
      BY <1>2
    <2>3. f[m] = IF s[m] \in T THEN Append(f[k], s[m]) ELSE f[k]
      <3>1. m \in 0 .. Len(s) /\ m # 0
        BY <1>2, <2>2
      <3>2. f[m] = FilterStep(s, T, f, m)
        BY <1>1, <3>1
      <3> QED
        BY <2>2, <3>1, <3>2 DEF FilterStep
    <2>4. {s[j] : j \in 1 .. m} = {s[j] : j \in 1 .. k} \cup {s[m]}
      <3>1. \A j : j \in 1 .. m <=> j \in 1 .. k \/ j = m
        BY <2>2
      <3> QED
        BY <3>1
    <2>5. CASE s[m] \in T
      <3>1. /\ Append(f[k], s[m]) \in Seq(S)
            /\ ToSet(Append(f[k], s[m])) = ToSet(f[k]) \cup {s[m]}
            /\ IsInjective(f[k]) /\ s[m] \notin ToSet(f[k]) => IsInjective(Append(f[k], s[m]))
        BY <1>3, <2>1, AppendFacts
      <3>2. IsInjective(s) => s[m] \notin ToSet(f[k])
        <4> SUFFICES ASSUME IsInjective(s), NEW j \in 1 .. k, s[m] = s[j]
                     PROVE  FALSE
          BY <2>1
        <4>1. j \in 1 .. n /\ j # m
          BY <1>2, <2>2
        <4> QED
          BY <1>3, <4>1 DEF IsInjective
      <3>3. Good(m)
        BY <2>1, <2>3, <2>4, <2>5, <3>1, <3>2
      <3> QED
        BY <2>2, <3>3
    <2>6. CASE s[m] \notin T
      <3>1. Good(m)
        BY <2>1, <2>3, <2>4, <2>6
      <3> QED
        BY <2>2, <3>1
    <2> QED
      BY <2>5, <2>6
  <1>6. Good(n)
    <2>1. n \in K
      <3> HIDE DEF K
      <3> QED
        BY <1>4, <1>5, Induction
    <2>2. n <= n
      BY <1>2
    <2> QED
      BY <2>1, <2>2
  <1> QED
    BY <1>1, <1>2, <1>3, <1>6

LEMMA ConcatFacts ==
  ASSUME NEW S, NEW s \in Seq(S), NEW t \in Seq(S)
  PROVE  /\ s \o t \in Seq(S) /\ ToSet(s \o t) = ToSet(s) \cup ToSet(t)
         /\ IsInjective(s) /\ IsInjective(t) /\ ToSet(s) \cap ToSet(t) = {} => IsInjective(s \o t)
  <1>1. PICK n, m, u : n = Len(s) /\ m = Len(t) /\ u = s \o t
    OBVIOUS
  <1>2. /\ n \in Nat /\ m \in Nat /\ u \in Seq(S) /\ Len(u) = n + m
        /\ \A i \in 1 .. n + m : u[i] = IF i <= n THEN s[i] ELSE t[i - n]
    BY <1>1, ConcatProperties, LenProperties
  <1>3. DOMAIN s = 1 .. n /\ ToSet(s) = {s[i] : i \in 1 .. n}
    BY <1>1, Neighbours
  <1>4. DOMAIN t = 1 .. m /\ ToSet(t) = {t[i] : i \in 1 .. m}
    BY <1>1, Neighbours
  <1>5. DOMAIN u = 1 .. n + m /\ ToSet(u) = {u[i] : i \in 1 .. n + m}
    BY <1>2, Neighbours
  <1>6. \A i \in 1 .. n + m : \/ i \in 1 .. n /\ u[i] = s[i]
                              \/ i > n /\ i - n \in 1 .. m /\ u[i] = t[i - n]
    BY <1>2
  <1>7. \A i \in 1 .. n : i \in 1 .. n + m /\ u[i] = s[i]
    BY <1>2
  <1>8. \A i \in 1 .. m : i + n \in 1 .. n + m /\ u[i + n] = t[i]
    <2> SUFFICES ASSUME NEW i \in 1 .. m
                 PROVE  i + n \in 1 .. n + m /\ u[i + n] = t[i]
      OBVIOUS
    <2>1. i + n \in 1 .. n + m /\ ~(i + n <= n) /\ (i + n) - n = i
      BY <1>2
    <2> QED
      BY <1>2, <2>1
  <1>9. ToSet(u) = ToSet(s) \cup ToSet(t)
    <2>1. ASSUME NEW y \in ToSet(u)
          PROVE  y \in ToSet(s) \cup ToSet(t)
      BY <1>3, <1>4, <1>5, <1>6, <2>1
    <2>2. ASSUME NEW y \in ToSet(s) \cup ToSet(t)
          PROVE  y \in ToSet(u)
      BY <1>3, <1>4, <1>5, <1>7, <1>8, <2>2
    <2> QED
      BY <2>1, <2>2
  <1>10. ASSUME IsInjective(s), IsInjective(t), ToSet(s) \cap ToSet(t) = {}
         PROVE  IsInjective(u)
    <2> SUFFICES ASSUME NEW i \in 1 .. n + m, NEW j \in 1 .. n + m, u[i] = u[j]
                 PROVE  i = j
      BY <1>5 DEF IsInjective
    <2>1. CASE i \in 1 .. n /\ j \in 1 .. n
      BY <1>3, <1>7, <1>10, <2>1 DEF IsInjective
    <2>2. CASE ~(i \in 1 .. n) /\ ~(j \in 1 .. n)
      <3>1. i - n \in 1 .. m /\ j - n \in 1 .. m /\ t[i - n] = t[j - n]
        BY <1>6, <2>2
      <3>2. i - n = j - n
        BY <1>4, <1>10, <3>1 DEF IsInjective
      <3> QED
        BY <1>2, <3>2
    <2>3. CASE i \in 1 .. n <=> ~(j \in 1 .. n)
      <3>1. \/ u[i] \in ToSet(s) /\ u[j] \in ToSet(t)
            \/ u[j] \in ToSet(s) /\ u[i] \in ToSet(t)
        BY <1>3, <1>4, <1>6, <1>7, <2>3
      <3> QED
        BY <1>10, <3>1
    <2> QED
      BY <2>1, <2>2, <2>3
  <1> QED
    BY <1>1, <1>2, <1>9, <1>10
----------------------------------------------------------------------------
(* The operations of the map.                                              *)

(* What is in the list of a literal after it has been purged.              *)
LEMMA PurgedFacts ==
  ASSUME MapIInv, NEW l \in Lits
  PROVE  /\ Purged(l) \in Seq(Clauses) /\ IsInjective(Purged(l))
         /\ \A c \in Clauses : c \in ToSet(Purged(l)) <=> c \notin deleted /\ c \in inserted /\ l \in content[c]
  <1>1. occList[l] \in Seq(Clauses) /\ IsInjective(occList[l])
    BY DEF MapIInv, MapTypes, ListsRight
  <1>2. PICK T : T = Clauses \ (deleted \cup WronglyIn(l))
    OBVIOUS
  <1>3. Purged(l) = Filtered(occList[l], T)
    BY <1>2 DEF Purged
  <1>4. /\ Filtered(occList[l], T) \in Seq(Clauses) /\ IsInjective(Filtered(occList[l], T))
        /\ ToSet(Filtered(occList[l], T)) = ToSet(occList[l]) \cap T
    BY <1>1, FilteredFacts
  <1>5. ASSUME NEW c \in Clauses
        PROVE  c \in ToSet(Purged(l)) <=> c \notin deleted /\ c \in inserted /\ l \in content[c]
    <2>1. c \in ToSet(Purged(l)) <=> Lists(c, l) /\ c \notin deleted /\ ~(c \in modified /\ l \in pending[c])
      BY <1>2, <1>3, <1>4 DEF WronglyIn, Lists
    <2>2. c \notin deleted => /\ Lists(c, l) <=> c \in inserted /\ (l \in content[c] \/ l \in pending[c])
                              /\ l \in pending[c] => c \in modified
                              /\ ~(l \in pending[c] /\ l \in content[c])
      BY DEF MapIInv, ListsRight, PendingRight
    <2> QED
      BY <2>1, <2>2
  <1> QED
    BY <1>3, <1>4, <1>5

(* What lists and what is pending after the lists of L have been purged.   *)
LEMMA UpdateKeeps ==
  ASSUME MapIInv, NEW L \in SUBSET stale, UpdateAll(L), UNCHANGED <<content, deleted, inserted>>
  PROVE  /\ MapIInv'
         /\ \A c \in Clauses : pending'[c] \subseteq pending[c]
  <1>1. /\ MapTypes /\ ListsRight /\ PendingRight
        /\ content' = content /\ deleted' = deleted /\ inserted' = inserted
        /\ L \subseteq Lits
    BY DEF MapIInv, MapTypes
  <1>2. /\ occList' = [l \in Lits |-> IF l \in L THEN Purged(l) ELSE occList[l]]
        /\ pending' = [c \in Clauses |-> pending[c] \ Settled(c, L)]
        /\ modified' = {c \in modified : Settled(c, L) = {} \/ pending[c] \ Settled(c, L) # {}}
        /\ stale' = stale \ L
    BY DEF UpdateAll
  <1>3. MapTypes'
    <2>1. occList' \in [Lits -> Seq(Clauses)]
      BY <1>1, <1>2, PurgedFacts DEF MapTypes
    <2> QED
      BY <1>1, <1>2, <2>1 DEF MapTypes
  <1>4. ASSUME NEW c \in Clauses \ deleted
        PROVE  Settled(c, L) = L \cap pending[c]
    <2>1. ASSUME NEW l \in L, l \in pending[c]
          PROVE  c \in WronglyIn(l) /\ c \in ToSet(occList[l])
      <3>1. c \in modified /\ c \in inserted /\ l \in Lits
        BY <1>1, <2>1 DEF PendingRight
      <3>2. Lists(c, l)
        BY <1>1, <2>1, <3>1 DEF ListsRight
      <3> QED
        BY <2>1, <3>1, <3>2 DEF WronglyIn, Lists
    <2>2. \A l \in L : c \in WronglyIn(l) => l \in pending[c]
      BY DEF WronglyIn
    <2> QED
      BY <2>1, <2>2 DEF Settled
  <1>5. \A c \in deleted : Settled(c, L) = {}
    BY DEF Settled
  <1>6. \A c \in Clauses : pending'[c] = pending[c] \ Settled(c, L)
    BY <1>2
  <1>7. ListsRight'
    <2>1. ASSUME NEW l \in Lits
          PROVE  IsInjective(occList'[l])
      BY <1>1, <1>2, PurgedFacts DEF ListsRight
    <2>2. ASSUME NEW c \in Clauses, NEW l \in Lits
          PROVE  IF c \in deleted THEN c \in ToSet(occList'[l]) => l \in stale'
                 ELSE c \in ToSet(occList'[l]) <=> c \in inserted /\ l \in content[c] \cup pending'[c]
      <3>1. CASE l \in L
        <4>1. occList'[l] = Purged(l)
          BY <1>2, <3>1
        <4>2. c \in ToSet(occList'[l]) <=> c \notin deleted /\ c \in inserted /\ l \in content[c]
          BY <4>1, PurgedFacts
        <4>3. c \notin deleted => l \notin pending'[c]
          BY <1>4, <1>6, <3>1
        <4> QED
          BY <4>2, <4>3
      <3>2. CASE l \notin L
        <4>1. occList'[l] = occList[l]
          BY <1>2, <3>2
        <4>2. l \in pending'[c] <=> l \in pending[c]
          BY <1>4, <1>5, <1>6, <3>2
        <4>3. IF c \in deleted THEN c \in ToSet(occList[l]) => l \in stale
              ELSE c \in ToSet(occList[l]) <=> c \in inserted /\ l \in content[c] \cup pending[c]
          BY <1>1 DEF ListsRight, Lists
        <4> QED
          BY <1>2, <3>2, <4>1, <4>2, <4>3
      <3> QED
        BY <3>1, <3>2
    <2> QED
      BY <1>1, <2>1, <2>2 DEF ListsRight, Lists
  <1>8. PendingRight'
    <2>1. ASSUME NEW c \in Clauses
          PROVE  c \in modified' <=> pending'[c] # {}
      <3>1. c \in modified <=> pending[c] # {}
        BY <1>1 DEF PendingRight
      <3> QED
        BY <1>2, <1>6, <3>1
    <2>2. modified' = {c \in Clauses : pending'[c] # {}}
      BY <1>3, <2>1 DEF MapTypes
    <2>3. ASSUME NEW c \in Clauses \ deleted
          PROVE  /\ pending'[c] \cap content[c] = {} /\ pending'[c] \subseteq stale'
                 /\ pending'[c] # {} => c \in inserted
      <3>1. /\ pending[c] \cap content[c] = {} /\ pending[c] \subseteq stale
            /\ pending[c] # {} => c \in inserted
        BY <1>1 DEF PendingRight
      <3> QED
        BY <1>2, <1>4, <1>6, <3>1
    <2> QED
      BY <1>1, <2>2, <2>3 DEF PendingRight
  <1> QED
    BY <1>3, <1>6, <1>7, <1>8 DEF MapIInv

(* operator[] returns the clauses that contain the literal, each once.     *)
LEMMA LookupStep ==
  ASSUME MapIInv, NEW l \in Lits, Lookup(l)
  PROVE  /\ MapIInv'
         /\ \A c \in Clauses : pending'[c] \subseteq pending[c]
         /\ occList'[l] \in Seq(Clauses) /\ IsInjective(occList'[l])
         /\ \A c \in Clauses : c \in ToSet(occList'[l]) <=> c \notin deleted /\ c \in inserted /\ l \in content[c]
  <1>1. PICK L : L = {l} \cap stale
    OBVIOUS
  <1>2. L \in SUBSET stale /\ UpdateAll(L) /\ UNCHANGED <<content, deleted, inserted>>
    BY <1>1 DEF Lookup
  <1>3. MapIInv' /\ \A c \in Clauses : pending'[c] \subseteq pending[c]
    BY <1>2, UpdateKeeps
  <1>4. occList'[l] \in Seq(Clauses) /\ IsInjective(occList'[l])
    BY <1>3 DEF MapIInv, MapTypes, ListsRight
  <1>5. ASSUME NEW c \in Clauses
        PROVE  c \in ToSet(occList'[l]) <=> c \notin deleted /\ c \in inserted /\ l \in content[c]
    <2>1. CASE l \in stale
      <3>1. occList'[l] = Purged(l)
        BY <1>1, <1>2, <2>1 DEF UpdateAll
      <3> QED
        BY <3>1, PurgedFacts
    <2>2. CASE l \notin stale
      <3>1. occList'[l] = occList[l]
        BY <1>1, <1>2, <2>2 DEF UpdateAll
      <3>2. IF c \in deleted THEN ~Lists(c, l)
            ELSE /\ l \notin pending[c]
                 /\ Lists(c, l) <=> c \in inserted /\ l \in content[c] \cup pending[c]
        BY <2>2 DEF MapIInv, ListsRight, PendingRight
      <3> QED
        BY <3>1, <3>2 DEF Lists
    <2> QED
      BY <2>1, <2>2
  <1> QED
    BY <1>3, <1>4, <1>5

(* insert() puts clauses into the map that were not in it.                 *)
LEMMA InsertStep ==
  ASSUME MapIInv, NEW C \in SUBSET Clauses, C \cap inserted = {}, InsertAll(C)
  PROVE  MapIInv'
  <1>1. /\ MapTypes /\ ListsRight /\ PendingRight
        /\ inserted' = inserted \cup (C \ deleted)
        /\ occList' = [l \in Lits |-> occList[l] \o NewIn(l, C)]
        /\ content' = content /\ deleted' = deleted /\ modified' = modified
        /\ stale' = stale /\ pending' = pending
    BY DEF MapIInv, InsertAll
  <1>2. ASSUME NEW l \in Lits
        PROVE  /\ NewIn(l, C) \in Seq(Clauses) /\ IsInjective(NewIn(l, C))
               /\ ToSet(NewIn(l, C)) = {c \in C \ deleted : l \in content[c]}
    <2>1. PICK s, T : s = [c \in Clauses |-> c] /\ T = {c \in C \ deleted : l \in content[c]}
      OBVIOUS
    <2>2. s \in Seq(Clauses) /\ IsInjective(s) /\ ToSet(s) = Clauses
      BY <2>1, NumClausesAssumption DEF Clauses, IsInjective, ToSet
    <2>3. /\ Filtered(s, T) \in Seq(Clauses) /\ IsInjective(Filtered(s, T))
          /\ ToSet(Filtered(s, T)) = ToSet(s) \cap T
      BY <2>2, FilteredFacts
    <2>4. NewIn(l, C) = Filtered(s, T)
      BY <2>1 DEF NewIn
    <2> QED
      BY <2>1, <2>2, <2>3, <2>4
  <1>3. ASSUME NEW l \in Lits
        PROVE  /\ occList'[l] \in Seq(Clauses) /\ IsInjective(occList'[l])
               /\ ToSet(occList'[l]) = ToSet(occList[l]) \cup {c \in C \ deleted : l \in content[c]}
    <2>1. PICK s, t : s = occList[l] /\ t = NewIn(l, C)
      OBVIOUS
    <2>2. s \in Seq(Clauses) /\ IsInjective(s) /\ t \in Seq(Clauses) /\ IsInjective(t)
      BY <1>1, <1>2, <2>1 DEF MapTypes, ListsRight
    <2>3. ToSet(s) \cap ToSet(t) = {}
      <3> SUFFICES ASSUME NEW c \in ToSet(s), c \in ToSet(t)
                   PROVE  FALSE
        OBVIOUS
      <3>1. c \in C /\ c \notin deleted /\ c \in Clauses /\ Lists(c, l)
        BY <1>2, <2>1 DEF Lists
      <3>2. c \in inserted
        BY <1>1, <3>1 DEF ListsRight
      <3> QED
        BY <3>1, <3>2
    <2>4. /\ s \o t \in Seq(Clauses) /\ IsInjective(s \o t)
          /\ ToSet(s \o t) = ToSet(s) \cup ToSet(t)
      BY <2>2, <2>3, ConcatFacts
    <2> QED
      BY <1>1, <1>2, <2>1, <2>4
  <1>4. MapTypes'
    BY <1>1, <1>3 DEF MapTypes
  <1>5. ListsRight'
    <2>1. ASSUME NEW c \in Clauses, NEW l \in Lits
          PROVE  IF c \in deleted THEN c \in ToSet(occList'[l]) => l \in stale
                 ELSE c \in ToSet(occList'[l]) <=> c \in inserted' /\ l \in content[c] \cup pending[c]
      <3>1. c \in ToSet(occList'[l]) <=> Lists(c, l) \/ (c \in C /\ c \notin deleted /\ l \in content[c])
        BY <1>3 DEF Lists
      <3>2. IF c \in deleted THEN Lists(c, l) => l \in stale
            ELSE Lists(c, l) <=> c \in inserted /\ l \in content[c] \cup pending[c]
        BY <1>1 DEF ListsRight
      <3>3. c \in C /\ c \notin deleted => pending[c] = {}
        BY <1>1 DEF PendingRight
      <3> QED
        BY <1>1, <3>1, <3>2, <3>3
    <2> QED
      BY <1>1, <1>3, <2>1 DEF ListsRight, Lists
  <1>6. PendingRight'
    BY <1>1 DEF PendingRight
  <1> QED
    BY <1>4, <1>5, <1>6 DEF MapIInv

(* remove() leaves the lists alone: they are stale now.                    *)
LEMMA RemoveStep ==
  ASSUME MapIInv, NEW c \in Clauses, RemoveClause(c)
  PROVE  MapIInv'
  <1>1. /\ MapTypes /\ ListsRight /\ PendingRight
        /\ deleted' = deleted \cup {c} /\ stale' = stale \cup content[c]
        /\ content' = content /\ modified' = modified /\ inserted' = inserted
        /\ occList' = occList /\ pending' = pending
    BY DEF MapIInv, RemoveClause
  <1>2. MapTypes'
    BY <1>1 DEF MapTypes
  <1>3. ListsRight'
    <2>1. ASSUME NEW d \in Clauses, NEW l \in Lits
          PROVE  IF d \in deleted' THEN Lists(d, l) => l \in stale'
                 ELSE Lists(d, l) <=> d \in inserted /\ l \in content[d] \cup pending[d]
      <3>1. IF d \in deleted THEN Lists(d, l) => l \in stale
            ELSE Lists(d, l) <=> d \in inserted /\ l \in content[d] \cup pending[d]
        BY <1>1 DEF ListsRight
      <3>2. d \notin deleted => pending[d] \subseteq stale
        BY <1>1 DEF PendingRight
      <3> QED
        BY <1>1, <3>1, <3>2
    <2> QED
      BY <1>1, <2>1 DEF ListsRight, Lists
  <1>4. PendingRight'
    BY <1>1 DEF PendingRight
  <1> QED
    BY <1>2, <1>3, <1>4 DEF MapIInv

(* setModified(), for literals that the clause did not have and for some   *)
(* that it had.                                                            *)
LEMMA SetModifiedStep ==
  ASSUME MapIInv, NEW c \in inserted \ deleted, NEW add \in SUBSET Lits,
         NEW drop \in SUBSET content[c], add \cap content[c] = {}, SetModified(c, add, drop)
  PROVE  MapIInv'
  <1>1. /\ MapTypes /\ ListsRight /\ PendingRight /\ c \in Clauses /\ drop \subseteq Lits
        /\ content' = [content EXCEPT ![c] = (content[c] \ drop) \cup add]
        /\ occList' = [l \in Lits |->
                         IF l \in add \ pending[c] THEN Append(occList[l], c) ELSE occList[l]]
        /\ pending' = [pending EXCEPT ![c] = (pending[c] \ add) \cup drop]
        /\ modified' = IF pending'[c] = {} THEN modified \ {c} ELSE modified \cup {c}
        /\ stale' = stale \cup drop
        /\ deleted' = deleted /\ inserted' = inserted
    BY DEF MapIInv, MapTypes, SetModified
  <1>2. /\ content'[c] = (content[c] \ drop) \cup add
        /\ pending'[c] = (pending[c] \ add) \cup drop
        /\ \A d \in Clauses : d # c => content'[d] = content[d] /\ pending'[d] = pending[d]
        /\ content' \in [Clauses -> SUBSET Lits] /\ pending' \in [Clauses -> SUBSET Lits]
    BY <1>1 DEF MapTypes
  <1>3. ASSUME NEW l \in Lits
        PROVE  /\ occList'[l] \in Seq(Clauses) /\ IsInjective(occList'[l])
               /\ ToSet(occList'[l]) = IF l \in add \ pending[c] THEN ToSet(occList[l]) \cup {c} ELSE ToSet(occList[l])
    <2>1. occList[l] \in Seq(Clauses) /\ IsInjective(occList[l])
      BY <1>1 DEF MapTypes, ListsRight
    <2>2. CASE l \in add \ pending[c]
      <3>1. c \notin ToSet(occList[l])
        BY <1>1, <2>2 DEF ListsRight, Lists
      <3>2. occList'[l] = Append(occList[l], c)
        BY <1>1, <2>2
      <3> QED
        BY <1>1, <2>1, <2>2, <3>1, <3>2, AppendFacts
    <2>3. CASE l \notin add \ pending[c]
      BY <1>1, <2>1, <2>3
    <2> QED
      BY <2>2, <2>3
  <1>4. MapTypes'
    BY <1>1, <1>2, <1>3 DEF MapTypes
  <1>5. ListsRight'
    <2>1. ASSUME NEW d \in Clauses, NEW l \in Lits
          PROVE  IF d \in deleted THEN d \in ToSet(occList'[l]) => l \in stale'
                 ELSE d \in ToSet(occList'[l]) <=> d \in inserted /\ l \in content'[d] \cup pending'[d]
      <3>1. IF d \in deleted THEN Lists(d, l) => l \in stale
            ELSE Lists(d, l) <=> d \in inserted /\ l \in content[d] \cup pending[d]
        BY <1>1 DEF ListsRight
      <3>2. CASE d # c
        <4>1. d \in ToSet(occList'[l]) <=> Lists(d, l)
          <5>1. ToSet(occList'[l]) = ToSet(occList[l]) \cup {c} \/ ToSet(occList'[l]) = ToSet(occList[l])
            BY <1>3
          <5> QED
            BY <3>2, <5>1 DEF Lists
        <4> QED
          BY <1>1, <1>2, <3>1, <3>2, <4>1
      <3>3. CASE d = c
        <4>1. c \in ToSet(occList'[l]) <=> Lists(c, l) \/ l \in add \ pending[c]
          BY <1>3 DEF Lists
        <4> QED
          BY <1>2, <3>1, <3>3, <4>1
      <3> QED
        BY <3>2, <3>3
    <2> QED
      BY <1>1, <1>3, <2>1 DEF ListsRight, Lists
  <1>6. PendingRight'
    <2>1. modified' = {d \in Clauses : pending'[d] # {}}
      <3>1. modified = {d \in Clauses : pending[d] # {}}
        BY <1>1 DEF PendingRight
      <3> QED
        BY <1>1, <1>2, <3>1
    <2>2. ASSUME NEW d \in Clauses \ deleted
          PROVE  /\ pending'[d] \cap content'[d] = {} /\ pending'[d] \subseteq stale'
                 /\ pending'[d] # {} => d \in inserted
      <3>1. /\ pending[d] \cap content[d] = {} /\ pending[d] \subseteq stale
            /\ pending[d] # {} => d \in inserted
        BY <1>1 DEF PendingRight
      <3>2. CASE d = c
        BY <1>1, <1>2, <3>1, <3>2
      <3>3. CASE d # c
        BY <1>1, <1>2, <3>1, <3>3
      <3> QED
        BY <3>2, <3>3
    <2> QED
      BY <1>1, <2>1, <2>2 DEF PendingRight
  <1> QED
    BY <1>4, <1>5, <1>6 DEF MapIInv

(* resolveModifications() leaves nothing pending.                          *)
LEMMA ResolveStep ==
  ASSUME MapIInv, ResolveModifications
  PROVE  MapIInv' /\ \A c \in Clauses : pending'[c] = {}
  <1>1. PICK L : L = stale \cap UNION {pending[c] : c \in Clauses}
    OBVIOUS
  <1>2. /\ occList' = [l \in Lits |-> IF l \in L THEN Purged(l) ELSE occList[l]]
        /\ pending' = [c \in Clauses |-> pending[c] \ Settled(c, L)]
        /\ stale' = stale \ L
        /\ modified' = {c \in modified : pending[c] = {}}
        /\ content' = content /\ deleted' = deleted /\ inserted' = inserted
        /\ \A c \in deleted : pending[c] = {}
    BY <1>1 DEF ResolveModifications
  <1>3. MapTypes /\ ListsRight /\ PendingRight /\ L \subseteq Lits
    BY <1>1 DEF MapIInv, MapTypes
  <1>4. ASSUME NEW c \in Clauses, NEW l \in pending[c]
        PROVE  l \in Settled(c, L)
    <2>1. c \notin deleted
      BY <1>2, <1>4
    <2>2. l \in stale /\ c \in inserted /\ c \in modified /\ l \in Lits
      BY <1>3, <1>4, <2>1 DEF PendingRight, MapTypes
    <2>3. Lists(c, l)
      BY <1>3, <1>4, <2>1, <2>2 DEF ListsRight
    <2>4. l \in L
      BY <1>1, <1>4, <2>2
    <2> QED
      BY <1>4, <2>1, <2>2, <2>3, <2>4 DEF Settled, WronglyIn, Lists
  <1>5. \A c \in Clauses : pending'[c] = {}
    BY <1>2, <1>4
  <1>6. modified' = {}
    BY <1>2, <1>3 DEF PendingRight
  <1>7. MapTypes'
    <2>1. occList' \in [Lits -> Seq(Clauses)]
      BY <1>2, <1>3, PurgedFacts DEF MapTypes
    <2> QED
      BY <1>2, <1>3, <1>6, <2>1 DEF MapTypes
  <1>8. ListsRight'
    <2>1. ASSUME NEW l \in Lits
          PROVE  IsInjective(occList'[l])
      BY <1>2, <1>3, PurgedFacts DEF ListsRight
    <2>2. ASSUME NEW c \in Clauses, NEW l \in Lits
          PROVE  IF c \in deleted THEN c \in ToSet(occList'[l]) => l \in stale'
                 ELSE c \in ToSet(occList'[l]) <=> c \in inserted /\ l \in content[c] \cup pending'[c]
      <3>1. CASE l \in L
        <4>1. occList'[l] = Purged(l)
          BY <1>2, <3>1
        <4>2. c \in ToSet(occList'[l]) <=> c \notin deleted /\ c \in inserted /\ l \in content[c]
          BY <4>1, PurgedFacts
        <4> QED
          BY <1>5, <4>2
      <3>2. CASE l \notin L
        <4>1. occList'[l] = occList[l] /\ l \notin pending[c]
          BY <1>2, <1>4, <3>2 DEF Settled
        <4>2. IF c \in deleted THEN c \in ToSet(occList[l]) => l \in stale
              ELSE c \in ToSet(occList[l]) <=> c \in inserted /\ l \in content[c] \cup pending[c]
          BY <1>3 DEF ListsRight, Lists
        <4> QED
          BY <1>2, <1>5, <3>2, <4>1, <4>2
      <3> QED
        BY <3>1, <3>2
    <2> QED
      BY <1>2, <2>1, <2>2 DEF ListsRight, Lists
  <1>9. PendingRight'
    BY <1>2, <1>5, <1>6 DEF PendingRight
  <1> QED
    BY <1>5, <1>7, <1>8, <1>9 DEF MapIInv

(* A map that is cleared, or goes, with nothing pending.                   *)
LEMMA EmptiedStep ==
  ASSUME MapIInv, Clear \/ Destroy
  PROVE  MapIInv' /\ inserted' = {} /\ \A c \in Clauses : pending'[c] = {}
  <1>1. /\ MapTypes /\ PendingRight
        /\ inserted' = {} /\ occList' = [l \in Lits |-> <<>>]
        /\ content' = content /\ deleted' = deleted
    BY DEF MapIInv, Clear, Destroy
  <1>2. /\ \A c \in Clauses : pending'[c] = {}
        /\ pending' \in [Clauses -> SUBSET Lits] /\ modified' = {} /\ stale' \in SUBSET Lits
    <2>1. CASE Clear
      BY <1>1, <2>1 DEF Clear, MapTypes, PendingRight
    <2>2. CASE Destroy
      BY <1>1, <2>2 DEF Destroy, MapTypes, PendingRight
    <2> QED
      BY <2>1, <2>2
  <1>3. \A l \in Lits : occList'[l] = <<>>
    BY <1>1
  <1>4. MapTypes'
    BY <1>1, <1>2 DEF MapTypes
  <1>5. ListsRight'
    BY <1>1, <1>2, <1>3, EmptyFacts DEF ListsRight, Lists
  <1>6. PendingRight'
    BY <1>1, <1>2 DEF PendingRight
  <1> QED
    BY <1>1, <1>2, <1>4, <1>5, <1>6 DEF MapIInv

(* Any optimizer that keeps to the preconditions keeps the map right.      *)
LEMMA OptimizerStep ==
  ASSUME MapIInv, AnyOptimizer(TouchedClauses, TouchedLits)
  PROVE  MapIInv'
  <1>1. ASSUME NEW c \in TouchedClauses \ inserted, c \notin deleted, InsertAll({c})
        PROVE  MapIInv'
    <2>1. {c} \in SUBSET Clauses /\ {c} \cap inserted = {}
      BY TouchedAssumption
    <2> QED
      BY <1>1, <2>1, InsertStep
  <1>2. ASSUME NEW c \in (TouchedClauses \cap inserted) \ deleted, RemoveClause(c)
        PROVE  MapIInv'
    BY <1>2, TouchedAssumption, RemoveStep
  <1>3. ASSUME NEW c \in (TouchedClauses \cap inserted) \ deleted,
               NEW drop \in SUBSET (TouchedLits \cap content[c]),
               NEW add \in SUBSET (TouchedLits \ content[c]), SetModified(c, add, drop)
        PROVE  MapIInv'
    <2>1. /\ c \in inserted \ deleted /\ drop \in SUBSET content[c] /\ add \in SUBSET Lits
          /\ add \cap content[c] = {}
      BY TouchedAssumption
    <2> QED
      BY <1>3, <2>1, SetModifiedStep
  <1>4. ASSUME NEW l \in Lits, Lookup(l)
        PROVE  MapIInv'
    BY <1>4, LookupStep
  <1>5. ResolveModifications \/ Clear \/ Destroy => MapIInv'
    BY ResolveStep, EmptiedStep
  <1> QED
    BY <1>1, <1>2, <1>3, <1>4, <1>5 DEF AnyOptimizer
(* What looking a literal up would return in any state the map can be in.  *)
LEMMA LookupsRight ==
  ASSUME MapIInv
  PROVE  LookupExact
  <1> DEFINE found(l) == IF l \in stale THEN Purged(l) ELSE occList[l]
  <1>1. ASSUME NEW l \in Lits
        PROVE  /\ found(l) \in Seq(Clauses) /\ IsInjective(found(l))
               /\ \A c \in Clauses : c \in ToSet(found(l)) <=> c \notin deleted /\ c \in inserted /\ l \in content[c]
    <2>1. CASE l \in stale
      BY <2>1, PurgedFacts
    <2>2. CASE l \notin stale
      <3>1. occList[l] \in Seq(Clauses) /\ IsInjective(occList[l])
        BY DEF MapIInv, MapTypes, ListsRight
      <3>2. ASSUME NEW c \in Clauses
            PROVE  c \in ToSet(occList[l]) <=> c \notin deleted /\ c \in inserted /\ l \in content[c]
        <4>1. IF c \in deleted THEN ~Lists(c, l)
              ELSE /\ l \notin pending[c]
                   /\ Lists(c, l) <=> c \in inserted /\ l \in content[c] \cup pending[c]
          BY <2>2 DEF MapIInv, ListsRight, PendingRight
        <4> QED
          BY <4>1 DEF Lists
      <3> QED
        BY <2>2, <3>1, <3>2
    <2> QED
      BY <2>1, <2>2
  <1>2. ASSUME NEW l \in Lits
        PROVE  ToSet(found(l)) = {c \in inserted \ deleted : l \in content[c]}
    <2>1. ToSet(found(l)) \subseteq Clauses
      BY <1>1, Neighbours
    <2>2. inserted \subseteq Clauses
      BY DEF MapIInv, MapTypes
    <2> QED
      BY <1>1, <2>1, <2>2
  <1> QED
    BY <1>1, <1>2 DEF LookupExact

----------------------------------------------------------------------------
(* Literals, sequences of literals, and bags of clauses.                   *)

LEMMA LitFacts ==
  /\ IsFiniteSet(Lits) /\ IsFiniteSet(Clauses)
  /\ \A l \in Lits : /\ Neg(l) \in Lits /\ Neg(Neg(l)) = l /\ Neg(l) # l
                     /\ 1 * l = l /\ (-1) * l = Neg(l)
  <1>1. PICK n \in Nat : n = NumVars
    BY NumVarsAssumption
  <1>2. IsFiniteSet(-n .. n) /\ Lits \in SUBSET (-n .. n)
    BY <1>1, FS_Interval DEF Lits
  <1>3. IsFiniteSet(Lits)
    BY <1>2, FS_Subset
  <1>4. IsFiniteSet(Clauses)
    BY NumClausesAssumption, FS_Interval DEF Clauses
  <1>5. ASSUME NEW l \in Lits
        PROVE  /\ Neg(l) \in Lits /\ Neg(Neg(l)) = l /\ Neg(l) # l
               /\ 1 * l = l /\ (-1) * l = Neg(l)
    BY <1>1 DEF Lits, Neg
  <1> QED
    BY <1>3, <1>4, <1>5

(* A sequence that has each element of a set once.                         *)
LEMMA SeqsOfSet ==
  ASSUME NEW S, IsFiniteSet(S), NEW f \in SetToSeqs(S)
  PROVE  f \in Seq(S) /\ Len(f) = Cardinality(S) /\ IsInjective(f) /\ ToSet(f) = S
  <1>1. PICK n \in Nat : n = Cardinality(S)
    BY FS_CardinalityType
  <1>2. f \in [1 .. n -> S] /\ \A i, j \in 1 .. n : i # j => f[i] # f[j]
    BY <1>1 DEF SetToSeqs
  <1>3. f \in Seq(S) /\ Len(f) = n /\ IsInjective(f) /\ ToSet(f) = {f[i] : i \in 1 .. n}
    BY <1>2 DEF IsInjective, ToSet
  <1>4. S \subseteq ToSet(f)
    <2> SUFFICES ASSUME NEW x \in S, \A i \in 1 .. n : f[i] # x
                 PROVE  FALSE
      BY <1>3
    <2>1. IsFiniteSet(S \ {x}) /\ Cardinality(S \ {x}) = n - 1
      BY <1>1, FS_RemoveElement
    <2>2. IsFiniteSet(1 .. n) /\ Cardinality(1 .. n) = n
      BY FS_Interval
    <2>3. f \in [1 .. n -> S \ {x}] /\ n - 1 < n
      BY <1>2
    <2>4. Cardinality(S \ {x}) < Cardinality(1 .. n)
      BY <2>1, <2>2, <2>3
    <2>5. \E i, j \in 1 .. n : i # j /\ f[i] = f[j]
      BY <2>1, <2>2, <2>3, <2>4, FS_PigeonHole
    <2> QED
      BY <1>2, <2>5
  <1> QED
    BY <1>1, <1>2, <1>3, <1>4

IsBag(b) == b \in [DOMAIN b -> Nat \ {0}]

(* The copies of a clause in a bag that gains or loses another one.        *)
LEMMA AddedCopies ==
  ASSUME NEW b, IsBag(b), NEW D
  PROVE  /\ IsBag(b (+) SetToBag({D}))
         /\ \A C : Copies(C, b (+) SetToBag({D})) = IF C = D THEN Copies(C, b) + 1 ELSE Copies(C, b)
         /\ \A C : Copies(C, b) \in Nat
  <1>1. PICK s, t : s = SetToBag({D}) /\ t = b (+) SetToBag({D})
    OBVIOUS
  <1>2. DOMAIN s = {D} /\ s[D] = 1
    BY <1>1 DEF SetToBag
  <1>3. /\ t = [e \in DOMAIN t |-> (IF e \in DOMAIN b THEN b[e] ELSE 0) + (IF e \in DOMAIN s THEN s[e] ELSE 0)]
        /\ DOMAIN t = DOMAIN b \cup DOMAIN s
    BY <1>1 DEF (+)
  <1>4. \A e \in DOMAIN b : b[e] \in Nat \ {0}
    BY DEF IsBag
  <1>5. \A e \in DOMAIN t : t[e] = (IF e \in DOMAIN b THEN b[e] ELSE 0) + (IF e = D THEN 1 ELSE 0)
    BY <1>2, <1>3
  <1>6. IsBag(t)
    BY <1>2, <1>3, <1>4, <1>5 DEF IsBag
  <1>7. ASSUME NEW C
        PROVE  Copies(C, t) = (IF C = D THEN Copies(C, b) + 1 ELSE Copies(C, b)) /\ Copies(C, b) \in Nat
    BY <1>2, <1>3, <1>4, <1>5 DEF Copies, BagToSet
  <1> QED
    BY <1>1, <1>6, <1>7

LEMMA RemovedCopies ==
  ASSUME NEW b, IsBag(b), NEW D
  PROVE  /\ IsBag(b (-) SetToBag({D}))
         /\ \A C : Copies(C, b (-) SetToBag({D})) =
                     IF C = D /\ Copies(C, b) > 0 THEN Copies(C, b) - 1 ELSE Copies(C, b)
  <1>1. PICK s, t : s = SetToBag({D}) /\ t = b (-) SetToBag({D})
    OBVIOUS
  <1>2. DOMAIN s = {D} /\ s[D] = 1
    BY <1>1 DEF SetToBag
  <1>3. PICK r : r = [e \in DOMAIN b |-> IF e \in DOMAIN s THEN b[e] - s[e] ELSE b[e]]
    OBVIOUS
  <1>4. t = [e \in {d \in DOMAIN r : r[d] > 0} |-> r[e]]
    BY <1>1, <1>3 DEF (-)
  <1>5. \A e \in DOMAIN b : b[e] \in Nat \ {0} /\ r[e] = (IF e = D THEN b[e] - 1 ELSE b[e])
    BY <1>2, <1>3 DEF IsBag
  <1>6. DOMAIN r = DOMAIN b
    BY <1>3
  <1>7. IsBag(t)
    BY <1>4, <1>5, <1>6 DEF IsBag
  <1>8. ASSUME NEW C
        PROVE  Copies(C, t) = IF C = D /\ Copies(C, b) > 0 THEN Copies(C, b) - 1 ELSE Copies(C, b)
    BY <1>4, <1>5, <1>6 DEF Copies, BagToSet
  <1> QED
    BY <1>1, <1>7, <1>8

----------------------------------------------------------------------------
(* What propagation finds is implied.                                      *)

LEMMA ModelFacts ==
  ASSUME NEW A \in TotalAssignments
  PROVE  A \subseteq Lits /\ \A l \in Lits : l \in A <=> Neg(l) \notin A
  <1>1. A \subseteq Lits /\ \A v \in Vars : (v \in A) # (-v \in A)
    BY DEF TotalAssignments
  <1>2. ASSUME NEW l \in Lits
        PROVE  l \in A <=> Neg(l) \notin A
    <2>1. l \in Vars \/ (-l \in Vars /\ -(-l) = l)
      BY NumVarsAssumption DEF Vars, Lits
    <2> QED
      BY <1>1, <2>1 DEF Neg
  <1> QED
    BY <1>1, <1>2

(* A total assignment satisfies units if it has their literals.            *)
LEMMA UnitModels ==
  ASSUME NEW S, NEW F
  PROVE  \A A : A \in ModelsOf(S \cup UnitsOf(F)) <=> A \in TotalAssignments /\ Satisfies(A, S) /\ F \subseteq A
  <1> SUFFICES ASSUME NEW A
               PROVE  Satisfies(A, S \cup UnitsOf(F)) <=> Satisfies(A, S) /\ F \subseteq A
    BY DEF ModelsOf
  <1>1. Satisfies(A, S \cup UnitsOf(F)) <=> Satisfies(A, S) /\ Satisfies(A, UnitsOf(F))
    BY DEF Satisfies
  <1>2. Satisfies(A, UnitsOf(F)) <=> F \subseteq A
    <2>1. Satisfies(A, UnitsOf(F)) <=> \A l \in F : A \cap {l} # {}
      BY DEF Satisfies, UnitsOf
    <2>2. \A l : A \cap {l} # {} <=> l \in A
      OBVIOUS
    <2> QED
      BY <2>1, <2>2
  <1> QED
    BY <1>1, <1>2

LEMMA ModelClosed ==
  ASSUME NEW S \in SUBSET SUBSET Lits, NEW F \in SUBSET Lits,
         NEW A \in TotalAssignments, Satisfies(A, S), F \subseteq A
  PROVE  A \in Closures(F, S)
  <1>1. A \subseteq Lits /\ \A l \in Lits : l \in A <=> Neg(l) \notin A
    BY ModelFacts
  <1>2. A \in PartialAssignments
    BY <1>1 DEF PartialAssignments
  <1>3. ASSUME NEW C \in S
        PROVE  /\ \E l \in C : Neg(l) \notin A
               /\ \A l \in C : (\A m \in C \ {l} : Neg(m) \in A) => l \in A
    <2>1. PICK k \in C : k \in A
      BY DEF Satisfies
    <2>2. Neg(k) \notin A
      BY <1>1, <2>1
    <2> QED
      BY <2>1, <2>2
  <1>4. Closed(A, S)
    BY <1>3 DEF Closed
  <1> QED
    BY <1>2, <1>4 DEF Closures

(* Propagation gives the least closed set, which every model includes.     *)
LEMMA PropagatedFacts ==
  ASSUME NEW S \in SUBSET SUBSET Lits, NEW F \in SUBSET Lits
  PROVE  /\ F \subseteq Propagated(F, S) /\ Propagated(F, S) \in SUBSET Lits
         /\ ModelsOf(S \cup UnitsOf(Propagated(F, S))) = ModelsOf(S \cup UnitsOf(F))
         /\ Closures(F, S) # {} => Propagated(F, S) \in Closures(F, S)
  <1>1. PICK P : P = Propagated(F, S)
    OBVIOUS
  <1>2. P \in SUBSET Lits /\ \A l \in Lits : l \in P <=> \A A \in Closures(F, S) : l \in A
    BY <1>1 DEF Propagated
  <1>3. \A A \in Closures(F, S) : F \subseteq A /\ A \in PartialAssignments /\ Closed(A, S)
    BY DEF Closures
  <1>4. F \subseteq P
    BY <1>2, <1>3
  <1>5. ModelsOf(S \cup UnitsOf(P)) = ModelsOf(S \cup UnitsOf(F))
    <2>1. \A A : A \in ModelsOf(S \cup UnitsOf(P)) <=> A \in TotalAssignments /\ Satisfies(A, S) /\ P \subseteq A
      BY UnitModels
    <2>2. \A A : A \in ModelsOf(S \cup UnitsOf(F)) <=> A \in TotalAssignments /\ Satisfies(A, S) /\ F \subseteq A
      BY UnitModels
    <2>3. \A A \in TotalAssignments : Satisfies(A, S) /\ F \subseteq A => P \subseteq A
      BY <1>2, ModelClosed
    <2> QED
      BY <1>4, <2>1, <2>2, <2>3
  <1>6. ASSUME Closures(F, S) # {}
        PROVE  P \in Closures(F, S)
    <2>1. PICK A \in Closures(F, S) : TRUE
      BY <1>6
    <2>2. P \subseteq A
      BY <1>2, <2>1
    <2>3. P \in PartialAssignments
      BY <1>2, <1>3, <2>1, <2>2 DEF PartialAssignments
    <2>4. ASSUME NEW C \in S
          PROVE  /\ \E l \in C : Neg(l) \notin P
                 /\ \A l \in C : (\A m \in C \ {l} : Neg(m) \in P) => l \in P
      <3>1. \E l \in C : Neg(l) \notin P
        BY <1>3, <2>1, <2>2 DEF Closed
      <3>2. ASSUME NEW l \in C, \A m \in C \ {l} : Neg(m) \in P
            PROVE  l \in P
        <4>1. l \in Lits /\ \A m \in C \ {l} : Neg(m) \in Lits
          BY LitFacts
        <4>2. ASSUME NEW B \in Closures(F, S)
              PROVE  l \in B
          <5>1. \A m \in C \ {l} : Neg(m) \in B
            BY <1>2, <3>2, <4>1
          <5> QED
            BY <1>3, <5>1 DEF Closed
        <4> QED
          BY <1>2, <4>1, <4>2
      <3> QED
        BY <3>1, <3>2
    <2>5. Closed(P, S)
      BY <2>4 DEF Closed
    <2> QED
      BY <1>4, <2>3, <2>5 DEF Closures
  <1> QED
    BY <1>1, <1>2, <1>4, <1>5, <1>6

(* An asymmetric tautology of one literal is implied.                      *)
LEMMA TautologyImplied ==
  ASSUME NEW S \in SUBSET SUBSET Lits, NEW l \in Lits, IsAT({l}, S),
         NEW A \in TotalAssignments, Satisfies(A, S)
  PROVE  l \in A
  <1> SUFFICES ASSUME l \notin A
               PROVE  FALSE
    OBVIOUS
  <1>1. {Neg(m) : m \in {l}} = {Neg(l)}
    OBVIOUS
  <1>2. Neg(l) \in A /\ Neg(l) \in Lits
    BY ModelFacts, LitFacts
  <1>3. {Neg(l)} \in SUBSET Lits /\ {Neg(l)} \subseteq A
    BY <1>2
  <1>4. A \in Closures({Neg(l)}, S)
    BY <1>3, ModelClosed
  <1> QED
    BY <1>1, <1>4 DEF IsAT

(* A clause has a true literal or two that are not false once propagation  *)
(* has ended without a conflict.                                           *)
LEMMA ClosedClauses ==
  ASSUME NEW S, NEW F, Closed(F, S), NEW C \in S
  PROVE  \/ \E f \in F : f \in C
         \/ \E l, m \in C : l # m /\ Neg(l) \notin F /\ Neg(m) \notin F
  <1>1. PICK l \in C : Neg(l) \notin F
    BY DEF Closed
  <1>2. (\A m \in C \ {l} : Neg(m) \in F) => l \in F
    BY DEF Closed
  <1> QED
    BY <1>1, <1>2

(* Formulas with the same units have the same models when, where these are *)
(* true, they have them.                                                   *)
LEMMA SameModels ==
  ASSUME NEW S, NEW T, NEW F,
         \A A \in TotalAssignments : F \subseteq A => (Satisfies(A, S) <=> Satisfies(A, T))
  PROVE  ModelsOf(S \cup UnitsOf(F)) = ModelsOf(T \cup UnitsOf(F))
  <1>1. \A A : A \in ModelsOf(S \cup UnitsOf(F)) <=> A \in TotalAssignments /\ Satisfies(A, S) /\ F \subseteq A
    BY UnitModels
  <1>2. \A A : A \in ModelsOf(T \cup UnitsOf(F)) <=> A \in TotalAssignments /\ Satisfies(A, T) /\ F \subseteq A
    BY UnitModels
  <1> QED
    BY <1>1, <1>2

----------------------------------------------------------------------------
(* The steps of the FactCleaner.                                           *)

LEMMA TailFacts ==
  ASSUME NEW S, NEW s \in Seq(S), s # <<>>, IsInjective(s)
  PROVE  /\ Head(s) \in S /\ Tail(s) \in Seq(S) /\ IsInjective(Tail(s))
         /\ Head(s) \in ToSet(s) /\ ToSet(Tail(s)) = ToSet(s) \ {Head(s)}
  <1>1. PICK n, t : n = Len(s) /\ t = Tail(s)
    OBVIOUS
  <1>2. n \in Nat /\ n # 0 /\ \A i \in 1 .. n : s[i] \in S
    BY <1>1, LenProperties, EmptySeq, ElementOfSeq
  <1>3. Head(s) = s[1] /\ t \in Seq(S) /\ Len(t) = n - 1 /\ \A i \in 1 .. n - 1 : t[i] = s[i + 1]
    BY <1>1, <1>2, HeadTailProperties
  <1>4. DOMAIN s = 1 .. n /\ ToSet(s) = {s[i] : i \in 1 .. n}
    BY <1>1, Neighbours
  <1>5. DOMAIN t = 1 .. n - 1 /\ ToSet(t) = {t[i] : i \in 1 .. n - 1}
    BY <1>3, Neighbours
  <1>6. \A i, j \in 1 .. n : s[i] = s[j] => i = j
    BY <1>4 DEF IsInjective
  <1>7. 1 \in 1 .. n /\ \A i \in 1 .. n - 1 : i + 1 \in 1 .. n /\ i + 1 # 1
    BY <1>2
  <1>8. IsInjective(t)
    <2> SUFFICES ASSUME NEW i \in 1 .. n - 1, NEW j \in 1 .. n - 1, t[i] = t[j]
                 PROVE  i = j
      BY <1>5 DEF IsInjective
    <2>1. i + 1 = j + 1
      BY <1>3, <1>6, <1>7
    <2> QED
      BY <1>2, <2>1
  <1>9. ToSet(t) = ToSet(s) \ {s[1]}
    <2>1. ASSUME NEW x \in ToSet(t)
          PROVE  x \in ToSet(s) \ {s[1]}
      BY <1>3, <1>4, <1>5, <1>6, <1>7, <2>1
    <2>2. ASSUME NEW x \in ToSet(s) \ {s[1]}
          PROVE  x \in ToSet(t)
      <3>1. PICK i \in 1 .. n : x = s[i] /\ i # 1
        BY <1>4, <2>2
      <3>2. i - 1 \in 1 .. n - 1 /\ (i - 1) + 1 = i
        BY <1>2, <3>1
      <3> QED
        BY <1>3, <1>5, <3>1, <3>2
    <2> QED
      BY <2>1, <2>2
  <1> QED
    BY <1>1, <1>2, <1>3, <1>4, <1>7, <1>8, <1>9

(* The facts by their positions.                                           *)
LEMMA FactPositions ==
  ASSUME facts \in Seq(Lits)
  PROVE  /\ Len(facts) \in Nat /\ Facts \in SUBSET Lits
         /\ \A k \in 1 .. Len(facts) : facts[k] \in Facts /\ facts[k] \in Lits
         /\ \A f \in Facts : \E k \in 1 .. Len(facts) : f = facts[k]
  BY Neighbours DEF Facts

LEMMA OccurringFacts ==
  ASSUME NEW C
  PROVE  IsFiniteSet(Occurring(C)) /\ Cardinality(Occurring(C)) \in Nat
  <1>1. Occurring(C) \in SUBSET Clauses
    BY DEF Occurring
  <1> QED
    BY <1>1, LitFacts, FS_Subset, FS_CardinalityType

LEMMA LiveFacts ==
  ASSUME MapTypes
  PROVE  Live \in SUBSET SUBSET Lits /\ \A c \in Clauses \ deleted : content[c] \in Live
  BY DEF MapTypes, Live

(* A clause with a fact is deleted.                                        *)
LEMMA Deletion ==
  ASSUME MapTypes, IsBag(proof), ClausesRight,
         NEW c \in Clauses \ deleted, NEW f \in Facts, f \in content[c],
         DeleteClause(c), UNCHANGED <<problem, facts>>
  PROVE  IsBag(proof') /\ ClausesRight'
  <1>1. /\ proof' = proof (-) SetToBag({content[c]})
        /\ deleted' = deleted \cup {c} /\ content' = content
        /\ problem' = problem /\ facts' = facts
    BY DEF DeleteClause, RemoveClause
  <1>2. /\ IsBag(proof')
        /\ \A C : Copies(C, proof') = IF C = content[c] /\ Copies(C, proof) > 0 THEN Copies(C, proof) - 1
                                      ELSE Copies(C, proof)
    <2>1. PICK b, D : b = proof /\ D = content[c]
      OBVIOUS
    <2>2. /\ IsBag(b (-) SetToBag({D}))
          /\ \A C : Copies(C, b (-) SetToBag({D})) =
                      IF C = D /\ Copies(C, b) > 0 THEN Copies(C, b) - 1 ELSE Copies(C, b)
      BY <2>1, RemovedCopies
    <2>3. PICK t : t = b (-) SetToBag({D})
      OBVIOUS
    <2> QED
      BY <1>1, <2>1, <2>2, <2>3
  <1>3. ASSUME NEW C \in SUBSET Lits
        PROVE  Copies(C, proof') >= Cardinality(Occurring(C)')
    <2>1. /\ Copies(C, proof) >= Cardinality(Occurring(C)) /\ Copies(C, proof) \in Nat
          /\ IsFiniteSet(Occurring(C)) /\ Cardinality(Occurring(C)) \in Nat
      BY OccurringFacts, AddedCopies DEF ClausesRight
    <2>2. Occurring(C)' = Occurring(C) \ {c}
      BY <1>1 DEF Occurring
    <2>3. Cardinality(Occurring(C) \ {c}) =
            IF C = content[c] THEN Cardinality(Occurring(C)) - 1 ELSE Cardinality(Occurring(C))
      <3>1. c \in Occurring(C) <=> C = content[c]
        BY DEF Occurring
      <3> QED
        BY <2>1, <3>1, FS_RemoveElement
    <2> QED
      BY <1>2, <2>1, <2>2, <2>3
  <1>4. ModelsOf(Live' \cup UnitsOf(Facts)) = ModelsOf(Live \cup UnitsOf(Facts))
    <2>1. Live' \cup {content[c]} = Live
      BY <1>1 DEF Live
    <2>2. \A A \in TotalAssignments : Facts \subseteq A => (Satisfies(A, Live') <=> Satisfies(A, Live))
      BY <2>1 DEF Satisfies
    <2> QED
      BY <2>2, SameModels
  <1>5. Facts' = Facts
    BY <1>1 DEF Facts
  <1> QED
    BY <1>1, <1>2, <1>3, <1>4, <1>5 DEF ClausesRight

(* A clause loses the negation of a fact and keeps two literals.           *)
LEMMA Shortening ==
  ASSUME MapTypes, IsBag(proof), ClausesRight,
         NEW c \in Clauses \ deleted, NEW l \in content[c], Neg(l) \in Facts,
         Cardinality(content[c]) > 2,
         Shorten(c, l), UNCHANGED <<problem, facts>>
  PROVE  IsBag(proof') /\ ClausesRight'
  <1>1. PICK C, D : C = content[c] /\ D = content[c] \ {l}
    OBVIOUS
  <1>2. /\ proof' = (proof (+) SetToBag({D})) (-) SetToBag({C})
        /\ deleted' = deleted /\ content' = [content EXCEPT ![c] = (content[c] \ {l}) \cup {}]
        /\ problem' = problem /\ facts' = facts
    BY <1>1 DEF Shorten, SetModified
  <1>3. /\ content'[c] = D /\ \A d \in Clauses : d # c => content'[d] = content[d]
        /\ C # D /\ C \in SUBSET Lits /\ D \in SUBSET Lits
    BY <1>1, <1>2 DEF MapTypes
  <1>4. /\ IsBag(proof')
        /\ \A E : Copies(E, proof') >= IF E = D THEN Copies(E, proof) + 1
                                       ELSE IF E = C /\ Copies(E, proof) > 0 THEN Copies(E, proof) - 1
                                       ELSE Copies(E, proof)
    <2>1. PICK b, a, r : b = proof /\ a = b (+) SetToBag({D}) /\ r = a (-) SetToBag({C})
      OBVIOUS
    <2>2. /\ IsBag(a)
          /\ \A E : Copies(E, a) = IF E = D THEN Copies(E, b) + 1 ELSE Copies(E, b)
          /\ \A E : Copies(E, b) \in Nat
      <3>1. IsBag(b)
        BY <2>1
      <3>2. /\ IsBag(b (+) SetToBag({D}))
            /\ \A E : Copies(E, b (+) SetToBag({D})) = IF E = D THEN Copies(E, b) + 1 ELSE Copies(E, b)
            /\ \A E : Copies(E, b) \in Nat
        BY <3>1, AddedCopies
      <3> QED
        BY <2>1, <3>2
    <2>3. /\ IsBag(r)
          /\ \A E : Copies(E, r) = IF E = C /\ Copies(E, a) > 0 THEN Copies(E, a) - 1 ELSE Copies(E, a)
      <3>1. /\ IsBag(a (-) SetToBag({C}))
            /\ \A E : Copies(E, a (-) SetToBag({C})) =
                        IF E = C /\ Copies(E, a) > 0 THEN Copies(E, a) - 1 ELSE Copies(E, a)
        BY <2>2, RemovedCopies
      <3> QED
        BY <2>1, <3>1
    <2>4. \A E : Copies(E, r) >= IF E = D THEN Copies(E, b) + 1
                                 ELSE IF E = C /\ Copies(E, b) > 0 THEN Copies(E, b) - 1
                                 ELSE Copies(E, b)
      BY <1>3, <2>2, <2>3
    <2> QED
      BY <1>2, <2>1, <2>3, <2>4
  <1>5. ASSUME NEW E \in SUBSET Lits
        PROVE  Copies(E, proof') >= Cardinality(Occurring(E)')
    <2>1. /\ Copies(E, proof) >= Cardinality(Occurring(E)) /\ Copies(E, proof) \in Nat
          /\ IsFiniteSet(Occurring(E)) /\ Cardinality(Occurring(E)) \in Nat
      BY OccurringFacts, AddedCopies DEF ClausesRight
    <2>2. CASE E = D
      <3>1. Occurring(E)' = Occurring(E) \cup {c}
        BY <1>2, <1>3, <2>2 DEF Occurring
      <3>2. Cardinality(Occurring(E) \cup {c}) =
              IF c \in Occurring(E) THEN Cardinality(Occurring(E)) ELSE Cardinality(Occurring(E)) + 1
        BY <2>1, FS_AddElement
      <3>3. Copies(E, proof') >= Copies(E, proof) + 1
        BY <1>4, <2>2
      <3>4. Copies(E, proof') \in Nat
        BY <1>4, AddedCopies
      <3> QED
        BY <2>1, <3>1, <3>2, <3>3, <3>4
    <2>3. CASE E = C
      <3>1. Occurring(E)' = Occurring(E) \ {c} /\ c \in Occurring(E)
        BY <1>1, <1>2, <1>3, <2>3 DEF Occurring
      <3>2. Cardinality(Occurring(E) \ {c}) = Cardinality(Occurring(E)) - 1
        BY <2>1, <3>1, FS_RemoveElement
      <3>3. Cardinality(Occurring(E) \ {c}) \in Nat
        BY <2>1, FS_RemoveElement, FS_CardinalityType
      <3>4. Copies(E, proof') >= IF Copies(E, proof) > 0 THEN Copies(E, proof) - 1 ELSE Copies(E, proof)
        BY <1>3, <1>4, <2>3
      <3>5. Copies(E, proof') \in Nat
        BY <1>4, AddedCopies
      <3> QED
        BY <2>1, <3>1, <3>2, <3>3, <3>4, <3>5
    <2>4. CASE E # C /\ E # D
      <3>1. Occurring(E)' = Occurring(E)
        BY <1>1, <1>2, <1>3, <2>4 DEF Occurring
      <3>2. Copies(E, proof') >= Copies(E, proof)
        BY <1>4, <2>4
      <3>3. Copies(E, proof') \in Nat
        BY <1>4, AddedCopies
      <3> QED
        BY <2>1, <3>1, <3>2, <3>3
    <2> QED
      BY <2>2, <2>3, <2>4
  <1>6. ModelsOf(Live' \cup UnitsOf(Facts)) = ModelsOf(Live \cup UnitsOf(Facts))
    <2> SUFFICES ASSUME NEW A \in TotalAssignments, Facts \subseteq A
                 PROVE  Satisfies(A, Live') <=> Satisfies(A, Live)
      BY SameModels
    <2>1. l \in Lits /\ l \notin A
      BY <1>1, <1>3, ModelFacts
    <2>2. A \cap D # {} <=> A \cap C # {}
      BY <1>1, <2>1
    <2>3. \A d \in Clauses : A \cap content'[d] # {} <=> A \cap content[d] # {}
      BY <1>1, <1>3, <2>2
    <2> QED
      BY <1>2, <2>3 DEF Satisfies, Live
  <1>7. ASSUME NEW d \in Clauses \ deleted
        PROVE  Cardinality(content'[d]) >= 2
    <2>1. CASE d # c
      BY <1>3, <2>1 DEF ClausesRight
    <2>2. CASE d = c
      <3>1. IsFiniteSet(C)
        BY <1>3, LitFacts, FS_Subset
      <3>2. Cardinality(C \ {l}) = Cardinality(C) - 1 /\ Cardinality(C) \in Nat
        BY <1>1, <3>1, FS_RemoveElement, FS_CardinalityType
      <3>3. Cardinality(C) > 2 /\ content'[d] = C \ {l}
        BY <1>1, <1>3, <2>2
      <3> QED
        BY <3>2, <3>3
    <2> QED
      BY <2>1, <2>2
  <1>8. Facts' = Facts
    BY <1>2 DEF Facts
  <1> QED
    BY <1>2, <1>4, <1>5, <1>6, <1>7, <1>8 DEF ClausesRight

LEMMA ClausesKept ==
  ASSUME ClausesRight, UNCHANGED <<content, deleted, proof, facts, problem>>
  PROVE  ClausesRight'
  BY DEF ClausesRight, Occurring, Live, Facts

LEMMA FactsKept ==
  ASSUME FactsRight, UNCHANGED <<content, facts, factsCleaned>>, deleted \subseteq deleted'
  PROVE  FactsRight'
  BY DEF FactsRight, Facts

(* What a lookup in one of the loops does to the range.                    *)
LEMMA LookUpStep ==
  ASSUME CleanerIInv, NEW sign \in {1, -1}, todo = <<>>, next <= Len(facts),
         pc \in {"delete", "strengthen"}, RangeRight(sign), LookUp(sign * facts[next])
  PROVE  /\ MapIInv' /\ CleanerTypes' /\ MapRight' /\ ClausesRight' /\ RangeRight(sign)'
         /\ UNCHANGED <<content, deleted, facts, factsCleaned, pc>>
         /\ \A c \in Clauses : pending'[c] \subseteq pending[c]
  <1>1. MapIInv /\ CleanerTypes /\ MapRight /\ ClausesRight
    BY DEF CleanerIInv
  <1>2. next \in 1 .. Len(facts) /\ Len(facts) \in Nat
    BY <1>1, LenProperties DEF CleanerTypes
  <1>3. PICK l \in Lits : l = sign * facts[next]
    <2>1. facts[next] \in Lits
      BY <1>1, <1>2, FactPositions DEF CleanerTypes
    <2>2. 1 * facts[next] \in Lits /\ (-1) * facts[next] \in Lits
      BY <2>1, LitFacts
    <2> QED
      BY <2>2
  <1>4. /\ Lookup(l)
        /\ todo' = occList'[l] /\ next' = next + 1
        /\ UNCHANGED <<problem, facts, proof, unsat, conflicts, unitLemmas, learntFacts, factsCleaned, pc>>
    BY <1>3 DEF LookUp, statVars
  <1>5. /\ MapIInv'
        /\ \A c \in Clauses : pending'[c] \subseteq pending[c]
        /\ todo' \in Seq(Clauses) /\ IsInjective(todo')
        /\ \A c \in Clauses : c \in ToSet(todo') <=> c \notin deleted /\ c \in inserted /\ l \in content[c]
    BY <1>1, <1>4, LookupStep
  <1>6. UNCHANGED <<content, deleted, inserted>>
    BY <1>4 DEF Lookup
  <1>7. CleanerTypes'
    <2>1. next + 1 \in 1 .. Len(facts) + 1
      BY <1>2
    <2> QED
      BY <1>1, <1>4, <1>5, <2>1 DEF CleanerTypes
  <1>8. MapRight'
    BY <1>1, <1>4, <1>6 DEF MapRight
  <1>9. ClausesRight'
    BY <1>1, <1>4, <1>6, ClausesKept
  <1>10. RangeRight(sign)'
    <2>1. next' - 1 = next /\ next' > 1
      BY <1>2, <1>4
    <2>2. ASSUME NEW k \in 1 .. next, NEW c \in Clauses \ deleted, sign * facts[k] \in content[c]
          PROVE  k = next /\ c \in ToSet(todo')
      <3>1. k = next
        <4>1. k = next \/ k \in 1 .. next - 1
          BY <1>2
        <4>2. c \notin ToSet(todo)
          BY EmptyFacts
        <4> QED
          BY <2>2, <4>1, <4>2 DEF RangeRight
      <3>2. c \in inserted
        BY <1>1 DEF MapRight
      <3> QED
        BY <1>3, <1>5, <2>2, <3>1, <3>2
    <2>3. \A c \in ToSet(todo') : c \in Clauses
      BY <1>5, Neighbours
    <2> QED
      BY <1>3, <1>4, <1>5, <1>6, <2>1, <2>2, <2>3 DEF RangeRight
  <1> QED
    BY <1>4, <1>5, <1>6, <1>7, <1>8, <1>9, <1>10

LEMMA LookUpSatisfiedStep ==
  ASSUME CleanerIInv, LookUpSatisfied
  PROVE  CleanerIInv'
  <1>1. /\ pc = "delete" /\ todo = <<>> /\ next <= Len(facts) /\ LookUp(facts[next])
        /\ CleanerTypes /\ MapIInv /\ LoopRight
    BY DEF LookUpSatisfied, CleanerIInv
  <1>2. FactsRight /\ RangeRight(1) /\ \A c \in Clauses \ deleted : pending[c] = {}
    BY <1>1 DEF LoopRight
  <1>3. LookUp(1 * facts[next])
    <2>1. next \in 1 .. Len(facts)
      BY <1>1, LenProperties DEF CleanerTypes
    <2>2. facts[next] \in Lits
      BY <1>1, <2>1, FactPositions DEF CleanerTypes
    <2>3. 1 * facts[next] = facts[next]
      BY <2>2, LitFacts
    <2> QED
      BY <1>1, <2>3
  <1>4. /\ MapIInv' /\ CleanerTypes' /\ MapRight' /\ ClausesRight' /\ RangeRight(1)'
        /\ UNCHANGED <<content, deleted, facts, factsCleaned, pc>>
        /\ \A c \in Clauses : pending'[c] \subseteq pending[c]
    BY <1>1, <1>2, <1>3, LookUpStep
  <1>5. FactsRight'
    BY <1>2, <1>4, FactsKept
  <1>6. LoopRight'
    BY <1>1, <1>2, <1>4, <1>5 DEF LoopRight
  <1> QED
    BY <1>1, <1>4, <1>6 DEF CleanerIInv

LEMMA LookUpContradictedStep ==
  ASSUME CleanerIInv, LookUpContradicted
  PROVE  CleanerIInv'
  <1>1. /\ pc = "strengthen" /\ todo = <<>> /\ next <= Len(facts) /\ LookUp(Neg(facts[next]))
        /\ CleanerTypes /\ MapIInv /\ LoopRight
    BY DEF LookUpContradicted, CleanerIInv
  <1>2. FactsRight /\ ClearedOf(Facts) /\ RangeRight(-1)
    BY <1>1 DEF LoopRight
  <1>3. LookUp((-1) * facts[next])
    <2>1. next \in 1 .. Len(facts)
      BY <1>1, LenProperties DEF CleanerTypes
    <2>2. facts[next] \in Lits
      BY <1>1, <2>1, FactPositions DEF CleanerTypes
    <2>3. (-1) * facts[next] = Neg(facts[next])
      BY <2>2, LitFacts
    <2> QED
      BY <1>1, <2>3
  <1>4. /\ MapIInv' /\ CleanerTypes' /\ MapRight' /\ ClausesRight' /\ RangeRight(-1)'
        /\ UNCHANGED <<content, deleted, facts, factsCleaned, pc>>
    BY <1>1, <1>2, <1>3, LookUpStep
  <1>5. FactsRight' /\ ClearedOf(Facts)'
    BY <1>2, <1>4, FactsKept DEF ClearedOf, Facts
  <1>6. LoopRight'
    BY <1>1, <1>4, <1>5 DEF LoopRight
  <1> QED
    BY <1>1, <1>4, <1>6 DEF CleanerIInv

LEMMA DeleteSatisfiedStep ==
  ASSUME CleanerIInv, DeleteSatisfied
  PROVE  CleanerIInv'
  <1>1. /\ pc = "delete" /\ todo # <<>> /\ DeleteClause(Head(todo)) /\ todo' = Tail(todo)
        /\ UNCHANGED <<problem, facts, unsat, conflicts, unitLemmas, learntFacts, factsCleaned, pc, next>>
        /\ MapIInv /\ CleanerTypes /\ MapRight /\ ClausesRight
        /\ FactsRight /\ RangeRight(1) /\ \A c \in Clauses \ deleted : pending[c] = {}
    BY DEF DeleteSatisfied, CleanerIInv, LoopRight, statVars
  <1>2. PICK c : c = Head(todo)
    OBVIOUS
  <1>3. /\ c \in Clauses /\ todo' \in Seq(Clauses) /\ IsInjective(todo')
        /\ c \in ToSet(todo) /\ ToSet(todo') = ToSet(todo) \ {c}
    BY <1>1, <1>2, TailFacts DEF CleanerTypes
  <1>4. /\ DeleteClause(c) /\ deleted' = deleted \cup {c} /\ content' = content
        /\ inserted' = inserted /\ pending' = pending /\ RemoveClause(c)
    BY <1>1, <1>2 DEF DeleteClause, RemoveClause
  <1>5. MapIInv'
    BY <1>1, <1>3, <1>4, RemoveStep
  <1>6. /\ next > 1 /\ next - 1 \in 1 .. Len(facts)
        /\ c \in Clauses \ deleted /\ facts[next - 1] \in Facts /\ facts[next - 1] \in content[c]
    <2>1. next > 1 /\ c \notin deleted /\ 1 * facts[next - 1] \in content[c]
      BY <1>1, <1>3 DEF RangeRight
    <2>2. next - 1 \in 1 .. Len(facts)
      BY <1>1, <2>1, LenProperties DEF CleanerTypes
    <2>3. facts[next - 1] \in Facts /\ facts[next - 1] \in Lits
      BY <1>1, <2>2, FactPositions DEF CleanerTypes
    <2> QED
      BY <1>3, <2>1, <2>2, <2>3, LitFacts
  <1>7. IsBag(proof') /\ ClausesRight'
    <2>1. MapTypes /\ IsBag(proof)
      BY <1>1 DEF MapIInv, CleanerTypes, IsBag
    <2> QED
      BY <1>1, <1>4, <1>6, <2>1, Deletion
  <1>8. CleanerTypes'
    BY <1>1, <1>3, <1>7 DEF CleanerTypes, IsBag
  <1>9. MapRight'
    BY <1>1, <1>4 DEF MapRight
  <1>10. FactsRight'
    BY <1>1, <1>4, FactsKept
  <1>11. RangeRight(1)'
    <2>1. ASSUME NEW k \in 1 .. next - 1, NEW d \in Clauses \ deleted', 1 * facts[k] \in content[d]
          PROVE  k = next - 1 /\ d \in ToSet(todo')
      BY <1>1, <1>3, <1>4, <2>1 DEF RangeRight
    <2>2. \A d \in ToSet(todo') : d \notin deleted' /\ 1 * facts[next - 1] \in content[d]
      BY <1>1, <1>3, <1>4 DEF RangeRight
    <2> QED
      BY <1>1, <1>4, <1>6, <2>1, <2>2 DEF RangeRight
  <1>12. LoopRight'
    BY <1>1, <1>4, <1>10, <1>11 DEF LoopRight
  <1> QED
    BY <1>1, <1>5, <1>7, <1>8, <1>9, <1>12 DEF CleanerIInv

LEMMA BeginStrengtheningStep ==
  ASSUME CleanerIInv, BeginStrengthening
  PROVE  CleanerIInv'
  <1>1. /\ pc = "delete" /\ todo = <<>> /\ next > Len(facts) /\ pc' = "strengthen" /\ next' = 1
        /\ UNCHANGED <<occVars, problem, facts, proof, unsat, conflicts, unitLemmas, learntFacts, factsCleaned, todo>>
        /\ MapIInv /\ CleanerTypes /\ MapRight /\ ClausesRight
        /\ FactsRight /\ RangeRight(1)
    BY DEF BeginStrengthening, CleanerIInv, LoopRight, statVars
  <1>2. UNCHANGED <<content, deleted, modified, inserted, occList, stale, pending>>
    BY <1>1 DEF occVars, mapVars
  <1>3. ClearedOf(Facts)
    <2> SUFFICES ASSUME NEW c \in Clauses \ deleted, NEW f \in Facts, f \in content[c]
                 PROVE  FALSE
      BY DEF ClearedOf
    <2>1. PICK k \in 1 .. Len(facts) : f = facts[k]
      BY <1>1, FactPositions DEF CleanerTypes
    <2>2. k \in 1 .. next - 1
      BY <1>1, LenProperties DEF CleanerTypes
    <2>3. 1 * facts[k] = f
      BY <1>1, <2>1, FactPositions, LitFacts DEF CleanerTypes
    <2>4. c \in ToSet(todo)
      BY <1>1, <2>2, <2>3 DEF RangeRight
    <2> QED
      BY <1>1, <2>4, EmptyFacts
  <1>4. MapIInv'
    BY <1>1, <1>2 DEF MapIInv, MapTypes, ListsRight, Lists, PendingRight
  <1>5. CleanerTypes'
    BY <1>1, LenProperties DEF CleanerTypes
  <1>6. MapRight'
    BY <1>1, <1>2 DEF MapRight
  <1>7. ClausesRight' /\ FactsRight'
    BY <1>1, <1>2, ClausesKept, FactsKept
  <1>8. ClearedOf(Facts)'
    BY <1>1, <1>2, <1>3 DEF ClearedOf, Facts
  <1>9. RangeRight(-1)'
    BY <1>1, EmptyFacts DEF RangeRight
  <1>10. LoopRight'
    BY <1>1, <1>7, <1>8, <1>9 DEF LoopRight
  <1> QED
    BY <1>1, <1>4, <1>5, <1>6, <1>7, <1>10 DEF CleanerIInv

(* Two literals of the clause stay, so it has three at least.              *)
LEMMA StrengthenStep ==
  ASSUME CleanerIInv, Strengthen
  PROVE  CleanerIInv'
  <1>1. /\ pc = "strengthen" /\ todo # <<>> /\ todo' = Tail(todo)
        /\ UNCHANGED <<problem, facts, unsat, conflicts, unitLemmas, learntFacts, factsCleaned, pc, next>>
        /\ MapIInv /\ CleanerTypes /\ MapRight /\ ClausesRight
        /\ FactsRight /\ ClearedOf(Facts) /\ RangeRight(-1)
    BY DEF Strengthen, CleanerIInv, LoopRight, statVars
  <1>2. PICK c : c = Head(todo)
    OBVIOUS
  <1>3. /\ c \in Clauses /\ todo' \in Seq(Clauses) /\ IsInjective(todo')
        /\ c \in ToSet(todo) /\ ToSet(todo') = ToSet(todo) \ {c}
    BY <1>1, <1>2, TailFacts DEF CleanerTypes
  <1>4. PICK n : n = Neg(facts[next - 1])
    OBVIOUS
  <1>5. /\ next > 1 /\ next - 1 \in 1 .. Len(facts) /\ c \in Clauses \ deleted
        /\ n \in Lits /\ n = (-1) * facts[next - 1] /\ Neg(n) \in Facts /\ n \in content[c]
    <2>1. next > 1 /\ c \notin deleted /\ (-1) * facts[next - 1] \in content[c]
      BY <1>1, <1>3 DEF RangeRight
    <2>2. next - 1 \in 1 .. Len(facts)
      BY <1>1, <2>1, LenProperties DEF CleanerTypes
    <2>3. facts[next - 1] \in Facts /\ facts[next - 1] \in Lits
      BY <1>1, <2>2, FactPositions DEF CleanerTypes
    <2> QED
      BY <1>3, <1>4, <2>1, <2>2, <2>3, LitFacts
  <1>6. MapTypes /\ IsBag(proof) /\ content[c] \in SUBSET Lits
    BY <1>1, <1>3 DEF MapIInv, MapTypes, CleanerTypes, IsBag
  <1>7. PICK l, m \in content[c] : l # m /\ Neg(l) \notin Facts /\ Neg(m) \notin Facts
    <2>1. \A f \in Facts : f \notin content[c]
      BY <1>1, <1>5 DEF ClearedOf
    <2> QED
      BY <1>1, <1>5, <2>1 DEF FactsRight
  <1>8. Cardinality(content[c]) > 2
    <2>1. {l, m} \cup {n} \in SUBSET content[c] /\ n \notin {l, m} /\ IsFiniteSet(content[c])
      BY <1>5, <1>6, <1>7, LitFacts, FS_Subset
    <2>2. IsFiniteSet({l}) /\ Cardinality({l}) = 1
      BY FS_Singleton
    <2>3. IsFiniteSet({l} \cup {m}) /\ Cardinality({l} \cup {m}) = 2
      BY <1>7, <2>2, FS_AddElement
    <2>4. IsFiniteSet({l} \cup {m} \cup {n}) /\ Cardinality({l} \cup {m} \cup {n}) = 3
      <3>1. n \notin {l} \cup {m}
        BY <2>1
      <3> QED
        BY <2>3, <3>1, FS_AddElement
    <2>5. {l} \cup {m} \cup {n} \in SUBSET content[c]
      BY <2>1
    <2>6. 3 <= Cardinality(content[c]) /\ Cardinality(content[c]) \in Nat
      BY <2>1, <2>4, <2>5, FS_Subset, FS_CardinalityType
    <2> QED
      BY <2>6
  <1>9. Shorten(c, n)
    <2>1. c \notin deleted /\ Cardinality(content[c]) # 2
      BY <1>5, <1>6, <1>8, LitFacts, FS_Subset, FS_CardinalityType
    <2> QED
      BY <1>2, <1>4, <2>1 DEF Strengthen
  <1>10. /\ SetModified(c, {}, {n}) /\ deleted' = deleted /\ inserted' = inserted
         /\ content' = [content EXCEPT ![c] = (content[c] \ {n}) \cup {}]
    BY <1>9 DEF Shorten, SetModified
  <1>11. content'[c] = content[c] \ {n} /\ \A d \in Clauses : d # c => content'[d] = content[d]
    BY <1>3, <1>6, <1>10 DEF MapTypes
  <1>12. MapIInv'
    <2>1. c \in inserted \ deleted /\ {} \in SUBSET Lits /\ {n} \in SUBSET content[c] /\ {} \cap content[c] = {}
      BY <1>1, <1>5 DEF MapRight
    <2> QED
      BY <1>1, <1>10, <2>1, SetModifiedStep
  <1>13. IsBag(proof') /\ ClausesRight'
    BY <1>1, <1>5, <1>6, <1>8, <1>9, Shortening
  <1>14. CleanerTypes'
    BY <1>1, <1>3, <1>13 DEF CleanerTypes, IsBag
  <1>15. MapRight'
    BY <1>1, <1>10 DEF MapRight
  <1>16. \A d \in Clauses : content'[d] \subseteq content[d]
    BY <1>11
  <1>17. FactsRight'
    <2>1. ASSUME NEW d \in Clauses \ deleted
          PROVE  \/ \E f \in Facts : f \in content'[d]
                 \/ \E k, j \in content'[d] : k # j /\ Neg(k) \notin Facts /\ Neg(j) \notin Facts
      <3>1. CASE d = c
        <4>1. l \in content'[c] /\ m \in content'[c]
          BY <1>5, <1>7, <1>11
        <4> QED
          BY <1>7, <3>1, <4>1
      <3>2. CASE d # c
        BY <1>1, <1>11, <3>2 DEF FactsRight
      <3> QED
        BY <3>1, <3>2
    <2> QED
      BY <1>1, <1>10, <2>1 DEF FactsRight, Facts
  <1>18. ClearedOf(Facts)'
    BY <1>1, <1>10, <1>16 DEF ClearedOf, Facts
  <1>19. RangeRight(-1)'
    <2>1. ASSUME NEW k \in 1 .. next - 1, NEW d \in Clauses \ deleted, (-1) * facts[k] \in content'[d]
          PROVE  k = next - 1 /\ d \in ToSet(todo')
      <3>1. k = next - 1 /\ d \in ToSet(todo)
        BY <1>1, <1>16, <2>1 DEF RangeRight
      <3>2. d # c
        BY <1>5, <1>11, <2>1, <3>1
      <3> QED
        BY <1>3, <3>1, <3>2
    <2>2. ASSUME NEW d \in ToSet(todo')
          PROVE  d \notin deleted /\ (-1) * facts[next - 1] \in content'[d]
      <3>1. d \in ToSet(todo) /\ d # c /\ d \in Clauses
        BY <1>3, Neighbours
      <3> QED
        BY <1>1, <1>11, <3>1 DEF RangeRight
    <2> QED
      BY <1>1, <1>5, <1>10, <2>1, <2>2 DEF RangeRight
  <1>20. LoopRight'
    BY <1>1, <1>17, <1>18, <1>19 DEF LoopRight
  <1> QED
    BY <1>1, <1>12, <1>13, <1>14, <1>15, <1>20 DEF CleanerIInv

LEMMA FinishStep ==
  ASSUME CleanerIInv, Finish
  PROVE  CleanerIInv'
  <1>1. /\ pc = "strengthen" /\ todo = <<>> /\ next > Len(facts) /\ Destroy /\ pc' = "idle"
        /\ UNCHANGED <<problem, facts, proof, unsat, conflicts, unitLemmas, learntFacts, factsCleaned, next, todo>>
        /\ MapIInv /\ CleanerTypes /\ ClausesRight
        /\ ClearedOf(Facts) /\ RangeRight(-1)
    BY DEF Finish, CleanerIInv, LoopRight, statVars
  <1>2. content' = content /\ deleted' = deleted
    BY <1>1 DEF Destroy
  <1>3. MapIInv' /\ inserted' = {} /\ \A c \in Clauses : pending'[c] = {}
    BY <1>1, EmptiedStep
  <1>4. CleanerTypes'
    BY <1>1 DEF CleanerTypes
  <1>5. MapRight'
    BY <1>1, <1>3 DEF MapRight
  <1>6. ClausesRight'
    BY <1>1, <1>2, ClausesKept
  <1>7. ClearedOf({Neg(f) : f \in Facts})
    <2> SUFFICES ASSUME NEW c \in Clauses \ deleted, NEW f \in Facts, Neg(f) \in content[c]
                 PROVE  FALSE
      BY DEF ClearedOf
    <2>1. PICK k \in 1 .. Len(facts) : f = facts[k]
      BY <1>1, FactPositions DEF CleanerTypes
    <2>2. k \in 1 .. next - 1
      BY <1>1, LenProperties DEF CleanerTypes
    <2>3. (-1) * facts[k] = Neg(f)
      BY <1>1, <2>1, FactPositions, LitFacts DEF CleanerTypes
    <2>4. c \in ToSet(todo)
      BY <1>1, <2>2, <2>3 DEF RangeRight
    <2> QED
      BY <1>1, <2>4, EmptyFacts
  <1>8. LoopRight'
    <2>1. ClearedOf(Facts)' /\ ClearedOf({Neg(f) : f \in Facts})'
      BY <1>1, <1>2, <1>7 DEF ClearedOf, Facts
    <2> QED
      BY <1>1, <2>1 DEF LoopRight
  <1> QED
    BY <1>1, <1>3, <1>4, <1>5, <1>6, <1>8 DEF CleanerIInv

----------------------------------------------------------------------------
(* The steps between two calls, and the beginning of a call.               *)

(* The facts after propagation.                                            *)
LEMMA TrailStep ==
  ASSUME facts \in Seq(Lits), IsInjective(facts), MapTypes,
         Closures(Facts, Live) # {}, facts' \in Trails(facts, Live)
  PROVE  /\ facts' \in Seq(Lits) /\ IsInjective(facts') /\ Len(facts) \in Nat /\ Len(facts') \in Nat
         /\ Facts' = Propagated(Facts, Live) /\ Facts' \in Closures(Facts, Live)
         /\ ModelsOf(Live \cup UnitsOf(Facts')) = ModelsOf(Live \cup UnitsOf(Facts))
         /\ Facts' # Facts => Len(facts') > Len(facts)
  <1>1. Live \in SUBSET SUBSET Lits /\ Facts \in SUBSET Lits
    BY LiveFacts, FactPositions
  <1>2. PICK P : P = Propagated(Facts, Live)
    OBVIOUS
  <1>3. /\ Facts \subseteq P /\ P \in SUBSET Lits /\ IsFiniteSet(P) /\ P \in Closures(Facts, Live)
        /\ ModelsOf(Live \cup UnitsOf(P)) = ModelsOf(Live \cup UnitsOf(Facts))
    BY <1>1, <1>2, PropagatedFacts, LitFacts, FS_Subset
  <1>4. PICK s : s = facts'
    OBVIOUS
  <1>5. s \in SetToSeqs(P)
    BY <1>2, <1>4 DEF Trails, Facts
  <1>6. s \in Seq(P) /\ Len(s) = Cardinality(P) /\ IsInjective(s) /\ ToSet(s) = P
    BY <1>3, <1>5, SeqsOfSet
  <1>7. s \in Seq(Lits)
    BY <1>3, <1>6, SeqMonotonic
  <1>8. Facts' = P
    BY <1>4, <1>6 DEF Facts
  <1>9. Len(facts) \in Nat /\ Len(s) \in Nat
    BY <1>7, LenProperties
  <1>10. ASSUME P # Facts
         PROVE  Len(s) > Len(facts)
    <2>1. IsFiniteSet(Facts) /\ Cardinality(Facts) \in Nat /\ Cardinality(P) \in Nat
          /\ Cardinality(Facts) <= Cardinality(P) /\ Cardinality(P) # Cardinality(Facts)
      BY <1>3, <1>10, FS_Subset, FS_CardinalityType
    <2>2. Len(facts) <= Cardinality(Facts)
      <3> SUFFICES ASSUME Cardinality(Facts) < Len(facts)
                   PROVE  FALSE
        BY <1>9, <2>1
      <3>1. IsFiniteSet(1 .. Len(facts)) /\ Cardinality(1 .. Len(facts)) = Len(facts)
        <4>1. \A n \in Nat : IsFiniteSet(1 .. n) /\ Cardinality(1 .. n) = n
          <5> TAKE n \in Nat
          <5>1. 1 \in Int /\ n \in Int /\ (IF 1 > n THEN 0 ELSE n - 1 + 1) = n
            OBVIOUS
          <5> QED
            BY <5>1, FS_Interval
        <4> QED
          BY <1>9, <4>1
      <3>2. facts \in [1 .. Len(facts) -> Facts]
        <4>1. \A k \in 1 .. Len(facts) : facts[k] \in Facts
          BY FactPositions
        <4>2. facts \in [1 .. Len(facts) -> Lits]
          BY LenProperties
        <4> QED
          BY <4>1, <4>2
      <3>3. \E i, j \in 1 .. Len(facts) : i # j /\ facts[i] = facts[j]
        BY <2>1, <3>1, <3>2, FS_PigeonHole
      <3> QED
        BY <3>2, <3>3 DEF IsInjective
    <2> QED
      BY <1>6, <1>9, <2>1, <2>2
  <1> QED
    BY <1>2, <1>3, <1>4, <1>6, <1>7, <1>8, <1>9, <1>10

LEMMA BeginStep ==
  ASSUME CleanerIInv, Begin
  PROVE  CleanerIInv'
  <1>1. /\ pc = "idle" /\ Closures(Facts, Live) # {} /\ facts' \in Trails(facts, Live)
        /\ factsCleaned' = Len(facts') /\ InsertAll(Clauses) /\ pc' = "delete" /\ next' = 1
        /\ UNCHANGED <<problem, proof, unsat, conflicts, unitLemmas, todo>>
    BY DEF Begin, Facts
  <1>2. /\ MapIInv /\ MapTypes /\ CleanerTypes /\ MapRight /\ ClausesRight /\ todo = <<>>
        /\ inserted = {} /\ \A c \in Clauses : pending[c] = {}
    BY <1>1 DEF CleanerIInv, MapIInv, LoopRight, MapRight
  <1>3. /\ inserted' = inserted \cup (Clauses \ deleted)
        /\ content' = content /\ deleted' = deleted /\ pending' = pending
    BY <1>1 DEF InsertAll
  <1>4. MapIInv'
    <2>1. Clauses \in SUBSET Clauses /\ Clauses \cap inserted = {}
      BY <1>2
    <2> QED
      BY <1>1, <1>2, <2>1, InsertStep
  <1>5. /\ facts' \in Seq(Lits) /\ IsInjective(facts') /\ Len(facts') \in Nat
        /\ Facts' \in Closures(Facts, Live)
        /\ ModelsOf(Live \cup UnitsOf(Facts')) = ModelsOf(Live \cup UnitsOf(Facts))
    BY <1>1, <1>2, TrailStep DEF CleanerTypes
  <1>6. CleanerTypes'
    BY <1>1, <1>2, <1>5 DEF CleanerTypes
  <1>7. MapRight'
    BY <1>1, <1>3 DEF MapRight
  <1>8. ClausesRight'
    <2>1. Live' = Live /\ \A C : Occurring(C)' = Occurring(C)
      BY <1>3 DEF Live, Occurring
    <2> QED
      BY <1>1, <1>2, <1>3, <1>5, <2>1 DEF ClausesRight
  <1>9. FactsRight'
    <2>1. Closed(Facts', Live) /\ \A f \in Facts' : Neg(f) \notin Facts'
      BY <1>5 DEF Closures, PartialAssignments
    <2>2. ASSUME NEW c \in Clauses \ deleted
          PROVE  \/ \E f \in Facts' : f \in content[c]
                 \/ \E l, m \in content[c] : l # m /\ Neg(l) \notin Facts' /\ Neg(m) \notin Facts'
      <3>1. content[c] \in Live
        BY <1>2, LiveFacts
      <3> QED
        BY <2>1, <3>1, ClosedClauses
    <2> QED
      BY <1>1, <1>3, <2>1, <2>2 DEF FactsRight
  <1>10. RangeRight(1)'
    BY <1>1, <1>2, EmptyFacts DEF RangeRight
  <1>11. LoopRight'
    BY <1>1, <1>2, <1>3, <1>9, <1>10 DEF LoopRight
  <1> QED
    BY <1>1, <1>4, <1>6, <1>7, <1>8, <1>11 DEF CleanerIInv

LEMMA NothingStep ==
  ASSUME CleanerIInv, NothingToDo \/ InconsistentFacts
  PROVE  CleanerIInv'
  <1>1. /\ pc = "idle" /\ pc' \in {"idle", "unsat"}
        /\ UNCHANGED <<occVars, problem, facts, proof, factsCleaned, next, todo>>
    BY DEF NothingToDo, InconsistentFacts, loopVars
  <1>2. UNCHANGED <<content, deleted, modified, inserted, occList, stale, pending>>
    BY <1>1 DEF occVars, mapVars
  <1>3. MapIInv /\ CleanerTypes /\ MapRight /\ ClausesRight /\ LoopRight
    BY <1>1 DEF CleanerIInv
  <1>4. MapIInv'
    BY <1>2, <1>3 DEF MapIInv, MapTypes, ListsRight, Lists, PendingRight
  <1>5. CleanerTypes' /\ MapRight' /\ ClausesRight'
    BY <1>1, <1>2, <1>3, ClausesKept DEF CleanerTypes, MapRight
  <1>6. LoopRight'
    BY <1>1, <1>2, <1>3 DEF LoopRight, ClearedOf, Facts
  <1> QED
    BY <1>1, <1>4, <1>5, <1>6 DEF CleanerIInv

LEMMA LearnFactStep ==
  ASSUME CleanerIInv, NEW l \in Lits, LearnFact(l)
  PROVE  CleanerIInv'
  <1>1. /\ pc = "idle" /\ l \notin Facts /\ IsAT({l}, Live \cup UnitsOf(Facts))
        /\ facts' = Append(facts, l) /\ proof' = proof (+) SetToBag({{l}})
        /\ UNCHANGED <<occVars, problem, factsCleaned, pc, next, todo>>
    BY DEF LearnFact, loopVars, Facts
  <1>2. UNCHANGED <<content, deleted, modified, inserted, occList, stale, pending>>
    BY <1>1 DEF occVars, mapVars
  <1>3. MapIInv /\ MapTypes /\ CleanerTypes /\ MapRight /\ ClausesRight /\ LoopRight /\ IsBag(proof)
    BY <1>1 DEF CleanerIInv, MapIInv, CleanerTypes, IsBag
  <1>4. MapIInv'
    BY <1>2, <1>3 DEF MapIInv, MapTypes, ListsRight, Lists, PendingRight
  <1>5. PICK s, n : s = facts' /\ n = Len(facts)
    OBVIOUS
  <1>6. /\ s \in Seq(Lits) /\ IsInjective(s) /\ ToSet(s) = Facts \cup {l}
        /\ n \in Nat /\ Len(s) = n + 1
    BY <1>1, <1>3, <1>5, AppendFacts, AppendProperties, LenProperties DEF CleanerTypes, Facts
  <1>7. Facts' = Facts \cup {l}
    BY <1>5, <1>6 DEF Facts
  <1>8. /\ IsBag(proof')
        /\ \A C : Copies(C, proof') >= Copies(C, proof) /\ Copies(C, proof) \in Nat /\ Copies(C, proof') \in Nat
    <2>1. PICK b, t : b = proof /\ t = b (+) SetToBag({{l}})
      OBVIOUS
    <2>2. /\ IsBag(t)
          /\ \A C : Copies(C, t) = IF C = {l} THEN Copies(C, b) + 1 ELSE Copies(C, b)
          /\ \A C : Copies(C, b) \in Nat
      <3>1. IsBag(b)
        BY <1>3, <2>1
      <3>2. /\ IsBag(b (+) SetToBag({{l}}))
            /\ \A C : Copies(C, b (+) SetToBag({{l}})) = IF C = {l} THEN Copies(C, b) + 1 ELSE Copies(C, b)
            /\ \A C : Copies(C, b) \in Nat
        BY <3>1, AddedCopies
      <3> QED
        BY <2>1, <3>2
    <2>3. \A C : Copies(C, t) >= Copies(C, b) /\ Copies(C, t) \in Nat
      BY <2>2
    <2> QED
      BY <1>1, <2>1, <2>2, <2>3
  <1>9. CleanerTypes'
    <2>1. factsCleaned \in 0 .. n + 1 /\ next \in 1 .. (n + 1) + 1
      BY <1>3, <1>5, <1>6 DEF CleanerTypes
    <2> QED
      BY <1>1, <1>3, <1>5, <1>6, <1>8, <2>1 DEF CleanerTypes, IsBag
  <1>10. MapRight'
    BY <1>1, <1>2, <1>3 DEF MapRight
  <1>11. ClausesRight'
    <2>1. ModelsOf(Live \cup UnitsOf(Facts \cup {l})) = ModelsOf(Live \cup UnitsOf(Facts))
      <3>1. \A A : A \in ModelsOf(Live \cup UnitsOf(Facts)) <=> A \in TotalAssignments /\ Satisfies(A, Live) /\ Facts \subseteq A
        BY UnitModels
      <3>2. PICK G : G = Facts \cup {l}
        OBVIOUS
      <3>3. \A A : A \in ModelsOf(Live \cup UnitsOf(G)) <=> A \in TotalAssignments /\ Satisfies(A, Live) /\ G \subseteq A
        BY UnitModels
      <3>4. ASSUME NEW A \in ModelsOf(Live \cup UnitsOf(Facts))
            PROVE  l \in A
        <4>1. A \in TotalAssignments /\ Satisfies(A, Live \cup UnitsOf(Facts))
          BY DEF ModelsOf
        <4>2. Live \cup UnitsOf(Facts) \in SUBSET SUBSET Lits
          BY <1>3, LiveFacts, FactPositions DEF CleanerTypes, UnitsOf
        <4> QED
          BY <1>1, <4>1, <4>2, TautologyImplied
      <3> QED
        BY <3>1, <3>2, <3>3, <3>4
    <2>2. Live' = Live /\ \A C : Occurring(C)' = Occurring(C)
      BY <1>2 DEF Live, Occurring
    <2>3. ASSUME NEW C \in SUBSET Lits
          PROVE  Copies(C, proof') >= Cardinality(Occurring(C))
      <3>1. Copies(C, proof) >= Cardinality(Occurring(C)) /\ Cardinality(Occurring(C)) \in Nat
        BY <1>3, OccurringFacts DEF ClausesRight
      <3> QED
        BY <1>8, <3>1
    <2> QED
      BY <1>1, <1>2, <1>3, <1>7, <2>1, <2>2, <2>3 DEF ClausesRight
  <1>12. LoopRight'
    <2>1. Len(facts') # factsCleaned'
      BY <1>1, <1>3, <1>5, <1>6 DEF CleanerTypes
    <2> QED
      BY <1>1, <1>3, <2>1 DEF LoopRight
  <1> QED
    BY <1>1, <1>4, <1>9, <1>10, <1>11, <1>12 DEF CleanerIInv

LEMMA PropagateStep ==
  ASSUME CleanerIInv, PropagateHardFacts
  PROVE  CleanerIInv'
  <1>1. /\ pc = "idle" /\ Closures(Facts, Live) # {} /\ facts' \in Trails(facts, Live)
        /\ Propagated(Facts, Live) \ Facts # {}
        /\ UNCHANGED <<occVars, problem, proof, factsCleaned, pc, next, todo>>
    BY DEF PropagateHardFacts, loopVars, Facts
  <1>2. UNCHANGED <<content, deleted, modified, inserted, occList, stale, pending>>
    BY <1>1 DEF occVars, mapVars
  <1>3. MapIInv /\ MapTypes /\ CleanerTypes /\ MapRight /\ ClausesRight /\ LoopRight
    BY <1>1 DEF CleanerIInv, MapIInv
  <1>4. MapIInv'
    BY <1>2, <1>3 DEF MapIInv, MapTypes, ListsRight, Lists, PendingRight
  <1>5. /\ facts' \in Seq(Lits) /\ IsInjective(facts') /\ Len(facts) \in Nat /\ Len(facts') \in Nat
        /\ ModelsOf(Live \cup UnitsOf(Facts')) = ModelsOf(Live \cup UnitsOf(Facts))
        /\ Len(facts') > Len(facts)
    <2>1. facts \in Seq(Lits) /\ IsInjective(facts)
      BY <1>3 DEF CleanerTypes
    <2>2. /\ facts' \in Seq(Lits) /\ IsInjective(facts') /\ Len(facts) \in Nat /\ Len(facts') \in Nat
          /\ Facts' = Propagated(Facts, Live)
          /\ ModelsOf(Live \cup UnitsOf(Facts')) = ModelsOf(Live \cup UnitsOf(Facts))
          /\ Facts' # Facts => Len(facts') > Len(facts)
      BY <1>1, <1>3, <2>1, TrailStep
    <2> QED
      BY <1>1, <2>2
  <1>6. CleanerTypes'
    BY <1>1, <1>3, <1>5 DEF CleanerTypes
  <1>7. MapRight'
    BY <1>1, <1>2, <1>3 DEF MapRight
  <1>8. ClausesRight'
    <2>1. Live' = Live /\ \A C : Occurring(C)' = Occurring(C)
      BY <1>2 DEF Live, Occurring
    <2> QED
      BY <1>1, <1>2, <1>3, <1>5, <2>1 DEF ClausesRight
  <1>9. LoopRight'
    <2>1. Len(facts') # factsCleaned'
      BY <1>1, <1>3, <1>5 DEF CleanerTypes
    <2> QED
      BY <1>1, <1>3, <2>1 DEF LoopRight
  <1> QED
    BY <1>1, <1>4, <1>6, <1>7, <1>8, <1>9 DEF CleanerIInv

LEMMA OtherStep ==
  ASSUME CleanerIInv, OtherOptimizer
  PROVE  CleanerIInv'
  <1>1. /\ pc = "other" /\ pc' = "other" /\ AnyOptimizer(TouchedClauses, TouchedLits) /\ MapIInv
        /\ todo = <<>> /\ todo' = todo
    BY DEF OtherOptimizer, loopVars, CleanerIInv
  <1>2. MapIInv'
    BY <1>1, OptimizerStep
  <1> QED
    BY <1>1, <1>2 DEF CleanerIInv

(* The certificate starts with a copy of every clause.                     *)
LEMMA FirstCopies ==
  ASSUME NEW p \in Problems, content = p.clauses, deleted = {}, proof = FirstLines(p)
  PROVE  IsBag(proof) /\ \A C \in SUBSET Lits : Copies(C, proof) >= Cardinality(Occurring(C))
  <1>1. content \in [Clauses -> {C \in SUBSET Lits : Cardinality(C) >= 2}]
    BY ProblemsAssumption
  <1>2. PICK u, b : /\ u = SetToBag(UnitsOf(p.facts))
                    /\ b = [C \in ToSet(p.clauses) |-> Cardinality({c \in Clauses : p.clauses[c] = C})]
    OBVIOUS
  <1>3. \A C : Occurring(C) = {c \in Clauses : p.clauses[c] = C}
    BY DEF Occurring
  <1>4. \A C \in DOMAIN b : b[C] = Cardinality(Occurring(C)) /\ b[C] \in Nat \ {0}
    <2> SUFFICES ASSUME NEW C \in ToSet(p.clauses)
                 PROVE  b[C] = Cardinality(Occurring(C)) /\ b[C] \in Nat \ {0}
      BY <1>2
    <2>1. b[C] = Cardinality(Occurring(C))
      BY <1>2, <1>3
    <2>2. Occurring(C) # {}
      BY <1>1 DEF Occurring, ToSet
    <2>3. IsFiniteSet(Occurring(C)) /\ Cardinality(Occurring(C)) \in Nat
      BY OccurringFacts
    <2>4. Cardinality(Occurring(C)) # 0
      BY <2>2, <2>3, FS_EmptySet
    <2> QED
      BY <2>1, <2>3, <2>4
  <1>5. \A C \in DOMAIN u : u[C] = 1
    BY <1>2 DEF SetToBag
  <1>6. proof = [e \in (DOMAIN u) \cup (DOMAIN b) |->
                   (IF e \in DOMAIN u THEN u[e] ELSE 0) + (IF e \in DOMAIN b THEN b[e] ELSE 0)]
    BY <1>2 DEF FirstLines, (+)
  <1>7. IsBag(proof)
    BY <1>4, <1>5, <1>6 DEF IsBag
  <1>8. ASSUME NEW C \in SUBSET Lits
        PROVE  Copies(C, proof) >= Cardinality(Occurring(C))
    <2>1. CASE C \in DOMAIN b
      <3>1. C \in DOMAIN proof /\ proof[C] >= b[C]
        BY <1>4, <1>5, <1>6, <2>1
      <3> QED
        BY <1>4, <2>1, <3>1 DEF Copies, BagToSet
    <2>2. CASE C \notin DOMAIN b
      <3>1. Occurring(C) = {}
        BY <1>1, <1>2, <2>2 DEF Occurring, ToSet
      <3>2. Cardinality(Occurring(C)) = 0
        BY <3>1, FS_EmptySet
      <3>3. Copies(C, proof) \in Nat
        BY <1>7, AddedCopies
      <3> QED
        BY <3>2, <3>3
    <2> QED
      BY <2>1, <2>2
  <1> QED
    BY <1>7, <1>8

LEMMA CleanerInit ==
  ASSUME Init
  PROVE  CleanerIInv
  <1>1. PICK p \in Problems :
          /\ content = p.clauses
          /\ pc = IF p.optimizer = "other" THEN "other" ELSE "idle"
          /\ facts \in SetToSeqs(p.facts)
          /\ problem = ToSet(content) \cup UnitsOf(p.facts)
          /\ proof = FirstLines(p)
    BY DEF Init
  <1>2. /\ deleted = {} /\ modified = {} /\ inserted = {} /\ stale = {}
        /\ occList = [l \in Lits |-> <<>>] /\ pending = [c \in Clauses |-> {}]
        /\ factsCleaned = 0 /\ next = 1 /\ todo = <<>>
    BY DEF Init, EmptyMap
  <1>3. content \in [Clauses -> {C \in SUBSET Lits : Cardinality(C) >= 2}] /\ p.facts \subseteq Lits
    BY <1>1, ProblemsAssumption
  <1>4. MapIInv
    <2>1. MapTypes
      BY <1>2, <1>3 DEF MapTypes
    <2>2. ListsRight
      BY <1>2, EmptyFacts DEF ListsRight, Lists
    <2>3. PendingRight
      BY <1>2 DEF PendingRight
    <2> QED
      BY <2>1, <2>2, <2>3 DEF MapIInv
  <1>5. IsFiniteSet(p.facts) /\ Cardinality(p.facts) \in Nat
    BY <1>3, LitFacts, FS_Subset, FS_CardinalityType
  <1>6. facts \in Seq(p.facts) /\ Len(facts) = Cardinality(p.facts) /\ IsInjective(facts) /\ Facts = p.facts
    BY <1>1, <1>5, SeqsOfSet DEF Facts
  <1>7. facts \in Seq(Lits)
    BY <1>3, <1>6, SeqMonotonic
  <1>8. IsBag(proof) /\ \A C \in SUBSET Lits : Copies(C, proof) >= Cardinality(Occurring(C))
    BY <1>1, <1>2, FirstCopies
  <1>9. CleanerTypes
    <2>1. todo \in Seq(Clauses) /\ IsInjective(todo)
      BY <1>2, EmptyFacts
    <2>2. factsCleaned \in 0 .. Len(facts) /\ next \in 1 .. Len(facts) + 1
      BY <1>2, <1>5, <1>6
    <2> QED
      BY <1>1, <1>6, <1>7, <1>8, <2>1, <2>2 DEF CleanerTypes, IsBag
  <1>10. MapRight
    BY <1>1, <1>2 DEF MapRight
  <1>11. ClausesRight
    <2>1. Live = ToSet(content)
      BY <1>2, <1>3 DEF Live, ToSet
    <2> QED
      BY <1>1, <1>3, <1>6, <1>8, <2>1 DEF ClausesRight
  <1>12. LoopRight
    <2>1. Len(facts) = 0 => Facts = {}
      BY <1>5, <1>6, FS_EmptySet
    <2> QED
      BY <1>1, <1>2, <2>1 DEF LoopRight, ClearedOf
  <1> QED
    BY <1>2, <1>4, <1>9, <1>10, <1>11, <1>12 DEF CleanerIInv

LEMMA CleanerStep ==
  ASSUME CleanerIInv, [Next]_cleanerVars
  PROVE  CleanerIInv'
  <1>1. CASE UNCHANGED cleanerVars
    <2>1. /\ UNCHANGED <<content, deleted, modified, inserted, occList, stale, pending>>
          /\ UNCHANGED <<problem, facts, proof, factsCleaned, pc, next, todo>>
      BY <1>1 DEF cleanerVars, occVars, mapVars, statVars, loopVars
    <2>2. MapIInv'
      BY <2>1 DEF CleanerIInv, MapIInv, MapTypes, ListsRight, Lists, PendingRight
    <2>3. ASSUME pc # "other"
          PROVE  CleanerTypes' /\ MapRight' /\ ClausesRight' /\ LoopRight'
      <3>1. CleanerTypes /\ MapRight /\ ClausesRight /\ LoopRight
        BY <2>3 DEF CleanerIInv
      <3>2. CleanerTypes' /\ MapRight' /\ ClausesRight'
        BY <2>1, <3>1, ClausesKept DEF CleanerTypes, MapRight
      <3>3. LoopRight'
        BY <2>1, <3>1 DEF LoopRight, FactsRight, ClearedOf, RangeRight, Facts
      <3> QED
        BY <3>2, <3>3
    <2> QED
      BY <2>1, <2>2, <2>3 DEF CleanerIInv
  <1>2. CASE OtherOptimizer
    BY <1>2, OtherStep
  <1>3. CASE NothingToDo \/ InconsistentFacts
    BY <1>3, NothingStep
  <1>4. CASE Begin
    BY <1>4, BeginStep
  <1>5. CASE LookUpSatisfied \/ DeleteSatisfied \/ BeginStrengthening
    BY <1>5, LookUpSatisfiedStep, DeleteSatisfiedStep, BeginStrengtheningStep
  <1>6. CASE LookUpContradicted \/ Strengthen \/ Finish
    BY <1>6, LookUpContradictedStep, StrengthenStep, FinishStep
  <1>7. CASE \E l \in Lits : LearnFact(l)
    BY <1>7, LearnFactStep
  <1>8. CASE PropagateHardFacts
    BY <1>8, PropagateStep
  <1> QED
    BY <1>1, <1>2, <1>3, <1>4, <1>5, <1>6, <1>7, <1>8 DEF Next

(* A loop that deletes or shortens a clause changes no list: it is only    *)
(* noted which lists will have to be purged.                               *)
LEMMA RangeKept ==
  ASSUME CleanerIInv, [Next]_cleanerVars, todo # <<>>
  PROVE  occList' = occList
  <1>1. CASE UNCHANGED cleanerVars
    BY <1>1 DEF cleanerVars, occVars, mapVars
  <1>2. CASE DeleteSatisfied
    BY <1>2 DEF DeleteSatisfied, DeleteClause, RemoveClause
  <1>3. CASE Strengthen
    <2>1. CASE UNCHANGED <<occVars, proof>> \/ DeleteClause(Head(todo))
      BY <2>1 DEF occVars, mapVars, DeleteClause, RemoveClause
    <2>2. CASE Shorten(Head(todo), Neg(facts[next - 1]))
      <3>1. occList' = [m \in Lits |->
              IF m \in {} \ pending[Head(todo)] THEN Append(occList[m], Head(todo)) ELSE occList[m]]
        BY <2>2 DEF Shorten, SetModified
      <3>2. occList = [m \in Lits |-> occList[m]]
        BY DEF CleanerIInv, MapIInv, MapTypes
      <3> QED
        BY <3>1, <3>2
    <2> QED
      BY <1>3, <2>1, <2>2 DEF Strengthen
  <1>4. pc \in {"delete", "strengthen"}
    BY DEF CleanerIInv, LoopRight
  <1>5. ~(OtherOptimizer \/ NothingToDo \/ InconsistentFacts \/ Begin)
    BY <1>4 DEF OtherOptimizer, NothingToDo, InconsistentFacts, Begin
  <1>6. ~(LookUpSatisfied \/ BeginStrengthening \/ LookUpContradicted \/ Finish)
    BY DEF LookUpSatisfied, BeginStrengthening, LookUpContradicted, Finish
  <1>7. ~(PropagateHardFacts \/ \E l \in Lits : LearnFact(l))
    BY <1>4 DEF PropagateHardFacts, LearnFact
  <1> QED
    BY <1>1, <1>2, <1>3, <1>5, <1>6, <1>7 DEF Next

----------------------------------------------------------------------------
(* Nothing is lost between the steps.                                      *)
THEOREM CleanerInvariant == Spec => []CleanerIInv
  <1>1. Init => CleanerIInv
    BY CleanerInit
  <1>2. CleanerIInv /\ [Next]_cleanerVars => CleanerIInv'
    BY CleanerStep
  <1> QED
    BY <1>1, <1>2, PTL DEF Spec

(* Looking a literal up returns every clause in the map that contains it,  *)
(* no other and none twice, whatever optimizer uses the map, how many      *)
(* clauses there are and which of them and of the literals it touches      *)
(* (operator[], setModified, update).                                      *)
THEOREM LookupIsExact == Spec => []LookupExact
  <1>1. CleanerIInv => LookupExact
    BY LookupsRight DEF CleanerIInv
  <1> QED
    BY <1>1, CleanerInvariant, PTL

(* Whenever the FactCleaner is done, no variable of a fact occurs in any   *)
(* clause, no clause is a unit or marked as modified, and clauses and      *)
(* facts have the models they had at first (optimize()).                   *)
THEOREM ProblemIsCleaned == Spec => []ProblemCleaned
  <1>1. ASSUME CleanerIInv
        PROVE  ProblemCleaned
    <2>1. pc # "other" => CleanerTypes /\ MapRight /\ ClausesRight /\ LoopRight
      BY <1>1 DEF CleanerIInv
    <2>2. pc # "other" => ModelsOf(Live \cup UnitsOf(ToSet(facts))) = ModelsOf(problem)
      BY <2>1 DEF ClausesRight, Facts
    <2>3. pc = "idle" => modified = {}
      BY <1>1, <2>1 DEF MapRight, CleanerIInv, MapIInv, PendingRight
    <2>4. ASSUME pc = "idle", Len(facts) = factsCleaned, NEW C \in Live
          PROVE  Cardinality(C) >= 2 /\ \A f \in Facts : f \notin C /\ Neg(f) \notin C
      <3>1. PICK c \in Clauses \ deleted : C = content[c]
        BY DEF Live
      <3> QED
        BY <2>1, <2>4, <3>1 DEF ClausesRight, LoopRight, ClearedOf
    <2> QED
      BY <2>2, <2>3, <2>4 DEF ProblemCleaned, Facts
  <1> QED
    BY <1>1, CleanerInvariant, PTL

(* The certificate holds a copy of every clause the solver goes on to use  *)
(* (deleteClause, optimize()).                                             *)
THEOREM CertificateKeepsClauses == Spec => []ProofKeepsClauses
  <1>1. ASSUME CleanerIInv
        PROVE  ProofKeepsClauses
    <2> SUFFICES ASSUME pc # "other", NEW C \in Live
                 PROVE  Copies(C, proof) >= Cardinality(Occurring(C))
      BY DEF ProofKeepsClauses, Occurring
    <2>1. C \in SUBSET Lits
      BY <1>1, LiveFacts DEF CleanerIInv, MapIInv
    <2> QED
      BY <1>1, <2>1 DEF CleanerIInv, ClausesRight
  <1> QED
    BY <1>1, CleanerInvariant, PTL

(* The range of clauses a loop iterates over does not change under it,     *)
(* although the loop deletes and shortens the clauses in it (optimize(),   *)
(* OccurrenceMap::remove, setModified).                                    *)
THEOREM RangesAreStable == Spec => RangeStable
  <1>1. CleanerIInv /\ [Next]_cleanerVars => [todo # <<>> => occList' = occList]_cleanerVars
    BY RangeKept
  <1> QED
    BY <1>1, CleanerInvariant, PTL DEF Spec, RangeStable
=============================================================================
