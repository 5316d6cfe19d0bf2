------------------------------ MODULE ClauseDB ------------------------------
(***************************************************************************)
(* The clause database (libjamsat/clausedb/IterableClauseDB.h and          *)
(* Clause.h): regions of memory in which clauses of different sizes lie    *)
(* one after the other, and their compaction, one clause per step.         *)
(*                                                                         *)
(* Memory is counted in literals, offsets from 0; regions are counted from *)
(* 1.  A clause object is known by the number id of its creation; of its   *)
(* literals there is only their number.                                    *)
(***************************************************************************)
EXTENDS Integers, Sequences, SequencesExt

CONSTANTS
  RegionSize,   \* m_regionSize
  Header,       \* the part of sizeof(Clause) before the literals
  Align,        \* alignof(Clause)
  Lengths,      \* bound: the sizes of clauses created
  MaxClauses    \* bound: the number of clauses created

ASSUME SizesAssumption ==
  /\ RegionSize \in Nat \ {0} /\ Header \in Nat /\ Align \in Nat \ {0}
  /\ Lengths \subseteq Nat \ {0} /\ MaxClauses \in Nat

VARIABLES
  active,       \* m_activeRegions
  spares,       \* m_spareRegions
  created,      \* history: the number of clauses created
  pc,           \* "idle", "compress", or "crash": a null pointer was used
  spare,        \* compress(): currentSpare
  swapIn,       \* compress(): swapInIndex
  idx,          \* compress(): the index of region
  pos           \* compress(): the offset of clause, or End

compressVars == <<pc, spare, swapIn, idx, pos>>
dbVars == <<active, spares, created, compressVars>>

Nothing == [id |-> 0]
End     == -1

(* Clause::getAllocationSize()                                             *)
AllocationSize(n) ==
  LET s == Header + n IN s + ((Align - (s % Align)) % Align)

(* A clause object.  Its size at allocation is what iteration goes by;     *)
(* shortening stores it behind the last literal.                           *)
Clause(i, n) == [id |-> i, len |-> n, initial |-> n, deleted |-> FALSE]

Extent(c) == AllocationSize(c.initial)

----------------------------------------------------------------------------
(* Regions.                                                                *)

EmptyRegion == [mem |-> [o \in 0 .. RegionSize - 1 |-> Nothing], used |-> 0]

Free(r) == RegionSize - r.used

Fits(r, n) == AllocationSize(n) <= Free(r)

(* allocate(), and what is stored in the clause then.                      *)
Allocated(r, c) ==
  [mem |-> [r.mem EXCEPT ![r.used] = c], used |-> r.used + Extent(c)]

FirstClause(r) == IF r.used = 0 THEN End ELSE 0

(* Faulty variant: goes by the size the clause has now.                    *)
NextClauseBySize(r, o) ==
  LET size == AllocationSize(r.mem[o].len)
  IN IF o = r.used - size THEN End ELSE o + size

NextClause(r, o) ==
  LET size == Extent(r.mem[o]) IN IF o = r.used - size THEN End ELSE o + size

IsClauseAt(r, o) == o \in DOMAIN r.mem /\ r.mem[o] # Nothing

(* The offsets an iteration visits from o on; it stops where there is no   *)
(* clause.                                                                 *)
OffsetsFrom(r, start) ==
  LET walk[o \in -1 .. 2 * RegionSize] ==
        IF ~IsClauseAt(r, o) THEN <<>>
        ELSE <<o>> \o walk[NextClause(r, o)]
  IN walk[start]

Offsets(r) == OffsetsFrom(r, FirstClause(r))

(* The clauses an iteration from o on sees, as a client sees them.         *)
Seen(c) == [id |-> c.id, len |-> c.len, deleted |-> c.deleted]

ClausesFrom(r, start) ==
  LET walk[o \in -1 .. 2 * RegionSize] ==
        IF ~IsClauseAt(r, o) THEN <<>>
        ELSE <<Seen(r.mem[o])>> \o walk[NextClause(r, o)]
  IN walk[start]

ClausesOf(r) == ClausesFrom(r, FirstClause(r))

ClausesOfAll(regions) ==
  LET upTo[i \in 0 .. Len(regions)] ==
        IF i = 0 THEN <<>> ELSE upTo[i - 1] \o ClausesOf(regions[i])
  IN upTo[Len(regions)]

----------------------------------------------------------------------------
Init ==
  /\ active = <<>> /\ spares = <<>>
  /\ created = 0
  /\ pc = "idle"
  /\ spare = EmptyRegion /\ swapIn = 0 /\ idx = 0 /\ pos = End

(* createActiveRegion() first fills the list of spares up to this number.  *)
SparesWanted == 3

FilledSpares ==
  IF Len(spares) >= SparesWanted THEN spares
  ELSE spares \o [i \in 1 .. SparesWanted - Len(spares) |-> EmptyRegion]

(* The region that becomes active, and the spares that are left.           *)
NewRegion == Last(FilledSpares)

(* Faulty variant: the free size is not looked at.                         *)
HasRoomAlways(n) == active # <<>>

HasRoom(n) == active # <<>> /\ Fits(Last(active), n)

(* createClause(n) with room in the last region.                           *)
CreateInRegion(n) ==
  /\ pc = "idle" /\ created < MaxClauses
  /\ HasRoom(n)
  /\ active' = [active EXCEPT ![Len(active)] = Allocated(@, Clause(created + 1, n))]
  /\ created' = created + 1
  /\ UNCHANGED <<spares, compressVars>>

(* createClause(n) with a new region.                                      *)
CreateInNewRegion(n) ==
  /\ pc = "idle" /\ created < MaxClauses
  /\ AllocationSize(n) <= RegionSize
  /\ ~HasRoom(n)
  /\ active' = Append(active, Allocated(NewRegion, Clause(created + 1, n)))
  /\ spares' = Front(FilledSpares)
  /\ created' = created + 1
  /\ UNCHANGED compressVars

(* createClause(n) when memory runs out: while the spares are filled up or *)
(* before the last of them is appended to the active regions, or after     *)
(* that, when space is reserved in the lists of regions.  It returns       *)
(* nullptr.                                                                *)
CreateFails(n) ==
  /\ pc = "idle" /\ created < MaxClauses
  /\ AllocationSize(n) <= RegionSize
  /\ ~HasRoom(n)
  /\ \/ /\ \E k \in Len(spares) .. SparesWanted : spares' = SubSeq(FilledSpares, 1, k)
        /\ UNCHANGED active
     \/ /\ active' = Append(active, NewRegion)
        /\ spares' = Front(FilledSpares)
  /\ UNCHANGED <<created, compressVars>>

(* A client changes the clause at offset o of region r.                    *)
Modify(r, o, c) ==
  /\ pc = "idle"
  /\ active' = [active EXCEPT ![r].mem[o] = c]
  /\ UNCHANGED <<spares, created, compressVars>>

(* Clause::resize()                                                        *)
Resize(r, o) ==
  \E n \in Lengths : n < active[r].mem[o].len /\ Modify(r, o, [active[r].mem[o] EXCEPT !.len = n])

ScheduleForDeletion(r, o) ==
  ~active[r].mem[o].deleted /\ Modify(r, o, [active[r].mem[o] EXCEPT !.deleted = TRUE])

----------------------------------------------------------------------------
(* compress()                                                              *)

BeginCompress ==
  /\ pc = "idle"
  /\ active # <<>>
  /\ pc' = "compress"
  /\ spare' = Last(spares)
  /\ spares' = Front(spares)
  /\ swapIn' = 1 /\ idx' = 1
  /\ pos' = FirstClause(active[1])
  /\ UNCHANGED <<active, created>>

Visiting == pc = "compress" /\ idx <= Len(active) /\ pos # End

Visited == active[idx].mem[pos]

SkipDeleted ==
  /\ Visiting
  /\ Visited.deleted
  /\ pos' = NextClause(active[idx], pos)
  /\ UNCHANGED <<active, spares, created, pc, spare, swapIn, idx>>

(* The copy is allocated with the current size; assignment copies flags    *)
(* and literals and keeps the size at allocation of the copy.              *)
Copy == [Visited EXCEPT !.initial = Visited.len]

CopyToSpare ==
  /\ Visiting
  /\ ~Visited.deleted
  /\ Fits(spare, Visited.len)
  /\ spare' = Allocated(spare, Copy)
  /\ pos' = NextClause(active[idx], pos)
  /\ UNCHANGED <<active, spares, created, pc, swapIn, idx>>

(* Faulty variant: swapInIndex stays.                                      *)
CopyToNextSpareAgain ==
  /\ Visiting
  /\ ~Visited.deleted
  /\ ~Fits(spare, Visited.len)
  /\ active' = [active EXCEPT ![swapIn] = spare]
  /\ spare' = Allocated(active[swapIn], Copy)
  /\ pos' = NextClause(active[idx], pos)
  /\ UNCHANGED <<spares, created, pc, swapIn, idx>>

(* The spare region is full and takes the place of a region that has been  *)
(* copied, which becomes the spare.                                        *)
CopyToNextSpare ==
  /\ Visiting
  /\ ~Visited.deleted
  /\ ~Fits(spare, Visited.len)
  /\ active' = [active EXCEPT ![swapIn] = spare]
  /\ swapIn' = swapIn + 1
  /\ IF Fits(active[swapIn], Visited.len)
     THEN /\ spare' = Allocated(active[swapIn], Copy)
          /\ pos' = NextClause(active[idx], pos)
          /\ UNCHANGED pc
     ELSE pc' = "crash" /\ spare' = active[swapIn] /\ UNCHANGED pos
  /\ UNCHANGED <<spares, created, idx>>

(* Faulty variant: the region is not cleared.                              *)
RegionDoneUncleared ==
  /\ pc = "compress" /\ idx <= Len(active) /\ pos = End
  /\ idx' = idx + 1
  /\ pos' = IF idx < Len(active) THEN FirstClause(active[idx + 1]) ELSE End
  /\ UNCHANGED <<active, spares, created, pc, spare, swapIn>>

RegionDone ==
  /\ pc = "compress" /\ idx <= Len(active) /\ pos = End
  /\ active' = [active EXCEPT ![idx] = EmptyRegion]
  /\ idx' = idx + 1
  /\ pos' = IF idx < Len(active) THEN FirstClause(active[idx + 1]) ELSE End
  /\ UNCHANGED <<spares, created, pc, spare, swapIn>>

(* Faulty variant: the region that is swapped out is lost.                 *)
FinishCompressLosingSpare ==
  /\ pc = "compress" /\ idx > Len(active)
  /\ active' = SubSeq([active EXCEPT ![swapIn] = spare], 1, swapIn)
  /\ spares' = spares \o SubSeq(active, swapIn + 1, Len(active))
  /\ pc' = "idle"
  /\ spare' = EmptyRegion /\ swapIn' = 0 /\ idx' = 0 /\ pos' = End
  /\ UNCHANGED created

(* The last spare is swapped in.  The region it is exchanged for becomes a *)
(* spare, and so do the empty ones at the end, except the first region.    *)
FinishCompress ==
  /\ pc = "compress" /\ idx > Len(active)
  /\ LET regions == [active EXCEPT ![swapIn] = spare]
         kept == CHOOSE n \in DOMAIN regions :
                   /\ n = 1 \/ regions[n].used # 0
                   /\ \A i \in n + 1 .. Len(regions) : regions[i].used = 0
     IN /\ active' = SubSeq(regions, 1, kept)
        /\ spares' = spares \o <<EmptyRegion>> \o Reverse(SubSeq(regions, kept + 1, Len(regions)))
  /\ pc' = "idle"
  /\ spare' = EmptyRegion /\ swapIn' = 0 /\ idx' = 0 /\ pos' = End
  /\ UNCHANGED created

----------------------------------------------------------------------------
Client ==
  \/ \E n \in Lengths : CreateInRegion(n) \/ CreateInNewRegion(n) \/ CreateFails(n)
  \/ \E r \in DOMAIN active : \E o \in ToSet(Offsets(active[r])) :
       Resize(r, o) \/ ScheduleForDeletion(r, o)
  \/ BeginCompress

CompressStep ==
  SkipDeleted \/ CopyToSpare \/ CopyToNextSpare \/ RegionDone \/ FinishCompress

Next == Client \/ CompressStep

Spec == Init /\ [][Next]_dbVars

----------------------------------------------------------------------------
ClauseType(c) ==
  /\ c.id \in 1 .. created
  /\ c.len \in Lengths /\ c.initial \in Lengths /\ c.len <= c.initial
  /\ c.deleted \in BOOLEAN

RegionType(r) ==
  /\ r.used \in 0 .. RegionSize
  /\ DOMAIN r.mem = 0 .. RegionSize - 1
  /\ \A o \in DOMAIN r.mem : r.mem[o] = Nothing \/ ClauseType(r.mem[o])

Regions == ToSet(active) \cup ToSet(spares) \cup {spare}

DBTypeOK ==
  /\ created \in 0 .. MaxClauses
  /\ pc \in {"idle", "compress", "crash"}
  /\ swapIn \in 0 .. Len(active) /\ idx \in 0 .. Len(active) + 1
  /\ pos \in -1 .. RegionSize - 1
  /\ \A r \in Regions : RegionType(r)

(* Iterating over a region, which adds up the sizes at allocation, visits  *)
(* just the offsets where clauses have been allocated and ends, also after *)
(* clauses have been shortened, and also in the middle of compress()       *)
(* (IterableClauseDB.h:484-512).                                           *)
IterationExact ==
  \A r \in Regions : ToSet(Offsets(r)) = {o \in DOMAIN r.mem : IsClauseAt(r, o)}

(* A clause that is not deleted always has a place to be copied to: while  *)
(* a region is read, the spare has room for what is left of it, or the     *)
(* region to be overwritten next has been read.  compress() uses the       *)
(* result of its second allocation without a test                          *)
(* (IterableClauseDB.h:633-661).                                           *)
CopiesFit ==
  /\ pc # "crash"
  /\ Visiting /\ swapIn >= idx =>
       /\ swapIn = idx
       /\ Free(spare) >= active[idx].used - pos

(* There is an empty spare region whenever compress() may need one, also   *)
(* after allocations that failed (IterableClauseDB.h:626-631).             *)
SpareAvailable ==
  /\ pc = "idle" /\ active # <<>> => spares # <<>>
  /\ \A i \in DOMAIN spares : spares[i] = EmptyRegion

----------------------------------------------------------------------------
(* The database implements ClauseStore.  From its beginning on, compress() *)
(* counts as done: what is stored are the clauses copied so far and those  *)
(* not yet read that are not deleted.                                      *)
Kept(clauses) ==
  LET upTo[i \in 0 .. Len(clauses)] ==
        IF i = 0 THEN <<>>
        ELSE upTo[i - 1] \o IF clauses[i].deleted THEN <<>> ELSE <<clauses[i]>>
  IN upTo[Len(clauses)]

Unread ==
  IF idx > Len(active) THEN <<>>
  ELSE ClausesFrom(active[idx], pos) \o ClausesOfAll(SubSeq(active, idx + 1, Len(active)))

StoredClauses ==
  IF pc = "idle" THEN ClausesOfAll(active)
  ELSE ClausesOfAll(SubSeq(active, 1, swapIn - 1)) \o ClausesOf(spare) \o Kept(Unread)

Store == INSTANCE ClauseStore WITH stored <- StoredClauses

(* No clause is lost, duplicated, exchanged or read from memory that was   *)
(* freed, in any sequence of additions, failed additions, shortenings and  *)
(* compactions, and compress() removes the deleted ones and no others      *)
(* (IterableClauseDB.h:608-680).                                           *)
ImplementsStore == Store!StoreSpec
=============================================================================
