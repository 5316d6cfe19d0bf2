----------------------------- MODULE BinaryHeap -----------------------------
(***************************************************************************)
(* The binary max-heap of the branching heuristic                          *)
(* (libjamsat/utils/BinaryHeap.h): an array with an index map, moved by    *)
(* one array position per step, so that its invariants can be stated in    *)
(* the middle of an update too.  Array indices are those of the code,      *)
(* counted from 0.                                                         *)
(*                                                                         *)
(* The comparator of the code owns the activities it compares; activity is *)
(* its map.  Who changes an activity and calls an update is the client's   *)
(* business (module VSIDS).                                                *)
(***************************************************************************)
EXTENDS Integers

CONSTANT LargestKey   \* bound: no key is larger

ASSUME LargestKeyAssumption == LargestKey \in Nat

NoKey == -1           \* the undefined variable: what unused cells hold

VARIABLES
  maxKey,     \* keys 0 .. maxKey can be stored
  heap,       \* m_heap
  indices,    \* m_indices: where a key is in the heap, or -1
  size,       \* m_size
  activity,   \* m_lessThan: activities by key
  hpc,        \* "idle", or the update in progress: "up" or "down"
  elem,       \* its argument
  cursor,     \* cursorIdx
  result      \* what the last removeMax() returned

arrayVars == <<heap, indices>>
siftVars  == <<hpc, elem, cursor>>
heapVars  == <<maxKey, arrayVars, size, activity, siftVars, result>>

Keys == 0 .. maxKey

Parent(i) == (i - 1) \div 2
Left(i)   == 2 * i + 1
Right(i)  == 2 * i + 2

Less(a, b) == activity[a] < activity[b]

Contains(k) == indices[k] >= 0

(* The constructor, with maximal element k.                                *)
HeapInit(k) ==
  /\ maxKey = k
  /\ heap = [i \in 0 .. k |-> NoKey]
  /\ indices = [i \in 0 .. k |-> -1]
  /\ size = 0
  /\ activity = [i \in 0 .. k |-> 0]
  /\ hpc = "idle"
  /\ elem = NoKey
  /\ cursor = 0
  /\ result = NoKey

(* increaseMaxSizeTo(k), and what it does to the comparator.               *)
IncreaseMaxSizeTo(k) ==
  /\ k >= maxKey
  /\ maxKey' = k
  /\ heap' = [i \in 0 .. k |-> IF i \in Keys THEN heap[i] ELSE NoKey]
  /\ indices' = [i \in 0 .. k |-> IF i \in Keys THEN indices[i] ELSE -1]
  /\ activity' = [i \in 0 .. k |-> IF i \in Keys THEN activity[i] ELSE 0]
  /\ UNCHANGED <<size, siftVars, result>>

(* The key k is written to index i.                                        *)
Put(k, i) ==
  /\ heap' = [heap EXCEPT ![i] = k]
  /\ indices' = [indices EXCEPT ![k] = i]

(* The update of element k in direction d begins at index i.               *)
BeginUpdate(d, k, i) == hpc' = d /\ elem' = k /\ cursor' = i

IncreasingUpdate(k) == BeginUpdate("up", k, indices[k])

(* insert(k) up to its call of increasingUpdate.                           *)
Insert(k) ==
  /\ hpc = "idle"
  /\ IF Contains(k)
     THEN UNCHANGED <<arrayVars, size, siftVars>>
     ELSE /\ Put(k, size)
          /\ size' = size + 1
          /\ BeginUpdate("up", k, size)
  /\ UNCHANGED <<maxKey, activity, result>>

(* Faulty variant: the index of the key removed stays.                     *)
RemoveMaxKeepingIndex ==
  /\ hpc = "idle"
  /\ size > 0
  /\ result' = heap[0]
  /\ size' = size - 1
  /\ IF size > 1
     THEN Put(heap[size - 1], 0) /\ BeginUpdate("down", heap[size - 1], 0)
     ELSE UNCHANGED <<arrayVars, siftVars>>
  /\ UNCHANGED <<maxKey, activity>>

(* removeMax() up to its call of decreasingUpdate.                         *)
RemoveMax ==
  /\ hpc = "idle"
  /\ size > 0
  /\ result' = heap[0]
  /\ size' = size - 1
  /\ IF size > 1
     THEN LET last == heap[size - 1]
          IN /\ heap' = [heap EXCEPT ![0] = last]
             /\ indices' = [indices EXCEPT ![heap[0]] = -1, ![last] = 0]
             /\ BeginUpdate("down", last, 0)
     ELSE /\ indices' = [indices EXCEPT ![heap[0]] = -1]
          /\ UNCHANGED <<heap, siftVars>>
  /\ UNCHANGED <<maxKey, activity>>

----------------------------------------------------------------------------
(* The loops of increasingUpdate and decreasingUpdate.                     *)

(* The key at index i moves to the cursor, and the cursor to i.            *)
Shift(i) ==
  /\ Put(heap[i], cursor)
  /\ cursor' = i
  /\ UNCHANGED <<maxKey, size, activity, hpc, elem, result>>

(* Equal keys change places too.                                           *)
AboveParent == cursor # 0 /\ ~Less(elem, heap[Parent(cursor)])

SiftUp == hpc = "up" /\ AboveParent /\ Shift(Parent(cursor))

(* Faulty variant: the right child is not looked at.                       *)
MaxChildLeft == Left(cursor)

MaxChild ==
  IF Right(cursor) < size /\ Less(heap[Left(cursor)], heap[Right(cursor)])
  THEN Right(cursor)
  ELSE Left(cursor)

BelowChild == Left(cursor) < size /\ Less(elem, heap[MaxChild])

SiftDown == hpc = "down" /\ BelowChild /\ Shift(MaxChild)

(* The element is written to where the cursor has come.                    *)
Place ==
  /\ \/ hpc = "up" /\ ~AboveParent
     \/ hpc = "down" /\ ~BelowChild
  /\ Put(elem, cursor)
  /\ BeginUpdate("idle", NoKey, 0)
  /\ UNCHANGED <<maxKey, size, activity, result>>

HeapStep == SiftUp \/ SiftDown \/ Place

----------------------------------------------------------------------------
(* Array and index map with the element of the update in progress at the   *)
(* cursor, where the code would put it if it stopped there.                *)
HeapNow    == IF hpc = "idle" THEN heap    ELSE [heap EXCEPT ![cursor] = elem]
IndicesNow == IF hpc = "idle" THEN indices ELSE [indices EXCEPT ![elem] = cursor]

Cells == 0 .. size - 1

InHeap(k) == \E i \in Cells : HeapNow[i] = k

HeapTypeOK ==
  /\ maxKey \in 0 .. LargestKey
  /\ heap \in [Keys -> Keys \cup {NoKey}]
  /\ indices \in [Keys -> -1 .. maxKey]
  /\ size \in 0 .. maxKey + 1
  /\ activity \in [Keys -> Nat]
  /\ hpc \in {"idle", "up", "down"}
  /\ elem \in Keys \cup {NoKey}
  /\ cursor \in Keys
  /\ result \in Keys \cup {NoKey}
  /\ hpc # "idle" => elem \in Keys /\ cursor \in Cells

(* The index map inverts the array: a key that has an index is in the cell *)
(* the index names, each cell holds a key that has its index, and so no    *)
(* key is in two cells.  It holds between any two moves of an update, for  *)
(* the array as it would be left (BinaryHeap.h:242-264).                   *)
IndexInv ==
  /\ \A i \in Cells : HeapNow[i] \in Keys /\ IndicesNow[HeapNow[i]] = i
  /\ \A k \in Keys : IndicesNow[k] >= 0 => /\ IndicesNow[k] \in Cells
                                           /\ HeapNow[IndicesNow[k]] = k

(* No key is less than one of its children: of all pairs of cells when no  *)
(* update is in progress; during one of those pairs the element is not     *)
(* part of in the direction it moves, and the keys below the element do    *)
(* not exceed the one above it (BinaryHeap.h:246-256).                     *)
HeapOrder ==
  \A i \in Cells \ {0} :
    LET above == Parent(i)
        H     == HeapNow
    IN /\ (hpc = "up" => i # cursor) /\ (hpc = "down" => above # cursor)
            => activity[H[i]] <= activity[H[above]]
       /\ hpc # "idle" /\ above = cursor /\ cursor # 0
            => activity[H[i]] <= activity[H[Parent(cursor)]]
=============================================================================
