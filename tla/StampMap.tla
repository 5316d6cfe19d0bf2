------------------------------ MODULE StampMap ------------------------------
(***************************************************************************)
(* Marks that are cleared in one step (libjamsat/utils/StampMap.h).  An    *)
(* index is stamped when its cell holds the current stamp; leaving a       *)
(* context only moves on to the next stamp.  Stamps have a fixed width:    *)
(* when the last one has been used, all cells are zeroed and the stamps    *)
(* begin anew.                                                             *)
(***************************************************************************)
EXTENDS Integers

CONSTANTS
  MaxStamp,     \* numeric_limits<T>::max()
  MaxIndex      \* bound: the largest index the map is ever resized to

ASSUME StampAssumption == MaxStamp \in Nat \ {0} /\ MaxIndex \in Nat

VARIABLES
  stamps,         \* m_stamps
  currentStamp,   \* m_currentStamp
  contextActive,  \* m_contextActive
  marked          \* auxiliary: what has been stamped in the context and not unstamped

stampVars == <<stamps, currentStamp, contextActive, marked>>

IsStamped(i) == stamps[i] = currentStamp

InitStamps(maxIdx) ==
  /\ stamps = [i \in 0 .. maxIdx |-> 0]
  /\ currentStamp = 1
  /\ contextActive = FALSE
  /\ marked = {}

(* increaseSizeTo(): new cells hold the smallest value of their type.      *)
IncreaseSizeTo(maxIdx) ==
  /\ DOMAIN stamps \subseteq 0 .. maxIdx
  /\ stamps' = [i \in 0 .. maxIdx |-> IF i \in DOMAIN stamps THEN stamps[i] ELSE 0]
  /\ UNCHANGED <<currentStamp, contextActive, marked>>

(* createContext(), and setStamped() with true for the indices in I.       *)
CreateContext(I) ==
  /\ ~contextActive
  /\ contextActive' = TRUE
  /\ stamps' = [i \in DOMAIN stamps |-> IF i \in I THEN currentStamp ELSE stamps[i]]
  /\ marked' = I
  /\ UNCHANGED currentStamp

(* setStamped() within the context.                                        *)
SetStamped(I, on) ==
  /\ contextActive
  /\ stamps' = [i \in DOMAIN stamps |-> IF i \in I THEN IF on THEN currentStamp ELSE 0 ELSE stamps[i]]
  /\ marked' = IF on THEN marked \cup I ELSE marked \ I
  /\ UNCHANGED <<currentStamp, contextActive>>

(* clear(), called when the context ends.  The faulty variant begins anew  *)
(* without zeroing the cells.                                              *)
NextStamp        == IF currentStamp = MaxStamp THEN 1 ELSE currentStamp + 1
KeptCells(cells) == cells
ClearedCells(cells) ==
  IF currentStamp = MaxStamp THEN [i \in DOMAIN cells |-> 0] ELSE cells

Clear ==
  /\ contextActive
  /\ stamps' = ClearedCells(stamps)
  /\ currentStamp' = NextStamp
  /\ contextActive' = FALSE
  /\ marked' = {}

(* A context that stamps the indices in I and ends.                        *)
StampOnce(I) ==
  /\ ~contextActive
  /\ stamps' = ClearedCells([i \in DOMAIN stamps |-> IF i \in I THEN currentStamp ELSE stamps[i]])
  /\ currentStamp' = NextStamp
  /\ UNCHANGED <<contextActive, marked>>

----------------------------------------------------------------------------
(* Any client that resizes the map between contexts and stamps indices it  *)
(* has room for.                                                           *)
StampNext ==
  \/ \E n \in 0 .. MaxIndex : ~contextActive /\ IncreaseSizeTo(n)
  \/ \E I \in SUBSET DOMAIN stamps : CreateContext(I)
  \/ \E I \in SUBSET DOMAIN stamps, on \in BOOLEAN : SetStamped(I, on)
  \/ \E I \in SUBSET DOMAIN stamps : StampOnce(I)
  \/ Clear

StampInit == \E n \in 0 .. MaxIndex : InitStamps(n)
StampSpec == StampInit /\ [][StampNext]_stampVars

----------------------------------------------------------------------------
(* Exactly what has been stamped in the current context counts as stamped, *)
(* however many contexts ago a cell was written and however often the      *)
(* stamps have begun anew (isStamped, StampMapBase::clear).                *)
StampsFresh == {i \in DOMAIN stamps : IsStamped(i)} = marked
=============================================================================
