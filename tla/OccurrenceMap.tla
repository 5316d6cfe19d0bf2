--------------------------- MODULE OccurrenceMap ---------------------------
(***************************************************************************)
(* The map from literals to the clauses they occur in                      *)
(* (libjamsat/utils/OccurrenceMap.h), and the optimizers that use it.      *)
(*                                                                         *)
(* Deletions and removals are lazy.  remove() and setModified() only mark  *)
(* the lists of the literals concerned, and setModified() notes which      *)
(* lists hold the clause wrongly; a list is purged when it is looked up.   *)
(* The flags SCHEDULED_FOR_DELETION and MODIFIED belong to the clause: the *)
(* optimizer sets them before it calls the map, the map clears MODIFIED    *)
(* when no list holds the clause wrongly any more.                         *)
(***************************************************************************)
EXTENDS CNF, SequencesExt

CONSTANT NumClauses     \* the number of clauses of the instance

ASSUME NumClausesAssumption == NumClauses \in Nat

VARIABLES
  content,    \* the literals of the clauses
  deleted,    \* clauses with the flag SCHEDULED_FOR_DELETION
  modified,   \* clauses with the flag MODIFIED
  inserted,   \* clauses inserted since the map was empty
  occList,    \* m_occurrences[l].m_occList
  stale,      \* literals whose m_requiresUpdate is set
  pending     \* m_delModUpdates: literals removed from a clause whose lists still hold it

mapVars == <<inserted, occList, stale, pending>>
occVars == <<content, deleted, modified, mapVars>>

Clauses == 1 .. NumClauses

EmptyMap ==
  /\ inserted = {}
  /\ occList = [l \in Lits |-> <<>>]
  /\ stale = {}
  /\ pending = [c \in Clauses |-> {}]

----------------------------------------------------------------------------
(* boost::remove_erase_if() goes through the list once and keeps, in their *)
(* order, the elements of T.                                               *)
Filtered(s, T) ==
  LET upTo[i \in 0 .. Len(s)] ==
        IF i = 0 THEN <<>>
        ELSE IF s[i] \in T THEN Append(upTo[i - 1], s[i]) ELSE upTo[i - 1]
  IN  upTo[Len(s)]

(* update(): the lists of L lose the clauses that are deleted, and those   *)
(* that lost the literal.  A deleted clause is dropped without a look at   *)
(* what is pending for it.                                                 *)
WronglyIn(l)         == {c \in modified : l \in pending[c]}
Purged(l)            == Filtered(occList[l], Clauses \ (deleted \cup WronglyIn(l)))
Settled(c, L)        == {l \in L : c \notin deleted /\ c \in WronglyIn(l) /\ c \in ToSet(occList[l])}

UpdateAll(L) ==
  /\ occList' = [l \in Lits |-> IF l \in L THEN Purged(l) ELSE occList[l]]
  /\ pending' = [c \in Clauses |-> pending[c] \ Settled(c, L)]
  /\ modified' = {c \in modified : Settled(c, L) = {} \/ pending[c] \ Settled(c, L) # {}}
  /\ stale' = stale \ L

(* operator[]: what it returns is the list of l afterwards.                *)
Lookup(l) ==
  /\ UpdateAll({l} \cap stale)
  /\ UNCHANGED <<content, deleted, inserted>>

(* insert(): a deleted clause is left out.                                 *)
NewIn(l, C) == Filtered([c \in Clauses |-> c], {c \in C \ deleted : l \in content[c]})

InsertAll(C) ==
  /\ inserted' = inserted \cup (C \ deleted)
  /\ occList' = [l \in Lits |-> occList[l] \o NewIn(l, C)]
  /\ UNCHANGED <<content, deleted, modified, stale, pending>>

(* remove(), for a clause that was marked as deleted.  The faulty variant  *)
(* purges at once.                                                         *)
RemoveClauseEagerly(c) ==
  /\ deleted' = deleted \cup {c}
  /\ occList' = [l \in Lits |-> Filtered(occList[l], Clauses \ {c})]
  /\ UNCHANGED <<content, modified, inserted, stale, pending>>

RemoveClause(c) ==
  /\ deleted' = deleted \cup {c}
  /\ stale' = stale \cup content[c]
  /\ UNCHANGED <<content, modified, inserted, occList, pending>>

(* setModified(), for a clause that was given the flag MODIFIED and has    *)
(* gained the literals in add and lost those in drop.  A literal that is   *)
(* added again while a list still holds the clause is only taken off the   *)
(* pending ones.                                                           *)
SetModifiedAppending(c, add, drop) ==                               \* faulty variant
  /\ content' = [content EXCEPT ![c] = (@ \ drop) \cup add]
  /\ occList' = [l \in Lits |-> IF l \in add THEN Append(occList[l], c) ELSE occList[l]]
  /\ pending' = [pending EXCEPT ![c] = (@ \ add) \cup drop]
  /\ modified' = IF pending'[c] = {} THEN modified \ {c} ELSE modified \cup {c}
  /\ stale' = stale \cup drop
  /\ UNCHANGED <<deleted, inserted>>

SetModified(c, add, drop) ==
  /\ content' = [content EXCEPT ![c] = (@ \ drop) \cup add]
  /\ occList' = [l \in Lits |->
                   IF l \in add \ pending[c] THEN Append(occList[l], c) ELSE occList[l]]
  /\ pending' = [pending EXCEPT ![c] = (@ \ add) \cup drop]
  /\ modified' = IF pending'[c] = {} THEN modified \ {c} ELSE modified \cup {c}
  /\ stale' = stale \cup drop
  /\ UNCHANGED <<deleted, inserted>>

(* resolveModifications().  Nothing may be pending for a deleted clause:   *)
(* it would stay so, and the assertion at the end fail.                    *)
ResolveModifications ==
  /\ \A c \in deleted : pending[c] = {}
  /\ LET L == stale \cap UNION {pending[c] : c \in Clauses}
     IN  /\ occList' = [l \in Lits |-> IF l \in L THEN Purged(l) ELSE occList[l]]
         /\ pending' = [c \in Clauses |-> pending[c] \ Settled(c, L)]
         /\ stale' = stale \ L
  /\ modified' = {c \in modified : pending[c] = {}}
  /\ UNCHANGED <<content, deleted, inserted>>

(* clear() empties the lists alone.  What is pending must have been        *)
(* resolved: a literal that is added again later would be missed.          *)
Clear ==
  /\ \A c \in Clauses : pending[c] = {}
  /\ inserted' = {}
  /\ occList' = [l \in Lits |-> <<>>]
  /\ UNCHANGED <<content, deleted, modified, stale, pending>>

(* The destructor.                                                         *)
Destroy ==
  /\ modified' = {c \in modified : pending[c] = {}}
  /\ inserted' = {}
  /\ occList' = [l \in Lits |-> <<>>]
  /\ stale' = {}
  /\ pending' = [c \in Clauses |-> {}]
  /\ UNCHANGED <<content, deleted>>

----------------------------------------------------------------------------
(* An optimizer as free as the documentation of the map allows.  Bounds:   *)
(* the clauses C it works on and the literals L it adds and drops.         *)
AnyOptimizer(C, L) ==
  \/ \E c \in C \ inserted : c \notin deleted /\ InsertAll({c})
  \/ \E c \in (C \cap inserted) \ deleted : RemoveClause(c)
  \/ \E c \in (C \cap inserted) \ deleted : \E drop \in SUBSET (L \cap content[c]) :
       \E add \in SUBSET (L \ content[c]) : SetModified(c, add, drop)
  \/ \E l \in Lits : Lookup(l)
  \/ ResolveModifications
  \/ Clear
  \/ Destroy

----------------------------------------------------------------------------
(* Looking a literal up returns every clause in the map that contains it,  *)
(* no other and none twice, whatever has been added, removed and added     *)
(* again since its list was last purged (operator[], setModified, update). *)
LookupExact ==
  \A l \in Lits :
    LET found == IF l \in stale THEN Purged(l) ELSE occList[l]
    IN  /\ IsInjective(found)
        /\ ToSet(found) = {c \in inserted \ deleted : l \in content[c]}
=============================================================================
