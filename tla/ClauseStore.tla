----------------------------- MODULE ClauseStore -----------------------------
(***************************************************************************)
(* What the clause database promises (IterableClauseDB.h:253-304): the     *)
(* clauses in the order of their addition, each until a compress() that    *)
(* finds it scheduled for deletion, and only until then.                   *)
(***************************************************************************)
EXTENDS Naturals, Sequences

VARIABLE stored   \* the clauses: records of identity, size and flag

(* A clause is added; it is newer than those before it.                    *)
Added(before, after) ==
  LET c == after[Len(after)]
  IN /\ after = Append(before, c)
     /\ \A i \in DOMAIN before : before[i].id < c.id

(* Clients shorten clauses and schedule them for deletion.                 *)
Changed(before, after) ==
  /\ DOMAIN after = DOMAIN before
  /\ \A i \in DOMAIN after : /\ after[i].id = before[i].id
                             /\ after[i].len <= before[i].len
                             /\ before[i].deleted => after[i].deleted

(* The clauses that are not scheduled for deletion, in their order.        *)
Kept(clauses) ==
  LET upTo[i \in 0 .. Len(clauses)] ==
        IF i = 0 THEN <<>>
        ELSE upTo[i - 1] \o IF clauses[i].deleted THEN <<>> ELSE <<clauses[i]>>
  IN upTo[Len(clauses)]

Compressed(before, after) == after = Kept(before)

StoreStep(before, after) ==
  \/ Len(after) > Len(before) /\ Added(before, after)
  \/ Changed(before, after)
  \/ Compressed(before, after)

StoreSpec == stored = <<>> /\ [][StoreStep(stored, stored')]_stored
=============================================================================
