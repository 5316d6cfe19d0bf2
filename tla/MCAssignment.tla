---------------------------- MODULE MCAssignment ----------------------------
(***************************************************************************)
(* Instances of Assignment for TLC: any client that respects the           *)
(* documented preconditions, with a bound on how often it reports,         *)
(* deletes or unregisters clauses.  What has been reported may be deleted  *)
(* at any time until the next cleanup.                                     *)
(***************************************************************************)
EXTENDS Assignment, TLC

CONSTANT MaxEdits      \* bound: calls that report, delete or unregister clauses

VARIABLE edits         \* their number so far

(* A ternary clause, which can be modified, and binary clauses that chain  *)
(* to a conflict with it.                                                  *)
MCChain == { ("c1" :> <<1, 2, 3>>) @@ ("c2" :> <<-1, 2>>) @@ ("c3" :> <<-2, -3>>) }

MCInit == Init /\ edits = 0

MCNext ==
  \/ (Propagate \/ RegisterCall \/ TrailCall \/ EditLiterals) /\ UNCHANGED edits
  \/ edits < MaxEdits /\ (ReportCall \/ ClearClauses) /\ edits' = edits + 1
  \/ (\E c \in announced : DeleteClause(c)) /\ UNCHANGED edits

MCSpec == MCInit /\ [][MCNext]_<<vars, edits>>

(* No guard reads the saved phases, the entries of m_reasonsAndALs for     *)
(* unassigned variables, or the mode when no long clause is redundant.     *)
RelevantMode == IF \E c \in redundant : Len(lits[c]) > 2 THEN mode ELSE "include"

View ==
  << clauseVars, maxVar, trail, levelLimits, assignments, watcherVars, dirty, edits,
     pc, cur, RelevantMode, todo, qhead, qend, conflict,
     [v \in Vars |-> IF assignments[v] = 0 THEN <<NoClause, 0>> ELSE <<reason[v], level[v]>>] >>
=============================================================================
