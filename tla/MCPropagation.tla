--------------------------- MODULE MCPropagation ---------------------------
(***************************************************************************)
(* Instances of Assignment for TLC with the solver as its client.          *)
(***************************************************************************)
EXTENDS Assignment, TLC

MCClauses == {"c1", "c2", "c3"}

(* Two ternary clauses and a binary one; a ternary clause and two binary   *)
(* ones that conflict.                                                     *)
MCFormulas ==
  { ("c1" :> <<1, 2, 3>>) @@ ("c2" :> <<-1, 2, -3>>) @@ ("c3" :> <<-2, 3>>),
    ("c1" :> <<1, 2, 3>>) @@ ("c2" :> <<-1, 2>>) @@ ("c3" :> <<-1, -2>>) }

(* No guard reads the saved phases, or the entries of m_reasonsAndALs for  *)
(* unassigned variables.                                                   *)
View ==
  << clauseVars, maxVar, trail, levelLimits, assignments, watcherVars, dirty, callVars,
     [v \in Vars |-> IF assignments[v] = 0 THEN <<NoClause, 0>> ELSE <<reason[v], level[v]>>] >>
=============================================================================
