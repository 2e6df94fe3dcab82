----------------------------- MODULE MCPlanner ------------------------------
(***************************************************************************)
(* Small catalogs for the planner: four tests and all ways for them to     *)
(* depend on each other, and on a name that is no test, in up to three     *)
(* places.                                                                 *)
(***************************************************************************)
EXTENDS Planner

FourTests == 1..4
SmallCatalogs ==
  {[t \in Tests |-> {e[2] : e \in {f \in E : f[1] = t}}] :
     E \in UNION {kSubset(n, (Tests \X Tests) \cup {<<2, Unknown>>}) : n \in 0..4}}
Ranks == <<3, 1, 4, 2>>
Times == <<2, 3, 2, 4>>
Hashes == <<0, 1, 1, 0>>
SomeStand == {{}, {1, 3}}
=============================================================================
