--------------------------- MODULE MCAStarPlanner ---------------------------
(***************************************************************************)
(* Maps of three by three for AStarPlanner: every choice of obstacles but  *)
(* for one corner, and a middle that may cost as much as a detour.         *)
(***************************************************************************)
EXTENDS AStarPlanner

MCCostmaps == {map \in [0 .. 8 -> {0, 30, 254}] : map[2] = 0 /\ \A i \in 0 .. 8 \ {4} : map[i] # 30}
=============================================================================
