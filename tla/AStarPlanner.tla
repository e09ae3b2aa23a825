---------------------------- MODULE AStarPlanner ----------------------------
(***************************************************************************)
(* a_star_planner.cpp: one call of Plan.  The planning thread of           *)
(* GlobalPlannerNode holds the mutex of the costmap around it, so the map  *)
(* stays as it is but for the start, which Plan itself sets free.          *)
(*                                                                         *)
(* Poses are the cells they are in, cells are indices, row by row.  A step *)
(* is a turn of a loop.  The heap is the set of what is in it: nothing is  *)
(* pushed twice and no f_score_ changes while its cell is in it; among     *)
(* equals any may be the top.                                              *)
(***************************************************************************)
EXTENDS Integers, Sequences

CONSTANTS gridmap_width_, gridmap_height_,
          inaccessible_cost_,
          goal_search_tolerance_,      \* in cells
          IntMax,                      \* std::numeric_limits<int>::max()
          Costmaps                     \* the maps to plan on

Cell == 0 .. gridmap_width_ * gridmap_height_ - 1

\* A turn adds at most 14 for the move and the cost of the cell, a byte.
ASSUME GridAssumption ==
  /\ gridmap_width_ \in Nat /\ gridmap_width_ > 2
  /\ gridmap_height_ \in Nat \ {0}
  /\ inaccessible_cost_ \in 1 .. 255
  /\ goal_search_tolerance_ \in Nat
  /\ IntMax \in Nat /\ 269 * (gridmap_width_ * gridmap_height_) < IntMax
  /\ Costmaps \subseteq [Cell -> 0 .. 255]

VARIABLES cost,                        \* the map
          start, goal,                 \* what Plan is asked for
          goal_index,                  \* the cell that is searched for
          openlist, g_score_, f_score_, parent_, state_, current_index,
          path, pc

call == <<start, goal, goal_index>>
scores == <<g_score_, f_score_, parent_, state_>>
vars == <<cost, call, openlist, scores, current_index, path, pc>>

OffMap == -1

FREE_SPACE == 0

Ends == {"GP_POSE_TRANSFORM_ERROR", "GP_GOAL_INVALID_ERROR", "GP_PATH_SEARCH_ERROR",
         "here", "found"}

TypeOK == /\ cost \in [Cell -> 0 .. 255]
          /\ start \in Cell \cup {OffMap}
          /\ goal \in Cell \cup {OffMap}
          /\ goal_index \in Nat
          /\ openlist \subseteq Cell
          /\ g_score_ \in [Cell -> 0 .. IntMax]
          /\ f_score_ \in [Cell -> Nat]
          /\ parent_ \in [Cell -> Cell \cup {IntMax}]
          /\ state_ \in [Cell -> {"NOT_HANDLED", "OPEN", "CLOSED"}]
          /\ current_index \in Cell
          /\ path \in Seq(Cell)
          /\ pc \in {"plan", "search", "walk"} \cup Ends

-----------------------------------------------------------------------------
Abs(z) == IF z < 0 THEN -z ELSE z

X(i) == i % gridmap_width_
Y(i) == i \div gridmap_width_
GetIndex(x, y) == y * gridmap_width_ + x

Accessible(i) == cost[i] < inaccessible_cost_

\* From z - tolerance to z + tolerance, unsigned: below zero it wraps, and the loop never runs.
Around(z) == IF z < goal_search_tolerance_ THEN {}
             ELSE z - goal_search_tolerance_ .. z + goal_search_tolerance_

\* The loop looks at the columns and rows around the goal, without asking where the map ends:
\* a column beyond it is one of the next row.
Tried == Around(X(goal)) \X Around(Y(goal))

Dist(p) == Abs(X(goal) - p[1]) + Abs(Y(goal) - p[2])

\* Of the nearest the loop takes the first.
Before(p, q) == \/ Dist(p) < Dist(q)
                \/ /\ Dist(p) = Dist(q)
                   /\ (p[2] < q[2] \/ (p[2] = q[2] /\ p[1] < q[1]))

\* Mutant: no test of the column; left of the first is the last of the row above.
NeighborsRoundTheEdge(i) ==
  {i - gridmap_width_ - 1, i - 1, i + gridmap_width_ - 1, i - gridmap_width_,
   i + gridmap_width_, i - gridmap_width_ + 1, i + 1, i + gridmap_width_ + 1} \cap Cell

\* Mutant: no diagonal steps.
FourNeighbors(i) == Cell \cap ({n \in {i - 1} : (n + 1) % gridmap_width_ # 0}
                               \cup {n \in {i + 1} : n % gridmap_width_ # 0}
                               \cup {i - gridmap_width_, i + gridmap_width_})

LeftOf(i) == {n \in {i - gridmap_width_ - 1, i - 1, i + gridmap_width_ - 1} :
                (n + 1) % gridmap_width_ # 0}
RightOf(i) == {n \in {i - gridmap_width_ + 1, i + 1, i + gridmap_width_ + 1} :
                n % gridmap_width_ # 0}

GetNineNeighbors(i) ==
  (LeftOf(i) \cup {i - gridmap_width_, i + gridmap_width_} \cup RightOf(i)) \cap Cell

GetMoveCost(i, n) == IF Abs(n - i) \in {1, gridmap_width_} THEN 10 ELSE 14

\* heuristic_factor_ is 1.
GetManhattanDistance(i, j) == 10 * (Abs(Y(i) - Y(j)) + Abs(X(i) - X(j)))

-----------------------------------------------------------------------------
Init == /\ cost \in Costmaps
        /\ start \in Cell \cup {OffMap}
        /\ goal \in Cell \cup {OffMap}
        /\ goal_index = 0
        /\ openlist = {}
        /\ g_score_ = [i \in Cell |-> IntMax]
        /\ f_score_ = [i \in Cell |-> IntMax]
        /\ parent_ = [i \in Cell |-> IntMax]
        /\ state_ = [i \in Cell |-> "NOT_HANDLED"]
        /\ current_index = 0
        /\ path = <<>>
        /\ pc = "plan"

search == <<openlist, scores, current_index>>

NoPose == /\ pc = "plan"
          /\ OffMap \in {start, goal}
          /\ pc' = "GP_POSE_TRANSFORM_ERROR"
          /\ UNCHANGED <<cost, call, search, path>>

\* The start is set free, and the search for the cell at p begins unless it is the start.
Toward(p) ==
  /\ goal_index' = GetIndex(p[1], p[2])
  /\ cost' = [cost EXCEPT ![start] = FREE_SPACE]
  /\ IF goal_index' = start
     THEN pc' = "here" /\ path' = <<start, goal>> /\ UNCHANGED search
     ELSE /\ pc' = "search"
          /\ openlist' = {start}
          /\ g_score_' = [g_score_ EXCEPT ![start] = 0]
          /\ UNCHANGED <<f_score_, parent_, state_, current_index, path>>
  /\ UNCHANGED <<start, goal>>

OnMap == pc = "plan" /\ OffMap \notin {start, goal}

PlanToGoal == OnMap /\ Accessible(goal) /\ Toward(<<X(goal), Y(goal)>>)

\* What GetCost reads behind the last cell is whatever lies there.
PlanNearGoal ==
  /\ OnMap
  /\ ~Accessible(goal)
  /\ \E beyond \in SUBSET {p \in Tried : GetIndex(p[1], p[2]) \notin Cell} :
       LET valid == beyond \cup {p \in Tried : /\ GetIndex(p[1], p[2]) \in Cell
                                               /\ Accessible(GetIndex(p[1], p[2]))}
       IN IF valid = {}
          THEN pc' = "GP_GOAL_INVALID_ERROR" /\ path' = <<>> /\ UNCHANGED <<cost, call, search>>
          ELSE \E p \in valid : (\A q \in valid \ {p} : Before(p, q)) /\ Toward(p)

\* Mutant: top without pop.
Peek(i) == openlist

Pop(i) == openlist \ {i}

\* The neighbors that are cheaper to reach through i; those never seen before are opened.
Expand(i) ==
  LET reached(n) == g_score_[i] + GetMoveCost(i, n) + cost[n]
      better == {n \in GetNineNeighbors(i) : /\ Accessible(n)
                                             /\ state_[n] # "CLOSED"
                                             /\ g_score_[n] > reached(n)}
      new == {n \in better : state_[n] = "NOT_HANDLED"}
  IN /\ g_score_' = [n \in Cell |-> IF n \in better THEN reached(n) ELSE g_score_[n]]
     /\ parent_' = [n \in Cell |-> IF n \in better THEN i ELSE parent_[n]]
     /\ f_score_' = [n \in Cell |-> IF n \in new
                                    THEN reached(n) + GetManhattanDistance(n, goal_index)
                                    ELSE f_score_[n]]
     /\ state_' = [n \in Cell |-> IF n = i THEN "CLOSED"
                                  ELSE IF n \in new THEN "OPEN" ELSE state_[n]]
     /\ openlist' = Pop(i) \cup new

\* A turn of the loop.  At the goal it ends, and the path has its last pose.
Turn ==
  /\ pc = "search"
  /\ \E i \in openlist :
       /\ \A n \in openlist : f_score_[i] <= f_score_[n]
       /\ current_index' = i
       /\ IF i = goal_index
          THEN /\ openlist' = Pop(i)
               /\ state_' = [state_ EXCEPT ![i] = "CLOSED"]
               /\ path' = <<i>>
               /\ pc' = "walk"
               /\ UNCHANGED <<g_score_, f_score_, parent_>>
          ELSE /\ Expand(i)
               /\ UNCHANGED <<path, pc>>
  /\ UNCHANGED <<cost, call>>

Fail == /\ pc = "search"
        /\ openlist = {}
        /\ pc' = "GP_PATH_SEARCH_ERROR"
        /\ UNCHANGED <<cost, call, search, path>>

\* From parent to parent; the poses are appended and reversed in the end.
WalkBack == /\ pc = "walk"
            /\ IF Head(path) = start
               THEN pc' = "found" /\ UNCHANGED path
               ELSE path' = <<parent_[Head(path)]>> \o path /\ UNCHANGED pc
            /\ UNCHANGED <<cost, call, search>>

Next == NoPose \/ PlanToGoal \/ PlanNearGoal \/ Turn \/ Fail \/ WalkBack

Spec == Init /\ [][Next]_vars

\* The planning thread runs.
FairSpec == Spec /\ WF_vars(Next)

-----------------------------------------------------------------------------
\* Cells that touch, by row and column.
Adjacent(i, n) == i # n /\ Abs(X(i) - X(n)) <= 1 /\ Abs(Y(i) - Y(n)) <= 1

\* The searched path leads from the start, from cell to touching accessible cell and never
\* back to one, to the goal; or, when the goal was not accessible and the map has all that
\* was tried, to a cell within the tolerance.  (Lines 198 to 212 give a cell a new parent as
\* long as it is open; neither the edge of the map, lines 281 to 322, nor a late parent may
\* break the chain that lines 235 to 242 follow.)
PathConnects ==
  pc = "found" =>
    /\ path[1] = start /\ path[Len(path)] = goal_index
    /\ \A k \in 1 .. Len(path) : Accessible(path[k])
    /\ \A k \in 1 .. Len(path) - 1 : Adjacent(path[k], path[k + 1])
    /\ \A j, k \in 1 .. Len(path) : path[j] = path[k] => j = k
    /\ goal # start /\ Accessible(goal) => goal_index = goal
    /\ (\A p \in Tried : p[1] < gridmap_width_ /\ p[2] < gridmap_height_)
         => \/ goal_index = goal
            \/ /\ Abs(X(goal_index) - X(goal)) <= goal_search_tolerance_
               /\ Abs(Y(goal_index) - Y(goal)) <= goal_search_tolerance_

\* The search fails only when there is no way: some region around the start has no accessible
\* cell beside it and not the goal in it.  (That it holds for the eight neighbors, whatever
\* the order in which cells are closed, and with f_score_ left as it was when a cell is
\* reached for less, line 205.)
FailsRightly ==
  pc = "GP_PATH_SEARCH_ERROR" =>
    \E region \in SUBSET Cell :
      /\ start \in region /\ goal_index \notin region
      /\ \A i \in region, n \in Cell \ region : Adjacent(i, n) => ~Accessible(n)

\* Plan returns: no cell is expanded twice and no chain of parents closes to a ring.
PlanReturns == <>(pc \in Ends)
=============================================================================
