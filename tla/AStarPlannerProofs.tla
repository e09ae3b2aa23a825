------------------------- MODULE AStarPlannerProofs -------------------------
(***************************************************************************)
(* Proofs about AStarPlanner, for maps of any size and any costs.          *)
(***************************************************************************)
EXTENDS AStarPlanner, FiniteSetTheorems, TLAPS

\* The row and the column of an index are the only ones that give it.
LEMMA RowAndColumn ==
  ASSUME NEW i \in Int
  PROVE  /\ X(i) \in 0 .. gridmap_width_ - 1 /\ Y(i) \in Int
         /\ i = Y(i) * gridmap_width_ + X(i)
<1> DEFINE w == gridmap_width_
<1>1. w \in Int /\ w > 0
  BY GridAssumption
<1> HIDE DEF w
<1>2. \A a, b \in Int : b > 0 => a % b \in 0 .. b - 1 /\ a \div b \in Int /\ a = b * (a \div b) + (a % b)
  OBVIOUS
<1>3. i % w \in 0 .. w - 1 /\ i \div w \in Int /\ i = w * (i \div w) + (i % w)
  BY <1>1, <1>2
<1> QED  BY <1>1, <1>3 DEF X, Y, w

LEMMA Unique ==
  ASSUME NEW w \in Nat, NEW x \in 0 .. w - 1, NEW u \in 0 .. w - 1, NEW y \in Int, NEW v \in Int,
         y * w + x = v * w + u
  PROVE  x = u /\ y = v
<1>1. (y - v) * w = u - x
  OBVIOUS
<1>2. y - v < 1
  <2> SUFFICES ASSUME y - v >= 1 PROVE FALSE
    OBVIOUS
  <2>1. (y - v) * w >= w
    OBVIOUS
  <2> QED  BY <1>1, <2>1
<1>3. y - v > -1
  <2> SUFFICES ASSUME v - y >= 1 PROVE FALSE
    OBVIOUS
  <2>1. (v - y) * w >= w
    OBVIOUS
  <2>2. (v - y) * w = x - u
    OBVIOUS
  <2> QED  BY <2>1, <2>2
<1> QED  BY <1>1, <1>2, <1>3

LEMMA OfIndex ==
  ASSUME NEW x \in 0 .. gridmap_width_ - 1, NEW y \in Int
  PROVE  X(y * gridmap_width_ + x) = x /\ Y(y * gridmap_width_ + x) = y
<1> DEFINE i == y * gridmap_width_ + x
<1>1. i \in Int
  BY GridAssumption
<1>2. X(i) \in 0 .. gridmap_width_ - 1 /\ Y(i) \in Int /\ i = Y(i) * gridmap_width_ + X(i)
  BY <1>1, RowAndColumn
<1>3. gridmap_width_ \in Nat
  BY GridAssumption
<1> QED  BY <1>2, <1>3, Unique

\* The tests of the column keep to the cells that touch (lines 281 to 322).
LEMMA NeighborsTouch ==
  ASSUME NEW i \in Cell, NEW n \in Cell
  PROVE  n \in GetNineNeighbors(i) <=> Adjacent(i, n)
<1> DEFINE w == gridmap_width_
<1>1. w \in Nat /\ w > 2 /\ i \in Int /\ n \in Int
  BY GridAssumption DEF Cell
<1>2. PICK x \in 0 .. w - 1, y \in Int : i = y * w + x /\ X(i) = x /\ Y(i) = y
  BY <1>1, RowAndColumn
<1>3. PICK u \in 0 .. w - 1, v \in Int : n = v * w + u /\ X(n) = u /\ Y(n) = v
  BY <1>1, RowAndColumn
<1>8. y - 1 \in Int /\ y + 1 \in Int
  OBVIOUS
<1>9. /\ X((y - 1) * w + x) = x /\ Y((y - 1) * w + x) = y - 1
      /\ X(y * w + x) = x /\ Y(y * w + x) = y
      /\ X((y + 1) * w + x) = x /\ Y((y + 1) * w + x) = y + 1
  BY <1>8, OfIndex
<1>4. ASSUME n \in {i - w - 1, i - 1, i + w - 1}, (n + 1) % w # 0 PROVE Adjacent(i, n)
  <2>6. X(n + 1) # 0
    BY <1>4 DEF X
  <2>7. n + 1 \in Int
    BY <1>1
  <2>1. X(n + 1) # 0 /\ X(n + 1) \in 0 .. w - 1 /\ n + 1 = Y(n + 1) * w + X(n + 1) /\ Y(n + 1) \in Int
    BY <2>6, <2>7, RowAndColumn
  <2>2. X(n + 1) - 1 \in 0 .. w - 1 /\ n = Y(n + 1) * w + (X(n + 1) - 1)
    BY <2>1, <1>1
  <2>3. X(n) = X(n + 1) - 1 /\ Y(n) = Y(n + 1)
    BY <2>1, <2>2, OfIndex
  <2>4. n + 1 \in {(y - 1) * w + x, y * w + x, (y + 1) * w + x}
    BY <1>1, <1>2, <1>4
  <2>5. X(n + 1) = x /\ Y(n + 1) \in {y - 1, y, y + 1}
    BY <2>4, <1>9
  <2> QED  BY <2>3, <2>5, <1>2, <1>1 DEF Adjacent, Abs
<1>5. ASSUME n \in {i - w + 1, i + 1, i + w + 1}, n % w # 0 PROVE Adjacent(i, n)
  <2>1. u # 0
    BY <1>5, <1>3 DEF X
  <2>2. u - 1 \in 0 .. w - 1 /\ n - 1 = v * w + (u - 1)
    BY <2>1, <1>1, <1>3
  <2>3. n - 1 \in {(y - 1) * w + x, y * w + x, (y + 1) * w + x}
    BY <1>1, <1>2, <1>5
  <2>4. X(n - 1) = x /\ Y(n - 1) \in {y - 1, y, y + 1}
    BY <2>3, <1>9
  <2>5. X(n - 1) = u - 1 /\ Y(n - 1) = v
    BY <2>2, OfIndex
  <2> QED  BY <2>4, <2>5, <1>2, <1>3, <1>1 DEF Adjacent, Abs
<1>6. ASSUME n \in {i - w, i + w} PROVE Adjacent(i, n)
  <2>1. n \in {(y - 1) * w + x, (y + 1) * w + x}
    BY <1>1, <1>2, <1>6
  <2>2. X(n) = x /\ Y(n) \in {y - 1, y + 1}
    BY <2>1, <1>9
  <2> QED  BY <2>2, <1>2, <1>1, <1>6 DEF Adjacent, Abs
<1>7. ASSUME Adjacent(i, n) PROVE n \in GetNineNeighbors(i)
  <2>1. u \in {x - 1, x, x + 1} /\ v \in {y - 1, y, y + 1} /\ i # n
    BY <1>7, <1>2, <1>3, <1>1 DEF Adjacent, Abs
  <2>2. v * w \in {y * w - w, y * w, y * w + w}
    BY <2>1, <1>1
  <2>3. CASE u = x - 1
    <3>1. n \in {i - w - 1, i - 1, i + w - 1}
      BY <2>2, <2>3, <1>1, <1>2, <1>3
    <3>2. n + 1 = v * w + x
      BY <2>3, <1>1, <1>3
    <3>3. X(n + 1) = x
      BY <3>2, OfIndex
    <3>4. (n + 1) % w # 0
      BY <3>3, <2>3, <1>3, <1>1 DEF X
    <3> QED  BY <3>1, <3>4 DEF GetNineNeighbors, LeftOf
  <2>4. CASE u = x + 1
    <3>1. n \in {i - w + 1, i + 1, i + w + 1}
      BY <2>2, <2>4, <1>1, <1>2, <1>3
    <3>2. n % w # 0
      BY <2>4, <1>3, <1>2, <1>1 DEF X
    <3> QED  BY <3>1, <3>2 DEF GetNineNeighbors, RightOf
  <2>5. CASE u = x
    <3>1. n \in {i - w, i + w}
      BY <2>1, <2>2, <2>5, <1>1, <1>2, <1>3
    <3> QED  BY <3>1 DEF GetNineNeighbors
  <2> QED  BY <2>1, <2>3, <2>4, <2>5
<1> QED  BY <1>4, <1>5, <1>6, <1>7 DEF GetNineNeighbors, LeftOf, RightOf

-----------------------------------------------------------------------------
Asked == pc \in {"search", "walk", "found", "GP_PATH_SEARCH_ERROR"}

Reached(i) == i = start \/ state_[i] # "NOT_HANDLED"

Closed == {i \in Cell : state_[i] = "CLOSED"}

Blank == pc = "plan" => \A i \in Cell : g_score_[i] = IntMax /\ state_[i] = "NOT_HANDLED"

\* What was asked for, and what is searched for.
Question == Asked =>
  /\ start \in Cell /\ goal \in Cell /\ goal_index # start /\ cost[start] = 0
  /\ goal # start /\ Accessible(goal) => goal_index = goal
  /\ (\A p \in Tried : p[1] < gridmap_width_ /\ p[2] < gridmap_height_)
       => \/ goal_index = goal
          \/ /\ Abs(X(goal_index) - X(goal)) <= goal_search_tolerance_
             /\ Abs(Y(goal_index) - Y(goal)) <= goal_search_tolerance_

\* The open list has what is open, and before the first turn the start.
Queue == Asked =>
  /\ \A i \in Cell : i \in openlist <=> \/ state_[i] = "OPEN"
                                        \/ i = start /\ state_[i] = "NOT_HANDLED"
  /\ state_[start] = "CLOSED" \/ \A i \in Cell : state_[i] = "NOT_HANDLED"

\* No score passes what the closed cells can have added, so none comes near IntMax.
Scored == Asked =>
  /\ g_score_[start] = 0
  /\ \A i \in Cell : IF Reached(i) THEN g_score_[i] <= 269 * Cardinality(Closed)
                                   ELSE g_score_[i] = IntMax

\* Parents are closed, touch their cells and cost less.
Parented == Asked =>
  \A i \in Cell : state_[i] # "NOT_HANDLED" /\ i # start =>
    /\ parent_[i] \in Cell /\ state_[parent_[i]] = "CLOSED"
    /\ Adjacent(parent_[i], i) /\ Accessible(i)
    /\ g_score_[parent_[i]] < g_score_[i]

\* Around a closed cell everything accessible has been reached; the goal was not closed.
Explored ==
  /\ Asked => \A i, n \in Cell :
       state_[i] = "CLOSED" /\ i # goal_index /\ Adjacent(i, n) /\ Accessible(n) => Reached(n)
  /\ pc \in {"search", "GP_PATH_SEARCH_ERROR"} /\ goal_index \in Cell
       => state_[goal_index] # "CLOSED"
  /\ pc = "GP_PATH_SEARCH_ERROR" => openlist = {}

\* The path so far: closed cells that touch, each cheaper than the ones after it.
Traced == pc \in {"walk", "found"} =>
  /\ Len(path) > 0 /\ path[Len(path)] = goal_index
  /\ \A k \in 1 .. Len(path) : state_[path[k]] = "CLOSED"
  /\ \A k \in 1 .. Len(path) - 1 : Adjacent(path[k], path[k + 1])
  /\ \A j, k \in 1 .. Len(path) : j < k => g_score_[path[j]] < g_score_[path[k]]
  /\ pc = "found" => path[1] = start

IInv == TypeOK /\ Blank /\ Question /\ Queue /\ Scored /\ Parented /\ Explored /\ Traced

LEMMA CellsAreFew ==
  ASSUME NEW S \in SUBSET Cell
  PROVE  /\ IsFiniteSet(S) /\ Cardinality(S) \in Nat
         /\ 269 * Cardinality(S) < IntMax
<1> DEFINE size == gridmap_width_ * gridmap_height_
<1>1. size \in Nat /\ 269 * size < IntMax /\ IntMax \in Nat
  BY GridAssumption
<1> HIDE DEF size
<1>2. IsFiniteSet(Cell) /\ Cardinality(Cell) <= size
  <2>1. Cell = 0 .. size - 1
    BY DEF Cell, size
  <2> QED  BY <1>1, <2>1, FS_Interval
<1>3. IsFiniteSet(S) /\ Cardinality(S) <= Cardinality(Cell)
  BY <1>2, FS_Subset
<1>4. Cardinality(S) \in Nat /\ Cardinality(Cell) \in Nat
  BY <1>2, <1>3, FS_CardinalityType
<1> QED  BY <1>1, <1>2, <1>3, <1>4

LEMMA Sums ==
  ASSUME NEW c \in Nat, NEW g \in Nat, g <= 269 * c, NEW m \in {10, 14}, NEW b \in 0 .. 255,
         NEW max \in Nat, 269 * c + 269 < max
  PROVE  g + m + b \in Nat /\ g + m + b > g /\ g + m + b <= 269 * (c + 1) /\ g + m + b < max
  OBVIOUS

LEMMA InitHolds == Init => IInv
<1> SUFFICES ASSUME Init PROVE IInv
  OBVIOUS
<1>1. 0 \in Cell
  <2>1. gridmap_width_ * gridmap_height_ >= 1
    BY GridAssumption
  <2> QED  BY <2>1, GridAssumption DEF Cell
<1>2. TypeOK
  BY <1>1, GridAssumption DEF Init, TypeOK, Ends
<1> QED  BY <1>2 DEF Init, IInv, Blank, Question, Queue, Scored, Parented, Explored, Traced, Asked

LEMMA MoveCosts == ASSUME NEW i, NEW n PROVE GetMoveCost(i, n) \in {10, 14}
  BY DEF GetMoveCost

LEMMA Manhattan == ASSUME NEW i \in Int, NEW j \in Int PROVE GetManhattanDistance(i, j) \in Nat
<1>1. X(i) \in Int /\ Y(i) \in Int /\ X(j) \in Int /\ Y(j) \in Int
  BY RowAndColumn
<1>2. \A z \in Int : Abs(z) \in Nat
  BY DEF Abs
<1>3. Abs(Y(i) - Y(j)) \in Nat /\ Abs(X(i) - X(j)) \in Nat
  BY <1>1, <1>2
<1> QED  BY <1>3 DEF GetManhattanDistance

-----------------------------------------------------------------------------
\* What Expand does, cell by cell: r(n) is the score of n by way of i.
LEMMA Expanded ==
  ASSUME TypeOK, NEW i \in Cell, Expand(i)
  PROVE  \E better \in SUBSET Cell :
    /\ \A n \in Cell : n \in better <=>
         /\ Adjacent(i, n) /\ Accessible(n) /\ state_[n] # "CLOSED"
         /\ g_score_[n] > g_score_[i] + GetMoveCost(i, n) + cost[n]
    /\ g_score_' = [n \in Cell |-> IF n \in better
                                   THEN g_score_[i] + GetMoveCost(i, n) + cost[n] ELSE g_score_[n]]
    /\ parent_' = [n \in Cell |-> IF n \in better THEN i ELSE parent_[n]]
    /\ f_score_' = [n \in Cell |->
         IF n \in better /\ state_[n] = "NOT_HANDLED"
         THEN g_score_[i] + GetMoveCost(i, n) + cost[n] + GetManhattanDistance(n, goal_index)
         ELSE f_score_[n]]
    /\ state_' = [n \in Cell |-> IF n = i THEN "CLOSED"
                                 ELSE IF n \in better /\ state_[n] = "NOT_HANDLED"
                                      THEN "OPEN" ELSE state_[n]]
    /\ openlist' = (openlist \ {i}) \cup {n \in better : state_[n] = "NOT_HANDLED"}
<1> DEFINE reached(n) == g_score_[i] + GetMoveCost(i, n) + cost[n]
           better == {n \in GetNineNeighbors(i) : /\ Accessible(n)
                                                  /\ state_[n] # "CLOSED"
                                                  /\ g_score_[n] > reached(n)}
           new == {n \in better : state_[n] = "NOT_HANDLED"}
<1>1. better \in SUBSET Cell
  BY DEF GetNineNeighbors
<1>2. \A n \in Cell : n \in better <=> /\ Adjacent(i, n) /\ Accessible(n) /\ state_[n] # "CLOSED"
                                       /\ g_score_[n] > reached(n)
  BY NeighborsTouch
<1>3. /\ g_score_' = [n \in Cell |-> IF n \in better THEN reached(n) ELSE g_score_[n]]
      /\ parent_' = [n \in Cell |-> IF n \in better THEN i ELSE parent_[n]]
      /\ f_score_' = [n \in Cell |-> IF n \in new
                                     THEN reached(n) + GetManhattanDistance(n, goal_index)
                                     ELSE f_score_[n]]
      /\ state_' = [n \in Cell |-> IF n = i THEN "CLOSED"
                                   ELSE IF n \in new THEN "OPEN" ELSE state_[n]]
      /\ openlist' = (openlist \ {i}) \cup new
  BY Zenon DEF Expand, Pop
<1> HIDE DEF better
<1> QED  BY <1>1, <1>2, <1>3, Zenon

LEMMA ExpandStep ==
  ASSUME IInv, pc = "search", NEW i \in openlist, i # goal_index, Expand(i),
         UNCHANGED <<cost, call, path, pc>>, current_index' = i
  PROVE  IInv'
<1> USE DEF IInv, TypeOK, Asked
<1>1. i \in Cell /\ start \in Cell /\ goal_index # start /\ state_[i] # "CLOSED"
  BY DEF Question, Queue
<1>2. PICK better \in SUBSET Cell :
        /\ \A n \in Cell : n \in better <=>
             /\ Adjacent(i, n) /\ Accessible(n) /\ state_[n] # "CLOSED"
             /\ g_score_[n] > g_score_[i] + GetMoveCost(i, n) + cost[n]
        /\ g_score_' = [n \in Cell |-> IF n \in better
                                       THEN g_score_[i] + GetMoveCost(i, n) + cost[n] ELSE g_score_[n]]
        /\ parent_' = [n \in Cell |-> IF n \in better THEN i ELSE parent_[n]]
        /\ f_score_' = [n \in Cell |->
             IF n \in better /\ state_[n] = "NOT_HANDLED"
             THEN g_score_[i] + GetMoveCost(i, n) + cost[n] + GetManhattanDistance(n, goal_index)
             ELSE f_score_[n]]
        /\ state_' = [n \in Cell |-> IF n = i THEN "CLOSED"
                                     ELSE IF n \in better /\ state_[n] = "NOT_HANDLED"
                                          THEN "OPEN" ELSE state_[n]]
        /\ openlist' = (openlist \ {i}) \cup {n \in better : state_[n] = "NOT_HANDLED"}
  BY <1>1, Expanded
<1>3. cost' = cost /\ start' = start /\ goal' = goal /\ goal_index' = goal_index /\ path' = path /\ pc' = pc
  BY DEF call
<1>4. i \notin better
  BY <1>1, <1>2 DEF Adjacent
<1>5. Reached(i) /\ start \notin better
  <2>1. Reached(i)
    BY <1>1, <1>2 DEF Queue, Reached
  <2>2. state_[start] = "CLOSED" \/ i = start
    BY <1>1 DEF Queue
  <2> QED  BY <1>1, <1>2, <1>4, <2>1, <2>2
<1> DEFINE c == Cardinality(Closed)
<1>6. c \in Nat /\ 269 * c + 269 < IntMax /\ Cardinality(Closed') = c + 1
  <2>1. Closed' = Closed \cup {i} /\ i \notin Closed
    BY <1>1, <1>2, <1>4 DEF Closed
  <2>2. IsFiniteSet(Closed) /\ c \in Nat
    <3>1. Closed \in SUBSET Cell
      BY DEF Closed
    <3> QED  BY <3>1, CellsAreFew
  <2>3. Cardinality(Closed \cup {i}) = c + 1
    BY <2>1, <2>2, FS_AddElement
  <2>4. 269 * Cardinality(Closed \cup {i}) < IntMax
    <3>1. Closed \cup {i} \in SUBSET Cell
      BY <1>1 DEF Closed
    <3> QED  BY <3>1, CellsAreFew
  <2> QED  BY <2>1, <2>2, <2>3, <2>4, GridAssumption
<1> HIDE DEF c
<1>7. g_score_[i] \in Nat /\ g_score_[i] <= 269 * c
  BY <1>1, <1>5 DEF Scored, c
<1>8. \A n \in Cell : /\ g_score_[i] + GetMoveCost(i, n) + cost[n] \in Nat
                      /\ g_score_[i] + GetMoveCost(i, n) + cost[n] > g_score_[i]
                      /\ g_score_[i] + GetMoveCost(i, n) + cost[n] <= 269 * (c + 1)
                      /\ g_score_[i] + GetMoveCost(i, n) + cost[n] < IntMax
  <2> TAKE n \in Cell
  <2>1. PICK m \in {10, 14} : GetMoveCost(i, n) = m
    BY MoveCosts
  <2>2. PICK b \in 0 .. 255 : cost[n] = b
    OBVIOUS
  <2>3. PICK g \in Nat : g_score_[i] = g /\ g <= 269 * c
    BY <1>7
  <2>4. IntMax \in Nat /\ c \in Nat /\ 269 * c + 269 < IntMax
    BY <1>6, GridAssumption
  <2>5. g + m + b \in Nat /\ g + m + b > g /\ g + m + b <= 269 * (c + 1) /\ g + m + b < IntMax
    BY <2>3, <2>4, Sums
  <2> QED  BY <2>1, <2>2, <2>3, <2>5
<1>9. \A n \in Cell : Adjacent(i, n) /\ Accessible(n) /\ state_[n] = "NOT_HANDLED"
                        => n \in better \/ n = start
  BY <1>2, <1>8 DEF Scored, Reached
<1>10. \A n \in Cell : /\ Reached(n) => Reached(n)'
                       /\ n \in better => Reached(n)'
                       /\ Reached(n)' => Reached(n) \/ n \in better
  BY <1>2, <1>3, <1>5 DEF Reached
<1>11. TypeOK'
  <2>1. goal_index \in Int /\ \A n \in Cell : n \in Int
    BY DEF Cell
  <2>2. \A n \in Cell : GetManhattanDistance(n, goal_index) \in Nat
    BY <2>1, Manhattan
  <2>3. g_score_' \in [Cell -> 0 .. IntMax]
    BY <1>2, <1>8, GridAssumption
  <2>4. f_score_' \in [Cell -> Nat]
    <3>1. \A n \in Cell : g_score_[i] + GetMoveCost(i, n) + cost[n]
                            + GetManhattanDistance(n, goal_index) \in Nat
      <4> TAKE n \in Cell
      <4>1. \A a, b \in Nat : a + b \in Nat
        OBVIOUS
      <4>2. g_score_[i] + GetMoveCost(i, n) + cost[n] \in Nat
        BY <1>8
      <4>3. GetManhattanDistance(n, goal_index) \in Nat
        BY <2>2
      <4> QED  BY <4>1, <4>2, <4>3
    <3> QED  BY <1>2, <3>1
  <2>5. /\ parent_' \in [Cell -> Cell \cup {IntMax}] /\ openlist' \subseteq Cell
        /\ state_' \in [Cell -> {"NOT_HANDLED", "OPEN", "CLOSED"}]
    BY <1>1, <1>2
  <2> QED  BY <1>1, <1>3, <2>3, <2>4, <2>5
<1>12. Blank' /\ Question' /\ Traced'
  BY <1>3 DEF Blank, Question, Traced, Accessible, Tried, Dist
<1>13. Queue'
  <2>1. state_'[start] = "CLOSED"
    BY <1>1, <1>2, <1>5 DEF Queue
  <2>2. \A n \in Cell : n \in openlist' <=> state_'[n] = "OPEN"
    <3> TAKE n \in Cell
    <3>1. n \in openlist <=> (state_[n] = "OPEN" \/ (n = start /\ state_[n] = "NOT_HANDLED"))
      BY DEF Queue
    <3>2. n = start => n = i \/ state_[n] = "CLOSED"
      BY <1>1 DEF Queue
    <3> QED  BY <1>1, <1>2, <1>4, <3>1, <3>2
  <2> QED  BY <1>3, <2>1, <2>2 DEF Queue
<1>14. Scored'
  <2>1. g_score_'[start] = 0
    BY <1>1, <1>2, <1>5 DEF Scored
  <2>2. ASSUME NEW n \in Cell
        PROVE  IF Reached(n)' THEN g_score_'[n] <= 269 * (c + 1) ELSE g_score_'[n] = IntMax
    <3>1. CASE n \in better
      BY <3>1, <1>2, <1>8, <1>10
    <3>2. CASE n \notin better
      <4>1. g_score_'[n] = g_score_[n] /\ (Reached(n)' <=> Reached(n))
        BY <3>2, <1>2, <1>10
      <4>2. IF Reached(n) THEN g_score_[n] <= 269 * c ELSE g_score_[n] = IntMax
        BY DEF Scored, c
      <4>3. g_score_[n] \in Int
        OBVIOUS
      <4> QED  BY <4>1, <4>2, <4>3, <1>6
    <3> QED  BY <3>1, <3>2
  <2> QED  BY <1>3, <1>6, <2>1, <2>2 DEF Scored
<1>15. Parented'
  <2> SUFFICES ASSUME NEW n \in Cell, state_'[n] # "NOT_HANDLED", n # start
               PROVE  /\ parent_'[n] \in Cell /\ state_'[parent_'[n]] = "CLOSED"
                      /\ Adjacent(parent_'[n], n) /\ Accessible(n)
                      /\ g_score_'[parent_'[n]] < g_score_'[n]
    BY <1>3 DEF Parented, Accessible
  <2>1. CASE n \in better
    <3>1. parent_'[n] = i /\ state_'[i] = "CLOSED" /\ g_score_'[i] = g_score_[i]
      BY <2>1, <1>1, <1>2, <1>4
    <3>2. g_score_'[n] > g_score_[i]
      BY <2>1, <1>2, <1>8
    <3> QED  BY <2>1, <3>1, <3>2, <1>1, <1>2
  <2>2. CASE n \notin better
    <3>1. state_[n] # "NOT_HANDLED"
      BY <2>2, <1>2, <1>5 DEF Reached
    <3>2. /\ parent_[n] \in Cell /\ state_[parent_[n]] = "CLOSED"
          /\ Adjacent(parent_[n], n) /\ Accessible(n)
          /\ g_score_[parent_[n]] < g_score_[n]
      BY <3>1 DEF Parented
    <3>3. parent_'[n] = parent_[n] /\ g_score_'[n] = g_score_[n]
      BY <2>2, <1>2
    <3>4. parent_[n] \notin better /\ state_'[parent_[n]] = "CLOSED"
      BY <3>2, <1>2
    <3> QED  BY <3>2, <3>3, <3>4, <1>2
  <2> QED  BY <2>1, <2>2
<1>16. Explored'
  <2>1. ASSUME NEW k \in Cell, NEW n \in Cell,
               state_'[k] = "CLOSED", k # goal_index, Adjacent(k, n), Accessible(n)
        PROVE  Reached(n)'
    <3>1. CASE k = i
      <4>1. Reached(n) \/ n \in better \/ n = start
        BY <3>1, <2>1, <1>9 DEF Reached
      <4> QED  BY <4>1, <1>3, <1>10 DEF Reached
    <3>2. CASE k # i
      <4>1. state_[k] = "CLOSED"
        BY <3>2, <2>1, <1>2
      <4> QED  BY <4>1, <2>1, <1>10 DEF Explored
    <3> QED  BY <3>1, <3>2
  <2>2. goal_index \in Cell => state_'[goal_index] # "CLOSED"
    BY <1>2 DEF Explored
  <2> QED  BY <1>3, <2>1, <2>2 DEF Explored, Accessible
<1> QED  BY <1>11, <1>12, <1>13, <1>14, <1>15, <1>16

-----------------------------------------------------------------------------
LEMMA Product == ASSUME NEW a \in Nat, NEW b \in Nat PROVE a * b \in Nat
<1>1. a * b \in Int
  OBVIOUS
<1>2. CASE a = 0
  BY <1>2
<1>3. CASE a >= 1
  <2>1. a * b >= b
    BY <1>3
  <2> QED  BY <1>1, <2>1
<1> QED  BY <1>2, <1>3

\* The question, once a cell p is found to go to.
LEMMA TowardStep ==
  ASSUME IInv, OnMap, NEW x \in Nat, NEW y \in Nat, Toward(<<x, y>>),
         Accessible(goal) => GetIndex(x, y) = goal,
         (\A q \in Tried : q[1] < gridmap_width_ /\ q[2] < gridmap_height_)
           => \/ GetIndex(x, y) = goal
              \/ /\ Abs(X(GetIndex(x, y)) - X(goal)) <= goal_search_tolerance_
                 /\ Abs(Y(GetIndex(x, y)) - Y(goal)) <= goal_search_tolerance_
  PROVE  IInv'
<1> USE DEF IInv, TypeOK
<1>1. pc = "plan" /\ start \in Cell /\ goal \in Cell /\ start' = start /\ goal' = goal
  BY DEF OnMap, OffMap, Toward
<1>2. goal_index' = GetIndex(x, y) /\ goal_index' \in Nat
  <2>1. y * gridmap_width_ \in Nat
    BY GridAssumption, Product
  <2>2. GetIndex(x, y) \in Nat
    BY <2>1 DEF GetIndex
  <2> QED  BY <2>2 DEF Toward
<1>3. cost' = [cost EXCEPT ![start] = 0] /\ cost' \in [Cell -> 0 .. 255]
  BY <1>1 DEF Toward, FREE_SPACE
<1>4. CASE goal_index' = start
  <2>1. pc' = "here" /\ path' = <<start, goal>> /\ UNCHANGED search
    BY <1>4 DEF Toward
  <2>2. TypeOK'
    BY <2>1, <1>1, <1>2, <1>3 DEF search, scores, Ends
  <2> QED  BY <2>1, <2>2 DEF Blank, Question, Queue, Scored, Parented, Explored, Traced, Asked
<1>5. CASE goal_index' # start
  <2>1. /\ pc' = "search" /\ openlist' = {start} /\ g_score_' = [g_score_ EXCEPT ![start] = 0]
        /\ UNCHANGED <<f_score_, parent_, state_, current_index, path>>
    BY <1>5 DEF Toward
  <2>2. \A i \in Cell : state_'[i] = "NOT_HANDLED" /\ (i # start => g_score_'[i] = IntMax)
    BY <1>1, <2>1 DEF Blank
  <2>3. g_score_'[start] = 0 /\ g_score_' \in [Cell -> 0 .. IntMax]
    BY <1>1, <2>1, GridAssumption
  <2>4. TypeOK'
    BY <1>1, <1>2, <1>3, <2>1, <2>3
  <2>5. Question'
    <3>1. goal # start => cost'[goal] = cost[goal]
      BY <1>1, <1>3
    <3>2. cost'[start] = 0
      BY <1>1, <1>3
    <3>3. Tried' = Tried
      BY <1>1 DEF Tried
    <3> QED  BY <1>1, <1>2, <1>5, <3>1, <3>2, <3>3 DEF Question, Accessible
  <2>6. Scored'
    <3>1. Closed' \in SUBSET Cell
      BY DEF Closed
    <3>2. Cardinality(Closed') \in Nat
      BY <3>1, CellsAreFew
    <3>3. ASSUME NEW i \in Cell
          PROVE  IF Reached(i)' THEN g_score_'[i] <= 269 * Cardinality(Closed')
                                ELSE g_score_'[i] = IntMax
      <4>1. Reached(i)' <=> i = start
        BY <1>1, <2>2 DEF Reached
      <4>2. 0 <= 269 * Cardinality(Closed')
        BY <3>2
      <4> QED  BY <4>1, <4>2, <2>2, <2>3
    <3> QED  BY <3>3, <2>3, <1>1 DEF Scored
  <2>7. Queue' /\ Parented' /\ Explored'
    BY <1>1, <2>1, <2>2 DEF Queue, Parented, Explored
  <2> QED  BY <2>1, <2>4, <2>5, <2>6, <2>7 DEF Blank, Traced
<1> QED  BY <1>4, <1>5

LEMMA PlanStep == ASSUME IInv, PlanToGoal \/ PlanNearGoal PROVE IInv'
<1> USE DEF IInv, TypeOK
<1> DEFINE w == gridmap_width_
<1>1. OnMap /\ goal \in Cell /\ goal \in Int /\ w \in Nat /\ w > 2
  BY GridAssumption DEF PlanToGoal, PlanNearGoal, OnMap, OffMap, Cell
<1>2. X(goal) \in 0 .. w - 1 /\ Y(goal) \in Int /\ goal = Y(goal) * w + X(goal)
  BY <1>1, RowAndColumn
<1>3. Y(goal) \in Nat
  <2>1. \A a \in Nat, v \in Int : v <= -1 => v * a + a <= 0
    <3> TAKE a \in Nat, v \in Int
    <3> HAVE v <= -1
    <3>1. (0 - v) * a >= a
      OBVIOUS
    <3> QED  BY <3>1
  <2>2. goal >= 0
    BY <1>1 DEF Cell
  <2>3. Y(goal) <= -1 => Y(goal) * w + w <= 0
    BY <2>1, <1>1, <1>2
  <2> HIDE DEF w
  <2>4. Y(goal) * w \in Int
    BY <1>1, <1>2
  <2> QED  BY <2>2, <2>3, <2>4, <1>1, <1>2
<1>4. CASE PlanToGoal
  <2>1. GetIndex(X(goal), Y(goal)) = goal
    BY <1>2 DEF GetIndex
  <2>2. X(goal) \in Nat /\ Toward(<<X(goal), Y(goal)>>)
    BY <1>4, <1>2, <1>1 DEF PlanToGoal
  <2> QED  BY <2>1, <2>2, <1>1, <1>3, TowardStep
<1>5. CASE PlanNearGoal
  <2>1. CASE pc' = "GP_GOAL_INVALID_ERROR" /\ path' = <<>> /\ UNCHANGED <<cost, call, search>>
    <3>1. TypeOK'
      BY <2>1 DEF call, search, scores, Ends
    <3> QED  BY <2>1, <3>1 DEF Blank, Question, Queue, Scored, Parented, Explored, Traced, Asked
  <2>2. CASE \E p \in Tried : Toward(p)
    <3>1. PICK p \in Tried : Toward(p)
      BY <2>2
    <3>2. PICK x \in Around(X(goal)), y \in Around(Y(goal)) : p = <<x, y>>
      BY <3>1 DEF Tried
    <3>3. \A z \in Nat : \A k \in Around(z) : k \in Nat /\ Abs(k - z) <= goal_search_tolerance_
      BY GridAssumption DEF Around, Abs
    <3>4. x \in Nat /\ Abs(x - X(goal)) <= goal_search_tolerance_
      BY <3>2, <3>3, <1>2, <1>1
    <3>5. y \in Nat /\ Abs(y - Y(goal)) <= goal_search_tolerance_
      BY <3>2, <3>3, <1>3
    <3>6. ASSUME x < w PROVE X(GetIndex(x, y)) = x /\ Y(GetIndex(x, y)) = y
      <4>1. x \in 0 .. w - 1 /\ y \in Int
        BY <3>4, <3>5, <3>6, <1>1
      <4> QED  BY <4>1, OfIndex DEF GetIndex
    <3>7. (\A q \in Tried : q[1] < gridmap_width_ /\ q[2] < gridmap_height_) => x < w
      BY <3>1, <3>2
    <3>8. ~Accessible(goal)
      BY <1>5 DEF PlanNearGoal
    <3>9. Toward(<<x, y>>)
      BY <3>1, <3>2
    <3> HIDE DEF w
    <3> QED  BY <1>1, <3>4, <3>5, <3>6, <3>7, <3>8, <3>9, TowardStep
  <2>3. \/ pc' = "GP_GOAL_INVALID_ERROR" /\ path' = <<>> /\ UNCHANGED <<cost, call, search>>
        \/ \E p \in Tried : Toward(p)
    BY <1>5 DEF PlanNearGoal
  <2> QED  BY <2>1, <2>2, <2>3
<1> QED  BY <1>4, <1>5

LEMMA Prepended ==
  ASSUME NEW S, NEW s \in Seq(S), NEW p \in S
  PROVE  /\ <<p>> \o s \in Seq(S) /\ Len(<<p>> \o s) = Len(s) + 1
         /\ \A k \in 1 .. Len(s) + 1 : (<<p>> \o s)[k] = IF k = 1 THEN p ELSE s[k - 1]
  OBVIOUS

LEMMA WalkStep == ASSUME IInv, WalkBack PROVE IInv'
<1> USE DEF IInv, TypeOK
<1>1. pc = "walk" /\ UNCHANGED <<cost, call, search>>
  BY DEF WalkBack
<1>2. path # <<>> /\ Len(path) \in Nat /\ Len(path) > 0 /\ Head(path) = path[1] /\ path[1] \in Cell
  BY <1>1 DEF Traced
<1>6. UNCHANGED <<cost, start, goal, goal_index, openlist, g_score_, parent_, state_>>
  BY <1>1 DEF call, search, scores
<1>7. Asked /\ Asked' /\ pc' \in {"walk", "found"}
  BY <1>1 DEF WalkBack, Asked
<1>8. Question' /\ Queue' /\ Parented'
  BY <1>6, <1>7 DEF Question, Queue, Parented, Accessible, Tried
<1>9. Closed' = Closed /\ \A i \in Cell : Reached(i)' <=> Reached(i)
  BY <1>6 DEF Closed, Reached
<1>10. Scored' /\ Explored' /\ Blank'
  BY <1>6, <1>7, <1>9 DEF Scored, Explored, Accessible, Blank
<1>3. Blank' /\ Question' /\ Queue' /\ Scored' /\ Parented' /\ Explored'
  BY <1>8, <1>10
<1>4. CASE Head(path) = start
  <2>1. pc' = "found" /\ path' = path
    BY <1>4 DEF WalkBack
  <2>2. TypeOK'
    BY <1>1, <2>1 DEF call, search, scores, Ends
  <2>3. Traced'
    BY <1>1, <1>2, <1>4, <2>1 DEF Traced, call, search, scores
  <2> QED  BY <1>3, <2>2, <2>3
<1>5. CASE Head(path) # start
  <2> DEFINE p == parent_[Head(path)]
  <2>1. pc' = "walk" /\ path' = <<p>> \o path
    BY <1>1, <1>5 DEF WalkBack
  <2>2. state_[path[1]] = "CLOSED"
    BY <1>1, <1>2 DEF Traced
  <2>3. /\ p \in Cell /\ state_[p] = "CLOSED" /\ Adjacent(p, path[1])
        /\ g_score_[p] < g_score_[path[1]]
    BY <1>1, <1>2, <1>5, <2>2 DEF Parented, Asked
  <2> HIDE DEF p
  <2> DEFINE n == Len(path)
  <2>4. /\ path' \in Seq(Cell) /\ Len(path') = n + 1
        /\ \A k \in 1 .. n + 1 : path'[k] = IF k = 1 THEN p ELSE path[k - 1]
    <3>1. path \in Seq(Cell)
      OBVIOUS
    <3> QED  BY <3>1, <2>1, <2>3, Prepended
  <2>5. TypeOK'
    BY <1>1, <2>1, <2>4 DEF call, search, scores
  <2>6. \A i \in Cell : g_score_[i] \in Int
    BY GridAssumption
  <2>7. \A k \in 1 .. n : path[k] \in Cell /\ state_[path[k]] = "CLOSED"
    BY <1>1 DEF Traced
  <2>13. /\ path[n] = goal_index
         /\ \A k \in 1 .. n - 1 : Adjacent(path[k], path[k + 1])
         /\ \A j, k \in 1 .. n : j < k => g_score_[path[j]] < g_score_[path[k]]
    BY <1>1 DEF Traced
  <2>14. n \in Nat /\ n > 0
    BY <1>2
  <2> HIDE DEF n, TypeOK, IInv
  <2>8. path'[n + 1] = goal_index
    BY <2>4, <2>13, <2>14
  <2>9. ASSUME NEW k \in 1 .. n + 1 PROVE state_[path'[k]] = "CLOSED"
    <3>1. CASE k = 1
      BY <3>1, <2>3, <2>4
    <3>2. CASE k # 1
      <4>1. k - 1 \in 1 .. n /\ path'[k] = path[k - 1]
        BY <3>2, <2>4, <2>14
      <4> QED  BY <4>1, <2>7
    <3> QED  BY <3>1, <3>2
  <2>10. ASSUME NEW k \in 1 .. n PROVE Adjacent(path'[k], path'[k + 1])
    <3>1. path'[k + 1] = path[k]
      BY <2>4, <2>14
    <3>2. CASE k = 1
      BY <3>1, <3>2, <2>3, <2>4, <2>14
    <3>3. CASE k # 1
      <4>1. k - 1 \in 1 .. n - 1 /\ path'[k] = path[k - 1] /\ (k - 1) + 1 = k
        BY <3>3, <2>4, <2>14
      <4>2. Adjacent(path[k - 1], path[(k - 1) + 1])
        BY <4>1, <2>13
      <4> QED  BY <4>1, <4>2, <3>1
    <3> QED  BY <3>2, <3>3
  <2>11. ASSUME NEW j \in 1 .. n + 1, NEW k \in 1 .. n + 1, j < k
         PROVE  g_score_[path'[j]] < g_score_[path'[k]]
    <3>1. k - 1 \in 1 .. n /\ path'[k] = path[k - 1]
      BY <2>4, <2>11, <2>14
    <3>2. CASE j = 1
      <4>1. k - 1 = 1 \/ g_score_[path[1]] < g_score_[path[k - 1]]
        BY <3>1, <2>13, <2>14
      <4>2. g_score_[p] \in Int /\ g_score_[path[1]] \in Int /\ g_score_[path[k - 1]] \in Int
        BY <2>3, <2>6, <2>7, <3>1, <2>14
      <4>3. path'[j] = p
        BY <3>2, <2>4, <2>14
      <4> QED  BY <4>1, <4>2, <4>3, <3>1, <2>3
    <3>3. CASE j # 1
      <4>1. j - 1 \in 1 .. n /\ path'[j] = path[j - 1] /\ j - 1 < k - 1
        BY <3>3, <2>4, <2>11, <2>14
      <4>2. g_score_[path[j - 1]] < g_score_[path[k - 1]]
        BY <4>1, <3>1, <2>13
      <4> QED  BY <4>1, <4>2, <3>1
    <3> QED  BY <3>2, <3>3
  <2>12. Traced'
    <3>1. Len(path') = n + 1 /\ n + 1 > 0 /\ (n + 1) - 1 = n /\ pc' # "found"
      BY <2>1, <2>4, <2>14
    <3> QED  BY <3>1, <2>8, <2>9, <2>10, <2>11, <1>6 DEF Traced
  <2> QED  BY <1>3, <2>5, <2>12 DEF IInv
<1> QED  BY <1>4, <1>5

\* The turn that takes the goal from the open list.
LEMMA FoundStep ==
  ASSUME IInv, pc = "search", goal_index \in openlist, openlist' = Pop(goal_index),
         state_' = [state_ EXCEPT ![goal_index] = "CLOSED"], path' = <<goal_index>>, pc' = "walk",
         UNCHANGED <<cost, call, g_score_, f_score_, parent_>>, current_index' = goal_index
  PROVE  IInv'
<1> USE DEF IInv, TypeOK, Asked
<1>1. goal_index \in Cell /\ start \in Cell /\ goal_index # start
  BY DEF Question
<1>2. cost' = cost /\ start' = start /\ goal' = goal /\ goal_index' = goal_index
  BY DEF call
<1>3. state_[goal_index] = "OPEN" /\ state_[start] = "CLOSED"
  BY <1>1 DEF Queue
<1>4. \A n \in Cell : state_'[n] = IF n = goal_index THEN "CLOSED" ELSE state_[n]
  OBVIOUS
<1>5. \A n \in Cell : Reached(n)' <=> Reached(n)
  BY <1>2, <1>3, <1>4 DEF Reached
<1>6. TypeOK'
  <2>1. /\ state_' \in [Cell -> {"NOT_HANDLED", "OPEN", "CLOSED"}]
        /\ path' \in Seq(Cell) /\ openlist' \subseteq Cell
    BY <1>1 DEF Pop
  <2>2. g_score_' = g_score_ /\ f_score_' = f_score_ /\ parent_' = parent_
    OBVIOUS
  <2> QED  BY <1>1, <1>2, <2>1, <2>2
<1>7. Blank' /\ Question' /\ Explored'
  BY <1>2, <1>4, <1>5 DEF Blank, Question, Explored, Accessible, Tried, Dist
<1>8. Queue'
  BY <1>1, <1>2, <1>3, <1>4 DEF Queue, Pop
<1>9. Parented'
  BY <1>1, <1>2, <1>3, <1>4 DEF Parented, Accessible
<1>10. Traced'
  BY <1>1, <1>2, <1>4 DEF Traced
<1>11. Scored'
  <2> DEFINE c == Cardinality(Closed)
             d == Cardinality(Closed')
  <2>1. Closed \in SUBSET Closed' /\ Closed' \in SUBSET Cell
    BY <1>4 DEF Closed
  <2>2. IsFiniteSet(Closed') /\ d \in Nat
    BY <2>1, CellsAreFew
  <2>3. c \in Nat /\ c <= d
    BY <2>1, <2>2, FS_Subset, FS_CardinalityType
  <2>4. \A n \in Cell : IF Reached(n) THEN g_score_[n] <= 269 * c ELSE g_score_[n] = IntMax
    BY DEF Scored
  <2> HIDE DEF c, d
  <2>5. ASSUME NEW n \in Cell
        PROVE  IF Reached(n)' THEN g_score_'[n] <= 269 * d ELSE g_score_'[n] = IntMax
    <3>1. g_score_[n] \in Int /\ g_score_'[n] = g_score_[n]
      BY GridAssumption
    <3>2. IF Reached(n) THEN g_score_[n] <= 269 * c ELSE g_score_[n] = IntMax
      BY <2>4
    <3>3. Reached(n)' <=> Reached(n)
      BY <1>5
    <3>4. 269 * c <= 269 * d
      BY <2>2, <2>3
    <3> QED  BY <2>2, <2>3, <3>1, <3>2, <3>3, <3>4
  <2>6. g_score_'[start'] = 0
    BY <1>2 DEF Scored
  <2> QED  BY <2>5, <2>6 DEF Scored, d
<1> QED  BY <1>6, <1>7, <1>8, <1>9, <1>10, <1>11

LEMMA TurnStep == ASSUME IInv, Turn PROVE IInv'
<1>1. PICK i \in openlist :
        /\ current_index' = i
        /\ IF i = goal_index
           THEN /\ openlist' = Pop(i)
                /\ state_' = [state_ EXCEPT ![i] = "CLOSED"]
                /\ path' = <<i>>
                /\ pc' = "walk"
                /\ UNCHANGED <<g_score_, f_score_, parent_>>
           ELSE /\ Expand(i)
                /\ UNCHANGED <<path, pc>>
  BY Zenon DEF Turn
<1>2. pc = "search" /\ UNCHANGED <<cost, call>>
  BY DEF Turn
<1>3. CASE i = goal_index
  BY <1>1, <1>2, <1>3, FoundStep
<1>4. CASE i # goal_index
  BY <1>1, <1>2, <1>4, ExpandStep
<1> QED  BY <1>3, <1>4

\* Nothing is asked for when a pose is off the map; when the list is empty all reached is closed.
LEMMA EndStep == ASSUME IInv, NoPose \/ Fail \/ UNCHANGED vars PROVE IInv'
<1> USE DEF IInv, TypeOK
<1>1. /\ UNCHANGED <<cost, start, goal, goal_index, openlist, g_score_, f_score_, parent_, state_,
                     current_index, path>>
      /\ \/ pc' = "GP_POSE_TRANSFORM_ERROR"
         \/ pc = "search" /\ openlist = {} /\ pc' = "GP_PATH_SEARCH_ERROR"
         \/ pc' = pc
  BY DEF NoPose, Fail, vars, call, search, scores
<1>2. TypeOK'
  BY <1>1 DEF Ends
<1>3. Closed' = Closed /\ \A i \in Cell : Reached(i)' <=> Reached(i)
  BY <1>1 DEF Closed, Reached
<1>4. Asked' => Asked
  BY <1>1 DEF Asked
<1>5. Blank' /\ Question' /\ Queue'
  BY <1>1, <1>4 DEF Blank, Question, Queue, Accessible, Tried
<1>6. Scored' /\ Parented'
  BY <1>1, <1>3, <1>4 DEF Scored, Parented, Accessible
<1>7. Explored' /\ Traced'
  BY <1>1, <1>3, <1>4 DEF Explored, Traced, Accessible
<1> QED  BY <1>2, <1>5, <1>6, <1>7

LEMMA Inductive == Spec => []IInv
<1>1. IInv /\ [Next]_vars => IInv'
  BY PlanStep, TurnStep, WalkStep, EndStep DEF Next
<1> QED  BY InitHolds, <1>1, PTL DEF Spec

-----------------------------------------------------------------------------
\* What Plan keeps has its type, and no score comes near the largest integer.
THEOREM SearchTyped == Spec => []TypeOK
<1>1. IInv => TypeOK
  BY DEF IInv
<1> QED  BY Inductive, <1>1, PTL

\* The searched path leads over touching, accessible, different cells to where it should.
THEOREM PathsConnect == Spec => []PathConnects
<1>1. IInv => PathConnects
  <2> SUFFICES ASSUME IInv, pc = "found" PROVE PathConnects
    BY DEF PathConnects
  <2> USE DEF IInv, TypeOK
  <2>1. Asked
    BY DEF Asked
  <2>2. \A k \in 1 .. Len(path) : path[k] \in Cell /\ state_[path[k]] = "CLOSED"
    BY DEF Traced
  <2>3. \A k \in 1 .. Len(path) : Accessible(path[k])
    <3> TAKE k \in 1 .. Len(path)
    <3>1. CASE path[k] = start
      BY <3>1, <2>1, GridAssumption DEF Question, Accessible
    <3>2. CASE path[k] # start
      BY <3>2, <2>1, <2>2 DEF Parented
    <3> QED  BY <3>1, <3>2
  <2>4. ASSUME NEW j \in 1 .. Len(path), NEW k \in 1 .. Len(path), path[j] = path[k] PROVE j = k
    <3>1. g_score_[path[j]] \in Int /\ g_score_[path[k]] = g_score_[path[j]]
      BY <2>2, <2>4, GridAssumption
    <3>2. ~(j < k) /\ ~(k < j)
      BY <3>1 DEF Traced
    <3>3. j \in Int /\ k \in Int
      OBVIOUS
    <3> QED  BY <3>2, <3>3
  <2>5. /\ path[1] = start /\ path[Len(path)] = goal_index
        /\ \A k \in 1 .. Len(path) - 1 : Adjacent(path[k], path[k + 1])
    BY DEF Traced
  <2> QED  BY <2>1, <2>3, <2>4, <2>5 DEF PathConnects, Question
<1> QED  BY Inductive, <1>1, PTL

\* The search fails only when accessible cells do not lead to the goal: what is closed is
\* the region that no way leaves.
THEOREM FailuresAreRight == Spec => []FailsRightly
<1>1. IInv => FailsRightly
  <2> SUFFICES ASSUME IInv, pc = "GP_PATH_SEARCH_ERROR" PROVE FailsRightly
    BY DEF FailsRightly
  <2> USE DEF IInv, TypeOK
  <2>1. Asked /\ openlist = {}
    BY DEF Asked, Explored
  <2>2. start \in Cell
    BY <2>1 DEF Question
  <2>3. \A i \in Cell : Reached(i) => state_[i] = "CLOSED"
    BY <2>1, <2>2 DEF Queue, Reached
  <2>4. Closed \in SUBSET Cell /\ start \in Closed
    BY <2>2, <2>3 DEF Closed, Reached
  <2>5. goal_index \notin Closed
    BY DEF Explored, Closed
  <2>6. \A i \in Closed, n \in Cell \ Closed : Adjacent(i, n) => ~Accessible(n)
    BY <2>1, <2>3, <2>5 DEF Explored, Closed
  <2> QED  BY <2>4, <2>5, <2>6 DEF FailsRightly
<1> QED  BY Inductive, <1>1, PTL
=============================================================================
