--------------------------- MODULE LayeredCostmap ---------------------------
(***************************************************************************)
(* The costmap of one planner: the map update thread against new static    *)
(* maps (the global planner's costmap) or against ClearCostMap of the      *)
(* local planner (whose costmap rolls along with the robot and has no      *)
(* static layer).                                                          *)
(*                                                                         *)
(* Lengths are in halves of a cell, so resolution_ is 2.  Of the layers    *)
(* the set of lethal cells is kept: trinary_map and use_maximum are on and *)
(* the master's default is free, so the other values of a layer do not     *)
(* show.  A scan has one ray; as the last scan alone is kept               *)
(* (observation_keep_time 0) it comes with the update.                     *)
(***************************************************************************)
EXTENDS Integers, SequencesExt

CONSTANTS size_x_, size_y_,
          Rolling,                     \* is_rolling_window_, of the costmaps to check
          Radii,                       \* inflation_radius_
          ComputeCost,                 \* by distance in whole cells
          reset_distance,
          Maps,                        \* the static maps that may come
          Robots, Scans,               \* poses; rays with from, to and seen (not too high)
          obstacle_range, raytrace_range,
          Far                          \* beyond any map

Cell == (0 .. size_x_ - 1) \X (0 .. size_y_ - 1)

FREE_SPACE == 0
LETHAL_OBSTACLE == 254

ASSUME CostAssumption ==
  /\ \A d \in DOMAIN ComputeCost : ComputeCost[d] < LETHAL_OBSTACLE \/ d = 0
  /\ \A d, e \in DOMAIN ComputeCost : d <= e => ComputeCost[d] >= ComputeCost[e]
  /\ ComputeCost[0] = LETHAL_OBSTACLE

ASSUME RangeAssumption == obstacle_range \in Nat /\ raytrace_range \in Nat \ {0}

VARIABLES rolling, inflation_radius_,
          origin,                      \* of the master and of the obstacle layer
          master,
          walls, has_updated_data_,    \* the static layer
          obstacles, extra,            \* the obstacle layer; its extra bounds
          last, need_reinflation_,     \* the inflation layer
          window,                      \* of the update under way, then of the last one
          pc, forgot                   \* obstacles gone outside of what was touched, and not redone since

vars == <<rolling, inflation_radius_, origin, master, walls, has_updated_data_, obstacles, extra,
          last, need_reinflation_, window, pc, forgot>>

Size(k) == IF k = 1 THEN size_x_ ELSE size_y_

\* The square root of a quotient: what is whole in it, and the next whole number.
Root(n, d) == CHOOSE r \in 0 .. n : r * r * d <= n /\ n < (r + 1) * (r + 1) * d
Above(n, d) == CHOOSE r \in 0 .. n : n <= r * r * d /\ (r = 0 \/ (r - 1) * (r - 1) * d < n)

\* Squared.
Distance(c, e) == (c[1] - e[1]) * (c[1] - e[1]) + (c[2] - e[2]) * (c[2] - e[2])

-----------------------------------------------------------------------------
\* Bounding boxes.
Nothing == [min |-> <<Far, Far>>, max |-> <<-Far, -Far>>]
Everything == [min |-> <<-Far, -Far>>, max |-> <<Far, Far>>]

Both(b, c) == [min |-> [k \in 1 .. 2 |-> Min({b.min[k], c.min[k]})],
               max |-> [k \in 1 .. 2 |-> Max({b.max[k], c.max[k]})]]

Grown(b, r) == [min |-> [k \in 1 .. 2 |-> b.min[k] - r], max |-> [k \in 1 .. 2 |-> b.max[k] + r]]

At(p) == [min |-> p, max |-> p]

Touch(b, points) == IF points = {} THEN b ELSE FoldSet(LAMBDA p, c : Both(At(p), c), b, points)

World2MapWithBoundary(z, k) ==
  CASE z < origin'[k] -> 0
    [] z > 2 * Size(k) + origin'[k] -> Size(k) - 1
    [] OTHER -> (z - origin'[k]) \div 2

\* The first cells of the window and the last.
Window(b) == [min |-> [k \in 1 .. 2 |-> World2MapWithBoundary(b.min[k], k)],
              max |-> [k \in 1 .. 2 |-> Min({Size(k) - 1, World2MapWithBoundary(b.max[k], k)})]]

Within(w) == {c \in Cell : \A k \in 1 .. 2 : w.min[k] <= c[k] /\ c[k] <= w.max[k]}

-----------------------------------------------------------------------------
\* Division of integers rounds to zero.
Quotient(n, d) == IF n < 0 THEN -((-n) \div d) ELSE n \div d

Sgn(z) == IF z > 0 THEN 1 ELSE IF z < 0 THEN -1 ELSE 0
Abs(z) == Sgn(z) * z

\* Half of GetSizeXWorld is size_x_ - 1/2.
Shift(robot) == [k \in 1 .. 2 |-> Quotient(2 * (robot[k] - origin[k]) - (2 * Size(k) - 1), 4)]

\* Mutant: the layer keeps its obstacles in their cells.
Unmoved(cells, d) == cells

Moved(cells, d) == {c \in Cell : <<c[1] + d[1], c[2] + d[2]>> \in cells}

MovedMap(m, d) == [c \in Cell |-> LET from == <<c[1] + d[1], c[2] + d[2]>>
                                  IN IF from \in Cell THEN m[from] ELSE FREE_SPACE]

OnMap(p) == \A k \in 1 .. 2 : p[k] >= origin'[k] /\ (p[k] - origin'[k]) \div 2 < Size(k)
World2Map(p) == [k \in 1 .. 2 |-> (p[k] - origin'[k]) \div 2]

\* The ray from p to q comes to line z of axis k at the other coordinate.
Meets(p, q, k, z) == LET o == 3 - k
                     IN p[o] + ((q[o] - p[o]) * Sgn(q[k] - p[k]) * (z - p[k])) \div Abs(q[k] - p[k])

Clipped(p, q) ==
  LET end(k) == origin'[k] + 2 * Size(k)
      a == IF q[1] < origin'[1] THEN <<origin'[1], Meets(p, q, 1, origin'[1])>> ELSE q
      b == IF a[2] < origin'[2] THEN <<Meets(p, q, 2, origin'[2]), origin'[2]>> ELSE a
      c == IF b[1] > end(1) THEN <<end(1) - 1, Meets(p, q, 1, end(1))>> ELSE b
  IN IF c[2] > end(2) THEN <<Meets(p, q, 2, end(2)), end(2) - 1>> ELSE c

World2Cell(length) == (length + 1) \div 2

\* Bresenham: steps along the longer axis, the error decides about the other.  A ray longer than
\* max_length cells has that share of its steps, and one cell more is marked than there are steps.
RaytraceLine(c, e, max_length) ==
  LET k == IF Abs(e[1] - c[1]) >= Abs(e[2] - c[2]) THEN 1 ELSE 2
      da == Abs(e[k] - c[k])
      db == Abs(e[3 - k] - c[3 - k])
      end == IF Distance(c, e) <= max_length * max_length THEN da
             ELSE Root(max_length * max_length * da * da, Distance(c, e))
      b(i) == IF da = 0 THEN 0 ELSE (da \div 2 + i * db) \div da
  IN {[j \in 1 .. 2 |-> IF j = k THEN c[j] + Sgn(e[j] - c[j]) * i
                                 ELSE c[j] + Sgn(e[j] - c[j]) * b(i)] : i \in 0 .. end}

\* The point at raytrace_range on the way from p to q, or q, by the half cell it lies in.
RangeEnd(p, q) ==
  LET part(k) == raytrace_range * raytrace_range * (q[k] - p[k]) * (q[k] - p[k])
  IN IF Distance(p, q) <= raytrace_range * raytrace_range THEN q
     ELSE [k \in 1 .. 2 |-> IF q[k] >= p[k] THEN p[k] + Root(part(k), Distance(p, q))
                                            ELSE p[k] - Above(part(k), Distance(p, q))]

RayEnd(scan) == {p \in {Clipped(scan.from, scan.to)} : OnMap(scan.from) /\ OnMap(p)}
Cleared(scan) == UNION {RaytraceLine(World2Map(scan.from), World2Map(p), World2Cell(raytrace_range)) :
                          p \in RayEnd(scan)}
Hit(scan) == {p \in {scan.to} : /\ scan.seen /\ OnMap(p)
                                /\ Distance(scan.from, p) < obstacle_range * obstacle_range}
Touched(scan) == {p \in {scan.from} : OnMap(p)} \cup {RangeEnd(scan.from, p) : p \in RayEnd(scan)}
                 \cup Hit(scan)

-----------------------------------------------------------------------------
cell_inflation_radius_ == World2Cell(inflation_radius_)

InReach(c, e) == Distance(c, e) <= cell_inflation_radius_ * cell_inflation_radius_

CostLookup(c, e) == ComputeCost[Root(Distance(c, e), 1)]

\* A cell is listed with the obstacle it is reached from, behind those not farther from theirs.
Enqueue(list, entry) ==
  LET Near(x) == Distance(x.cell, x.src) <= Distance(entry.cell, entry.src)
      Off(x) == ~Near(x)
  IN SelectSeq(list, Near) \o <<entry>> \o SelectSeq(list, Off)

Neighbors(c) == <<<<c[1] - 1, c[2]>>, <<c[1], c[2] - 1>>, <<c[1] + 1, c[2]>>, <<c[1], c[2] + 1>>>>

\* The bins are visited once by growing distance: what is nearer than its predecessor is left.
RECURSIVE Inflated(_, _, _)
Inflated(list, seen, m) ==
  IF list = <<>> THEN m
  ELSE LET c == Head(list).cell
           src == Head(list).src
           new(n) == n \in Cell /\ n \notin seen /\ InReach(n, src)
                     /\ Distance(n, src) >= Distance(c, src)
           listed == FoldLeft(LAMBDA l, n : IF new(n) THEN Enqueue(l, [cell |-> n, src |-> src])
                                            ELSE l, Tail(list), Neighbors(c))
       IN IF c \in seen THEN Inflated(Tail(list), seen, m)
          ELSE Inflated(listed, seen \cup {c},
                        [m EXCEPT ![c] = Max({@, CostLookup(c, src)})])

\* Mutant: no look beyond the window for obstacles.
WindowOnly(w) == w

Reach(w) == Grown(w, cell_inflation_radius_)

Inflate(m, w) ==
  LET lethal == {c \in Within(Reach(w)) : m[c] = LETHAL_OBSTACLE}
      before(c, e) == c[2] < e[2] \/ (c[2] = e[2] /\ c[1] < e[1])
      list == SetToSortSeq({[cell |-> c, src |-> c] : c \in lethal},
                           LAMBDA x, y : before(x.cell, y.cell))
  IN Inflated(list, {}, m)

-----------------------------------------------------------------------------
Init == /\ rolling \in Rolling
        /\ inflation_radius_ \in Radii
        /\ origin = <<0, 0>>
        /\ master = [c \in Cell |-> FREE_SPACE]
        /\ walls \in IF rolling THEN {{}} ELSE Maps
        /\ has_updated_data_ = ~rolling
        /\ obstacles = {}
        /\ extra = Nothing
        /\ last = Everything
        /\ need_reinflation_ = TRUE
        /\ window = Nothing
        /\ pc = "idle"
        /\ forgot = {}

\* The bounds of the static layer: the centers of its first cell and of the one past its last.
StaticBounds == IF has_updated_data_
                THEN [min |-> <<1, 1>>, max |-> <<2 * size_x_ + 1, 2 * size_y_ + 1>>]
                ELSE Nothing

\* Mutant: the bounds as the layers before it have left them.
InflationBoundsNone(b) == IF need_reinflation_ THEN Everything ELSE b

InflationBounds(b) == IF need_reinflation_ THEN Everything
                      ELSE Grown(Both(last, b), inflation_radius_)

\* The cells that lost an obstacle outside what was touched, by a reset or next to it, and around
\* which not all has been redone.
Forgotten(lost, before, reset) ==
  {c \in before \cup (lost \ Within(Window(last'))) :
     /\ c \in before \/ reset \/ c \in Within(Grown(Window(last'), 1))
     /\ \E e \in Cell : InReach(c, e) /\ (window' = Nothing \/ e \notin Within(window'))}

\* First half of UpdateMap: origins, layers and bounds.  A costmap that does not roll forgets
\* its obstacles every few seconds, when the clock says so.
UpdateBounds ==
  /\ pc = "idle"
  /\ \E d \in IF rolling THEN {Shift(robot) : robot \in Robots} ELSE {<<0, 0>>},
        scan \in Scans,
        reset \in IF rolling THEN {FALSE} ELSE BOOLEAN :
       /\ LET b == Touch(Both(StaticBounds, extra), Touched(scan))
              w == Window(InflationBounds(b))
              empty == \E k \in 1 .. 2 : w.max[k] + 1 < w.min[k]
          IN /\ origin' = [k \in 1 .. 2 |-> origin[k] + 2 * d[k]]
             /\ master' = MovedMap(master, d)
             /\ obstacles' = ((IF reset THEN {} ELSE Moved(obstacles, d)) \ Cleared(scan))
                             \cup {World2Map(p) : p \in Hit(scan)}
             /\ last' = b
             /\ window' = IF empty THEN Nothing ELSE w
             /\ pc' = IF empty THEN "idle" ELSE "costs"
       /\ forgot' = Forgotten(Moved(obstacles, d) \ obstacles', Moved(forgot, d), reset)
  /\ extra' = Nothing
  /\ need_reinflation_' = FALSE
  /\ has_updated_data_' = FALSE
  /\ UNCHANGED <<rolling, inflation_radius_, walls>>

\* Second half: the window is reset, the layers write into it, the lethal cells are inflated.
UpdateCosts ==
  /\ pc = "costs"
  /\ LET m == [c \in Cell |-> IF c \notin Within(window) THEN master[c]
                              ELSE IF c \in walls \cup obstacles THEN LETHAL_OBSTACLE
                              ELSE FREE_SPACE]
     IN master' = Inflate(m, window)
  /\ pc' = "idle"
  /\ UNCHANGED <<rolling, inflation_radius_, origin, walls, has_updated_data_, obstacles, extra,
                 last, need_reinflation_, window, forgot>>

\* A map of the size that is locked.  The callback does not take the mutex of the master.
InComingMap ==
  /\ ~rolling
  /\ walls' \in Maps
  /\ has_updated_data_' = TRUE
  /\ UNCHANGED <<rolling, inflation_radius_, origin, master, obstacles, extra, last,
                 need_reinflation_, window, pc, forgot>>

\* The local planner clears all but where the robot is.
ClearCostMap ==
  /\ rolling
  /\ \E robot \in Robots :
       LET from == [k \in 1 .. 2 |-> Quotient(2 * (robot[k] - origin[k]) - reset_distance, 4)]
           to == [k \in 1 .. 2 |-> Quotient(2 * (robot[k] - origin[k]) + reset_distance, 4)]
       IN obstacles' = {c \in obstacles : \A k \in 1 .. 2 : from[k] < c[k] /\ c[k] < to[k]}
  /\ extra' = Both(extra, [min |-> origin,
                           max |-> [k \in 1 .. 2 |-> origin[k] + 2 * Size(k) - 1]])
  /\ UNCHANGED <<rolling, inflation_radius_, origin, master, walls, has_updated_data_, last,
                 need_reinflation_, window, pc, forgot>>

Next == UpdateBounds \/ UpdateCosts \/ InComingMap \/ ClearCostMap

Spec == Init /\ [][Next]_vars

-----------------------------------------------------------------------------
\* What a cell should cost by what the layers hold: the cost of the nearest obstacle in reach.
Due(c) == LET near == {e \in walls \cup obstacles : InReach(c, e)}
          IN IF near = {} THEN FREE_SPACE
             ELSE CostLookup(c, CHOOSE e \in near : \A f \in near : Distance(c, e) <= Distance(c, f))

\* No bounds are waiting for the next update.
Done == pc = "idle" /\ ~has_updated_data_ /\ extra = Nothing

\* The search goes from neighbor to neighbor and visits its bins once.  From three cells on a
\* cell can be met first from another obstacle than the nearest, as (3,0) is with obstacles at
\* (0,0), (1,2) and (3,3): it costs what is due at 3 cells, not at the root of 8.
Exact == cell_inflation_radius_ <= 2

\* Where the global planner plans no cell costs less than the obstacles make it cost, however
\* the windows of the updates lay and whatever was forgotten.  (layered_costmap.cpp:72-85 redo a
\* window only, inflation_layer.cpp:171-179 look beyond it.)
NeverTooLow == Exact /\ Done /\ ~rolling => \A c \in Cell : master[c] >= Due(c)

\* No obstacle was forgotten around c.
Known(c) == \A e \in forgot : ~InReach(c, e)

\* In the window of the last update every cell costs what it should, by the nearest obstacle,
\* although the search of inflation_layer.cpp:199-237 goes from neighbor to neighbor and may meet
\* a cell first from another obstacle, and although obstacles move through a rolling map.
WindowIsRight == Exact /\ Done => \A c \in Within(window) : Known(c) => master[c] = Due(c)

\* And so does every cell of a map that stays, when the radius is a number of cells: a window
\* that reaches inflation_radius_ beyond what was touched is enough (inflation_layer.cpp:137-140).
\* But for the cells around an obstacle that vanished outside what was touched: by a reset
\* (obstacle_layer.cpp:172), or in the last cell of a ray that is longer than its range, which can
\* lie one beyond the point that UpdateRaytraceBounds touches (obstacle_layer.cpp:356-361).
WholeMapIsRight == Exact /\ Done /\ ~rolling /\ inflation_radius_ % 2 = 0
                     => \A c \in Cell : Known(c) => master[c] = Due(c)
=============================================================================
