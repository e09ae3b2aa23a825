-------------------------- MODULE MCLayeredCostmap --------------------------
EXTENDS LayeredCostmap

\* Seven by two cells; rays along the row of the sensor, across and off the map, some of them
\* longer than the range of two cells.
AScan(f, t, s) == [from |-> f, to |-> t, seen |-> s]

SmallScans == {AScan(<<7, 1>>, <<5, 1>>, TRUE), AScan(<<7, 1>>, <<5, 1>>, FALSE),
               AScan(<<7, 1>>, <<10, 1>>, TRUE),
               AScan(<<7, 1>>, <<13, 7>>, FALSE), AScan(<<7, 1>>, <<-5, -11>>, FALSE),
               AScan(<<11, 1>>, <<13, 1>>, TRUE), AScan(<<6, 0>>, <<12, 1>>, FALSE)}

SmallMaps == {{}, {<<4, 1>>}}

SmallRobots == {<<7, 2>>, <<11, 2>>}

SmallCosts == [d \in 0 .. 2 |-> <<254, 253, 100>>[d + 1]]
=============================================================================
