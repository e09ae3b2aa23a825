SPECIFICATION Spec
CONSTANTS
    size_x_ = 7
    size_y_ = 2
    Rolling = {FALSE, TRUE}
    Radii = {2, 3}
    ComputeCost <- SmallCosts
    reset_distance = 5
    Maps <- SmallMaps
    Robots <- SmallRobots
    Scans <- SmallScans
    obstacle_range = 4
    raytrace_range = 4
    Far = 1000
INVARIANTS
    NeverTooLow
    WindowIsRight
    WholeMapIsRight
