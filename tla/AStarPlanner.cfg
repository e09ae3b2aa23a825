CONSTANTS
  gridmap_width_ = 3
  gridmap_height_ = 3
  inaccessible_cost_ = 253
  goal_search_tolerance_ = 1
  IntMax = 10000
  Costmaps <- MCCostmaps
SPECIFICATION FairSpec
INVARIANTS PathConnects FailsRightly
PROPERTY PlanReturns
CHECK_DEADLOCK FALSE
