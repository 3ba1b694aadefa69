CONSTANTS
  Rooms = {r1, r2}
  Stays = {s1, s2}
  Desks = {d1, d2}
  LastDay = 2
  PromoLimit = 1
  MaxUnits = 1
  MaxTasks = 1
  Ops <- AllOps
  None = None
SPECIFICATION SceneSpec
SYMMETRY Symmetry
CHECK_DEADLOCK FALSE
INVARIANTS
  LifecycleConsistent PromoWithinLimit 
  OneDeskPriceMatchesStay
 
