CONSTANTS
  Rooms = {r1}
  Stays = {s1}
  Desks = {d1, d2}
  LastDay = 1
  PromoLimit = 1
  MaxUnits = 1
  MaxTasks = 1
  Ops <- RaceOps
  None = None
SPECIFICATION Spec
SYMMETRY Symmetry
CHECK_DEADLOCK FALSE
PROPERTIES
  NeverResurrected
