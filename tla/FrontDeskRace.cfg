CONSTANTS
  Rooms = {r1}
  Stays = {s1, s2}
  Desks = {d1, d2}
  LastDay = 2
  PromoLimit = 1
  MaxUnits = 1
  MaxTasks = 1
  Ops <- CalendarOps
  None = None
SPECIFICATION BookingsSpec
SYMMETRY Symmetry
CHECK_DEADLOCK FALSE
INVARIANT NoDoubleBooking
PROPERTY CalendarSpec
