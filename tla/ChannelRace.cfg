CONSTANTS
  Jobs = {d1, d2}
  Workers = 1
  QueueSize = 1
  MaxRestarts = 0
  Bookings = {b1}
  Rooms = {1, 2}
  Stays = {1, 2}
  Cancellers = {c1, c2}
  Ops <- RaceOps
  None = None
SPECIFICATION Spec
SYMMETRY Symmetry
CHECK_DEADLOCK FALSE
INVARIANTS
  RoomSoldOnce OneLiveStay CancelledNets
