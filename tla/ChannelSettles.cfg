CONSTANTS
  Jobs = {d1, d2, d3}
  Workers = 1
  QueueSize = 1
  MaxRestarts = 1
  Bookings = {b1}
  Rooms = {1}
  Stays = {1, 2, 3}
  Cancellers = {}
  Ops <- SettleOps
  None = None
SPECIFICATION FairSpec
CHECK_DEADLOCK FALSE
INVARIANT DrainRunsAll
PROPERTY DeliverySettles
