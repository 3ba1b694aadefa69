CONSTANTS
  Jobs = {d1, d2}
  Workers = 1
  QueueSize = 1
  MaxRestarts = 0
  Bookings = {b1}
  Rooms = {1, 2}
  Stays = {1, 2}
  Cancellers = {c1}
  Ops <- TwiceOps
  None = None
SPECIFICATION Spec
CHECK_DEADLOCK FALSE
INVARIANT OneStayPerBooking
