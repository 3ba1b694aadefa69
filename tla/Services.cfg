SPECIFICATION Spec
CONSTANTS
  a1 = a1  a2 = a2  a3 = a3  a4 = a4  g1 = g1  b1 = b1  o1 = o1  o2 = o2
  \* Online payments
  Nobody = Nobody
  Requests = {a1, a2}
  Guests = {g1}
  Suites = {1}
  Bookings = {b1}
  Orders = {o1, o2}
  FxRates = {1, 2}
  MaxPayFaults = 1
  PayOps <- AllPayOps
  \* Bill splits
  Menus <- MCMenus
  TaxRate = 5
  Adjustments <- MCAdjustments
  MaxCustomers = 3
  AskedAmounts = {1, 20, 33}
  \* Room cache
  Hands = {a1, a2}
  Chambers = {1}
  ListKeys = {"all", "occupied", "out_of_order", "stats"}
  RoomStates = {"available", "occupied", "out_of_order"}
  MaxWrites = 2
  MaxCacheFaults = 1
  \* Request quota
  Hits = {a1, a2}
  Quota <- MCQuota
  Minutes = 1
  MaxArrivals = 4
  MaxRateFaults = 1
  \* Language-model providers
  Askers = {a1, a2}
  Keyed = {"cerebras", "groq"}
  Threshold = 2
  MaxSends = 8
  MaxClock = 1
  \* Loyalty points and linen
  Tellers = {a1, a2}
  PointSizes = {1, 2}
  MaxLifetime = 4
  MaxLoyaltyFaults = 1
  Porters = {a1, a2}
  Bundles = {1, 2}
  Stocked = 3
  MaxMoves = 5
  MaxLinenFaults = 1
  \* Pool connections
  Waiters = {a1, a2, a3, a4}
  Boards = {1, 2}
  MaxConns = 3
SYMMETRY RequestSymmetry
INVARIANTS
  BookedWholeOrNotAtAll SplitAddsUp  AdmittedWithinQuota
  BreakerHolds PointsMatchLog LinenConserved 
CHECK_DEADLOCK FALSE
