CONSTANTS
  a1 = a1
  a2 = a2
  v1 = v1
  v2 = v2
  blank = blank
  Tenants = {t1, t2}
  Slugs = {s1}
  Agents = {a1, a2}
  AdminHome = {}
  MaxTenancyFaults = 1
  Jobs = {a1, a2}
  Seconds = {1, 2}
  MaxBackupFaults = 1
  Servers = {v1, v2}
  Release <- Ships
  Statements = 2
  MaxCrashes = 3
  Admins = {a1, a2}
  MaxProperties = 3
  MaxBorn = 4
  Desks = {a1, a2}
  Docs = {d1, d2, d3}
  Typed = {d1, d2, d3}
  Numbered = {d2, d3}
  Contacts <- Stays
  Blank = blank
  Last10 <- Digits
  MaxGuests = 2
  MaxDiskFaults = 1
  Tills = {a1, a2}
  Subscribers = {p1}
  NoPhone = blank
  MaxCustomers = 3
  MaxAccountant = 1
SPECIFICATION Spec
INVARIANTS
     UpIsComplete OnePrimary
  FilesMatchRows OneGuestPerNumber OneCustomerPerPerson
SYMMETRY Sym
CHECK_DEADLOCK FALSE
