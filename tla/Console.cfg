CONSTANTS
  a1 = a1
  a2 = a2
  r1 = r1
  r2 = r2
  h1 = h1
  h2 = h2
  m1 = m1
  m2 = m2
  Plans = {"basic", "pro"}
  Features = {"revenue"}
  Roles = {r1, r2}
  Requests = {a1, a2}
  Savers = {a1, a2}
  MaxEdits = 2
  MaxGateFaults = 1
  ByName <- Names
  DemoHotel = h1
  Staff = {u1}
  DefaultAdmin <- Admins
  StaffRoles = {"hotel_admin", "clerk"}
  Clerks = {a1, a2}
  MaxAccountFaults = 1
SPECIFICATION Spec
INVARIANTS
   OneStaffRole 
 
SYMMETRY Sym
CHECK_DEADLOCK FALSE
