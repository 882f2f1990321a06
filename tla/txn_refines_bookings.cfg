CONSTANTS
  root = root
  manager = manager
  c1 = c1
  Booking = {b1, b2}
  Facility = {f1}
  Slot = {s1, s2}
  Condo = {c1}
  User <- MCUser
  UserRole <- MCUserRole
  UserCondo <- MCUserCondo
  NoCondo = NoCondo
  NoRow = NoRow
  Worker = {w1}
  NoRequest = NoRequest
  Customer = {manager}
  Asked <- AnySlots
  Sent = {"pending", "approved", "rejected", "cancelled"}
  MayCrash = FALSE
  MayEdit = TRUE
  MayRaze = TRUE
  MayLeave = TRUE
SYMMETRY Symmetry
SPECIFICATION Spec
PROPERTY AtomicSpec
