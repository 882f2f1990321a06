CONSTANTS
  root = root
  manager = manager
  c1 = c1
  Booking = {b1, b2}
  Facility = {f1}
  Slot = {s1, s2}
  Condo = {c1}
  User <- MCUser
  UserRole <- MCUserRole
  UserCondo <- MCUserCondo
  NoCondo = NoCondo
  NoRow = NoRow
  Worker = {w1, w2}
  NoRequest = NoRequest
  Customer = {manager}
  Asked <- AnySlots
  Sent = {"approved", "rejected"}
  MayCrash = FALSE
  MayEdit = FALSE
  MayRaze = FALSE
  MayLeave = FALSE
SPECIFICATION Spec
INVARIANT RefusedSlotsAreKnown
