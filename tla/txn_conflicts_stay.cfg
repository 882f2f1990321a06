CONSTANTS
  root = root
  manager = manager
  c1 = c1
  Booking = {b1, b2}
  Facility = {f1}
  Slot = {s1}
  Condo = {c1}
  User <- MCUser
  UserRole <- MCUserRole
  UserCondo <- MCUserCondo
  NoCondo = NoCondo
  NoRow = NoRow
  Worker = {w1, w2}
  NoRequest = NoRequest
  Customer = {manager}
  Asked <- NotEmpty
  Sent = {"rejected"}
  MayCrash = FALSE
  MayEdit = FALSE
  MayRaze = FALSE
  MayLeave = FALSE
SPECIFICATION FairSpec
PROPERTY ConflictsAreResolved
