CONSTANTS
  root = root
  manager = manager
  c1 = c1
  Booking = {b1, b2}
  Facility = {f1}
  Slot = {s1}
  Condo = {c1}
  User <- MCUser
  UserRole <- MCUserRole
  UserCondo <- MCUserCondo
  NoCondo = NoCondo
  NoRow = NoRow
  Worker = {w1, w2}
  NoRequest = NoRequest
  Customer = {manager}
  Asked <- NotEmpty
  Sent = {"rejected"}
  MayCrash = TRUE
  MayEdit = FALSE
  MayRaze = TRUE
  MayLeave = TRUE
SYMMETRY Symmetry
ACTION_CONSTRAINT DestroysUndisturbed
SPECIFICATION Spec
INVARIANT TypeOK ClashesNeedARace UndisturbedReadsAreFresh RefusalsAreToldInTurn DeadlocksNeedADestruction NoBookingIsLeftBehind
PROPERTY SlotsLostOnlyWhenDisturbed
