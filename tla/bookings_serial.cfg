CONSTANTS
  resident = resident
  root = root
  manager = manager
  c1 = c1
  c2 = c2
  Booking = {b1, b2}
  Facility = {f1, f2}
  Slot = {s1, s2}
  Condo = {c1}
  User <- Admins
  UserRole <- AdminRole
  UserCondo <- AdminCondo
  NoCondo = NoCondo
  NoRow = NoRow
  MayMove = TRUE
SYMMETRY Symmetry
SPECIFICATION Spec
INVARIANT TypeOK FacilityAndOwnerExist RefusalsAreTold ClashesAreReopened
PROPERTY SlotsNeverLost SlotsHaveAnOrigin DoubtHasACause
