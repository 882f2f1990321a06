CONSTANTS
  root = root
  manager = manager
  resident = resident
  c1 = c1
  c2 = c2
  Booking = {b1, b2}
  Facility = {f1}
  Slot = {s1, s2}
  Condo = {c1}
  User <- MCUser
  UserRole <- MCUserRole
  UserCondo <- MCUserCondo
  NoCondo = NoCondo
  NoRow = NoRow
  MayMove = FALSE
SPECIFICATION Spec
PROPERTY BookedWithinSchedule
