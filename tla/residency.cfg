CONSTANTS
  User = {root, ann}
  Unit = {n1, n2}
  Condo = {c1, c2}
  Invitation = {i1}
  GivenRole = {"house_owner", "house_member"}
  Seeded = root
  NoCondo = NoCondo
  NoUnit = NoUnit
  NoUser = NoUser
  NoRow = NoRow
SYMMETRY Symmetry
SPECIFICATION Spec
INVARIANT TypeOK NothingDangles
PROPERTY SavedUsersAgree MovesAreComplete
