\* TripConcurrent.cfg
SPECIFICATION Spec
CONSTANTS
  User = {u1, u2, u3, u4}
  Req = {r1, r2}
  Cap = 2
  PaletteSize = 1
  Role = {"owner", "member"}
  Op = {"join", "leave", "role"}
  ClientSerial = FALSE
  NoUser = NoUser
  u1 = u1
  u2 = u2
  u3 = u3
  u4 = u4
  r1 = r1
  r2 = r2
SYMMETRY Symmetry
INVARIANTS
  OvershootBound
PROPERTIES
  RoleAuthority
