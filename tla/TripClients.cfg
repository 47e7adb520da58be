\* TripClients.cfg
SPECIFICATION FairSpec
CONSTANTS
  User = {u1, u2}
  Req = {r1, r2}
  Cap = 2
  PaletteSize = 2
  Role = {"owner", "member"}
  Op = {"join", "leave", "ghost", "share", "ready", "end"}
  ClientSerial = TRUE
  NoUser = NoUser
  u1 = u1
  u2 = u2
  r1 = r1
  r2 = r2
INVARIANTS
  NoServerError
PROPERTIES
  NoLateJoin
  ReadYourWrites
  MembershipSettles
