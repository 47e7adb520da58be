\* GatewayClean.cfg
SPECIFICATION Spec
CONSTANTS
  User = {u1, u2}
  Conn = {c1, c2}
  Pod = {p1}
  Kind = {"location", "message", "sos"}
  MaxMsgs = 1
  OneSocket = FALSE
  Faults = FALSE
  NoOne = NoOne
  u1 = u1
  u2 = u2
  c1 = c1
  c2 = c2
  p1 = p1
SYMMETRY Symmetry
INVARIANTS
  NoPhantomPresence
  GhostFramesDropped
  AbsentMembersPushed
  
