\* GatewayFaults.cfg
SPECIFICATION Spec
CONSTANTS
  User = {u1, u2}
  Conn = {c1, c2}
  Pod = {p1, p2}
  Kind = {"message", "location"}
  MaxMsgs = 1
  OneSocket = TRUE
  Faults = TRUE
  NoOne = NoOne
  u1 = u1
  u2 = u2
  c1 = c1
  c2 = c2
  p1 = p1
  p2 = p2
SYMMETRY Symmetry
INVARIANTS
  PresenceComplete
