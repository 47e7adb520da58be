\* QueueDurable.cfg
SPECIFICATION Spec
CONSTANTS
  Trip = {t1}
  Ctl = {c1, c2}
  MaxFix = 3
  MaxEntries = 2
  MaxKills = 1
  Overlap = FALSE
  Leaky = FALSE
  NoTrip = NoTrip
  t1 = t1
  c1 = c1
  c2 = c2
SYMMETRY Symmetry
INVARIANTS
  IInv
  NoFrameLost
  KeyOrder
  KeepsNewest
  BadgeAgrees
  CopiesBounded

