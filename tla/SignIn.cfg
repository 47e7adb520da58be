\* Two verifications at a time, two codes, one death; a window of two units
\* and a cooldown of three.
SPECIFICATION Spec
CONSTANTS
  Slot = {r1, r2}
  OtpTtl = 2
  Window = 2
  Threshold = 3
  Cooldown = 3
  MaxNow = 4
  MaxCodes = 2
  MaxDeaths = 1
SYMMETRY SlotSymmetry
INVARIANTS
  CodeSpentOnce
  GuessesBounded
  OwnerGetsIn
