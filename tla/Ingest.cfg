\* Ingest.cfg
SPECIFICATION Spec
CONSTANTS
  Dhaba = Dhaba
  Fuel = Fuel
  NoPlace = NoPlace
  NoWaypoint = NoWaypoint
  Sock = {s1, s2}
  Place <- Places
  Waypoint = {Dhaba, Fuel}
  Dist <- Distances
  Radius <- Radii
  Mention <- OwnName
  Frame <- StopsAndBlank
  ArrivalWindow = 1
  AlertWindow = 2
  Replay = TRUE
  Faults = TRUE
  MaxClock = 1
  s1 = s1
  s2 = s2
SYMMETRY Symmetry
INVARIANTS
  IInv
  RepeatsBounded
  
  
