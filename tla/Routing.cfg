\* One request for directions beside the ETAs of two members.
SPECIFICATION FairSpec
CONSTANTS
  Directions = {d1}
  Rows = {r1, r2}
  Case <- MCCase
  Lifetime = {3}
  Patience = 1
  Skew = 2
  MaxNow = 3
  WeatherWant = 4
  HeightWant = 4
  Nobody = Nobody
CHECK_DEADLOCK FALSE
INVARIANTS
  TokenGood
  
  
PROPERTIES
  Resolves
  AllAnswered
