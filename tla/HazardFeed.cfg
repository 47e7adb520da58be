\* Two requests at a time, a feed that changes, slow and failing answers.
SPECIFICATION Spec
CONSTANTS
  Slot = {r1, r2}
  Feed <- MCFeed
  Query <- MCQuery
  Ttl = 3
  Patience = 2
  MaxNow = 6
INVARIANTS
  AgeBounded
  
  
PROPERTIES
  BackwardsBounded
