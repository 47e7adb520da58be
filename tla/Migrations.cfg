\* Migrations.cfg
SPECIFICATION SchemaSpec
CONSTANTS
  r1 = r1
  r2 = r2
  Run = {r1, r2}
  Goals = {0, 1, 2, 3}
  Written <- MCWritten
SYMMETRY Symmetry
INVARIANTS
  SchemaIsRevision
  StoredWordsFit
  HeadServesHandlers
PROPERTIES
  OnlyRolesBlock
