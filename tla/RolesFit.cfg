\* RolesFit.cfg
SPECIFICATION SchemaSpec
CONSTANTS
  r1 = r1
  Run = {r1}
  Goals = {0, 3}
  Written <- MCWritten
INVARIANTS
  RolesFit
