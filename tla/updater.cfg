SPECIFICATION Spec
CONSTANTS
  MaxBuild = 3
  Checks = {c1, c2}
  Applies = {a1, a2}
  None = None
INVARIANTS TypeOK OfferedIsApplied SoloApplyIsSafe
PROPERTY NeverOlder
