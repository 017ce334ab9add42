CONSTANTS
  Addr = {p, x, y, z}
  Protected = {p}
  MaxBlocked = 2
  MaxFailures = 2
SPECIFICATION Spec
INVARIANTS NeverProtected CapHolds ListIsTrue ViewsHold StopLeavesOnlyLate
PROPERTY IsBlockList
