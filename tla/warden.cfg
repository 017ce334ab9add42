SPECIFICATION FairSpec
CONSTANTS
  Addrs = {a, b}
  Rules = {{a, b}}
  None = None
  Reads = {r1}
  MaxQueue = 2
INVARIANT AuditHolds
PROPERTY BusyEnds
