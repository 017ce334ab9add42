CONSTANTS
  Client = {c1}
  f1 = f1
  f2 = f2
  d1 = d1
  Flow = {f1, f2}
  Detail = {d1}
  Absent = Absent
  Unknown = Unknown
  RingCapacity = 1
  WireCap = 2
  MaxWorlds = 3
  MaxTick = 1
  MaxLosses = 2
  MaxDisruptions = 1
CHECK_DEADLOCK FALSE
SPECIFICATION FairSpec
PROPERTIES KeptWorldShown GapHeals
