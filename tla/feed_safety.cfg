CONSTANTS
  Client = {c1}
  f1 = f1
  f2 = f2
  d1 = d1
  Flow = {f1, f2}
  Detail = {d1}
  Absent = Absent
  Unknown = Unknown
  RingCapacity = 2
  WireCap = 2
  MaxWorlds = 4
  MaxTick = 1
  MaxLosses = 1
  MaxDisruptions = 1
CHECK_DEADLOCK FALSE
SYMMETRY Symmetry
SPECIFICATION Spec
INVARIANTS HandOff FaithfulMirror GapsHold QuietIsCurrent
PROPERTY Broadcasts
