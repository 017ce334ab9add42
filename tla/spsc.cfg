CONSTANTS
  Item = {a, b}
  Uninit = Uninit
  Capacity = 2
  CursorModulus = 8
  DropModulus = 2
SPECIFICATION Spec
INVARIANT RingSafe
PROPERTY IsFifo
CHECK_DEADLOCK FALSE
