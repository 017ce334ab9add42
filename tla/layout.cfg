CONSTANTS
  Flow = {1, 2}
  Group = {g, h}
  Dynamic = {force, process}
  Static = category
  Dense = 1
  Settle = 2
  RestTicks = 2
  MaxCommits = 2
  MaxPosted = 2
SPECIFICATION FairLayout
INVARIANTS DrawnRight QuietIsRest
CHECK_DEADLOCK FALSE
PROPERTY ComesToRest
