SPECIFICATION FairSpec
CONSTANTS
  Tabs = {1, 2}
  Jobs = {j1}
  Unusable = {}
  Budget = 1
  Windows = {w1}
  Counts = {1}
  MaxQueries = 2
  None = None
CHECK_DEADLOCK FALSE
INVARIANTS FailureReported
