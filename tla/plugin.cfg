SPECIFICATION FairSpec
CONSTANTS
  Tabs = {1, 2, 3, 4}
  Jobs = {j1, j2}
  Unusable = {j2}
  Budget = 3
  Windows = {w1, w2}
  Counts = {1, 2}
  MaxQueries = 2
  None = None
CHECK_DEADLOCK FALSE
INVARIANTS TypeOK OnlyLastLaunch LaunchSurvives EnsureKnows
PROPERTIES JobsAnswered
