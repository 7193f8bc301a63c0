SPECIFICATION FairSpec
CONSTANTS
  Onions <- PowOnions
  Searches = {s1, s2}
  MaxLoads = 2
  InFlight = 2
  None = None
CHECK_DEADLOCK FALSE
INVARIANTS TypeOK  FilesKnown
PROPERTIES FailureIsReal PollingEnds ServiceSpec
