SPECIFICATION Spec
CONSTANTS
  Onions <- SignedOnions
  Searches = {s1, s2}
  MaxLoads = 2
  InFlight = 2
  None = None
CHECK_DEADLOCK FALSE
PROPERTY DanceHasNet
