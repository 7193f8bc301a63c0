SPECIFICATION FairSpec
CONSTANTS
  n1 = n1
  n2 = n2
  badType = badType
  tooLong = tooLong
  expired = expired
  noInitial = noInitial
  noDelay = noDelay
  noWindow = noWindow
  noRedirect = noRedirect
  Pages = {a1}
  Pushers = {h1}
  Rdv = rdv
  Nets = {n1, n2, badType, tooLong, expired, noInitial, noDelay, noWindow, noRedirect}
  Has <- MCHas
  Budget = 2
  MaxDances = 1
  None = None
CHECK_DEADLOCK FALSE
INVARIANT DoneWasDanced
PROPERTIES DanceEnds PollEnds
