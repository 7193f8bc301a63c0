SPECIFICATION Spec
CONSTANTS
  n1 = n1
  n2 = n2
  badType = badType
  tooLong = tooLong
  expired = expired
  noInitial = noInitial
  noDelay = noDelay
  noWindow = noWindow
  noRedirect = noRedirect
  Pages = {a1}
  Pushers = {h1, h2}
  Rdv = rdv
  Nets = {n1}
  Has <- MCHas
  Budget = 1
  MaxDances = 2
  None = None
CHECK_DEADLOCK FALSE
INVARIANT DancedOnce
