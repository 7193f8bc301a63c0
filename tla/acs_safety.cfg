SPECIFICATION Spec
CONSTANTS
  n1 = n1
  n2 = n2
  badType = badType
  tooLong = tooLong
  expired = expired
  noInitial = noInitial
  noDelay = noDelay
  noWindow = noWindow
  noRedirect = noRedirect
  Pages = {a1}
  Pushers = {h1, h2}
  Rdv = rdv
  Nets = {n1, badType}
  Has <- MCHas
  Budget = 2
  MaxDances = 2
  None = None
CHECK_DEADLOCK FALSE
SYMMETRY Symmetry
INVARIANTS TypeOK OneDance NobodyLeftDancing DoneHasBridges
PROPERTIES NetStable ServiceSpec
