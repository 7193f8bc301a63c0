SPECIFICATION Spec
CONSTANTS
  c1 = c1
  c2 = c2
  p1 = p1
  p2 = p2
  p3 = p3
  Clients = {c1}
  Internals = {}
  Pullers = {p1, p2}
  Workers = {w1, w2}
  MaxReq = 1
  Circuits = 2
  Breakable <- AllConns
  BusyMayBreak = TRUE
  MayDrop = FALSE
  MayFail = FALSE
  MayShutdown = FALSE
  Fassert = TRUE
  None = None
  Err500 = Err500
CHECK_DEADLOCK FALSE
INVARIANT PullerIsThere
