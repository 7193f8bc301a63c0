SPECIFICATION Spec
CONSTANTS
  c1 = c1
  c2 = c2
  p1 = p1
  p2 = p2
  p3 = p3
  Clients = {c1}
  Internals = {a1}
  Pullers = {p1, p2}
  Workers = {w1, w2}
  MaxReq = 2
  Circuits = 2
  Breakable <- AllConns
  BusyMayBreak = TRUE
  MayDrop = TRUE
  MayFail = TRUE
  MayShutdown = FALSE
  Fassert = FALSE
  None = None
  Err500 = Err500
CHECK_DEADLOCK FALSE
SYMMETRY Symmetry
CONSTRAINT InternalOnce
INVARIANTS TypeOK AnswersMatch SinglePlace SeqNoIsCurrent NoDoubleWork PullerServedOnce FreedUntracked
PROPERTIES ServiceSpec OnlyGonePullerLoses OnlyLostAnswersNeglect
