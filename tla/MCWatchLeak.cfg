SPECIFICATION Spec
CONSTANTS
  c = c
  s = s
  t = t
  Watches = {c, s, t}
  Transport <- MCTransport
INVARIANTS ClosedMeansClosed
CHECK_DEADLOCK FALSE
