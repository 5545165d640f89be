SPECIFICATION Spec
CONSTANTS
  Conns = {c1, c2}
  Goroutines = {g}
  Topics = {t}
  Messages = {m1, m2}
  QueueSize = 1
  Active = {}
  Nobody = nobody
  NoConn = noconn
  NoFrame = noframe
  Control = control
  CloseFrame = closeframe
SYMMETRY Symmetry
CHECK_DEADLOCK FALSE
INVARIANTS MembersReached
PROPERTIES ImplementsOutbox
