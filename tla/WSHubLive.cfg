SPECIFICATION FairSpec
CONSTANTS
  Conns = {c}
  Goroutines = {}
  Topics = {t}
  Messages = {m}
  QueueSize = 1
  Active = {c}
  Nobody = nobody
  NoConn = noconn
  NoFrame = noframe
  Control = control
  CloseFrame = closeframe
CHECK_DEADLOCK FALSE
INVARIANTS EndsClosed
PROPERTIES AcceptedWritten BroadcastEnds ClosedConnEnds
