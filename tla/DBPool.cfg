SPECIFICATION FairSpec
CONSTANTS
  Callers = {a1, a2}
  Handles = {h1, h2, h3}
  Pools = {p1, p2}
  Conns = {c1, c2}
  MaxOpen = 1
  MaxIdle = 1
  NoCaller = NoCaller
  NoHandle = NoHandle
  NoPool = NoPool
  NoConn = NoConn
  a1 = a1
  a2 = a2
  a3 = a3
  h1 = h1
  h2 = h2
  h3 = h3
  p1 = p1
  p2 = p2
  c1 = c1
  c2 = c2
  c3 = c3
INVARIANTS ExclusiveConn NoLostConn PoolBound SlotsCounted OpenPoolRegistered RefsCounted
PROPERTIES ClosedForever ImplementsLease WaitersServed ClosedPoolDrains
