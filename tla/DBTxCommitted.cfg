SPECIFICATION Spec
CONSTANTS
  Funcs = {f1, f2}
  Txs = {t1, t2}
  Conns = {c1, c2, c3}
  MaxOpen = 3
  NoTx = NoTx
  NoConn = NoConn
  ThePool = ThePool
  NoPool = NoPool
  f1 = f1
  f2 = f2
  t1 = t1
  t2 = t2
  c1 = c1
  c2 = c2
  c3 = c3
SYMMETRY Symmetry
INVARIANTS CommittedIsStored
