SPECIFICATION Spec
CONSTANTS
  Conns = {c1, c2, c3}
  Threads = {t1, t2}
  QueueCap = 2
  Clients = {a, b}
  Turns = 3
  SessionLimit = 1
  ReadCap = 2
  MaxHash = 3
  MaxRestarts = 1
SYMMETRY Symmetry
CONSTRAINT Apart
\* when every client has made its connection, the server waits
CHECK_DEADLOCK FALSE
INVARIANTS TypeOK ConnsOwned TurnsKept ChainHolds
PROPERTY DamageIsFound
