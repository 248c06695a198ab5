SPECIFICATION Spec
CONSTANTS
  c1 = c1
  c2 = c2
  p1 = p1
  p2 = p2
  p3 = p3
  NoSession = NoSession
  NoCall = NoCall
  Callers <- MCCallers
  Sessions <- MCSessions
  MaxConnections = 1
  MaxDedicated = 2
  QuerySql <- MCTransactions
  StreamSql <- MCNoSql
CHECK_DEADLOCK FALSE
INVARIANTS LoadsAreKept
