\* Two calls of one plugin whose connections end.
SPECIFICATION FairSpec
CONSTANTS
  c1 = c1  c2 = c2
  Calls = {c1, c2}
  Repeats = 3
  MaxConns = 3
INVARIANTS TypeOK AtMostOnce
PROPERTIES ImplementsRemoteCall CallReturns
CHECK_DEADLOCK FALSE
