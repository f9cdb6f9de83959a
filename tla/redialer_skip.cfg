\* The call that redials answers nil.
SPECIFICATION Spec
CONSTANTS
  c1 = c1  c2 = c2
  Calls = {c1}
  Repeats = 3
  MaxConns = 2
INVARIANT OkMeansExecuted
CHECK_DEADLOCK FALSE
