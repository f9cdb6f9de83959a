\* The plugin is away when the connection is found shut down.
SPECIFICATION Spec
CONSTANTS
  c1 = c1  c2 = c2
  Calls = {c1}
  Repeats = 3
  MaxConns = 2
INVARIANT NoPanic
CHECK_DEADLOCK FALSE
