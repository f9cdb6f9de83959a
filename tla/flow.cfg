CONSTANTS
  Trackers = {"gh", "rpc", "gh/rpc"}
  Triggers = {"t", "u"}
  Blocks = {"j1", "j2", "body"}
  Parts = {"", "gh", "rpc", "call"}
  Drivers = {"github", "rpc", "jira"}
  Documents <- SomeDocuments
SPECIFICATION Spec
INVARIANTS FlowTypeOK NoPanic ValidatedExactly JobsGrouped
CHECK_DEADLOCK FALSE
