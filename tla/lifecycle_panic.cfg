\* An entry of a tracker that is not configured any more.
SPECIFICATION OrderedSpec
CONSTANTS
  i1 = i1  i2 = i2  i3 = i3  i4 = i4  r1 = r1  r2 = r2  r3 = r3  r4 = r4
  SubTrackers = {"gh", "rpc"}
  SubTriggers = {"issues", "items"}
  Places = {1, 2}
  SubIDs = {i1, i2, i3, i4}
  HookRefs = {r1, r2, r3, r4}
  PairSep = ":"
  Configs <- ShrinkingConfigs
  RpcHooks = {"rpc"}
  Strict = {}
  Trouble = {"crash"}
  MaxStarts = 2
  MaxTrouble = 1
INVARIANT ListenReturnsError
CHECK_DEADLOCK FALSE
