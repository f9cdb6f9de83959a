\* A signal while a subscription is being made leaves its webhook behind.
SPECIFICATION OrderedSpec
CONSTANTS
  i1 = i1  i2 = i2  i3 = i3  i4 = i4  r1 = r1  r2 = r2  r3 = r3  r4 = r4
  SubTrackers = {"gh", "rpc"}
  SubTriggers = {"issues", "items"}
  Places = {1, 2}
  SubIDs = {i1, i2, i3, i4}
  HookRefs = {r1, r2, r3, r4}
  PairSep = ":"
  Configs <- SteadyConfigs
  RpcHooks = {}
  Strict = {}
  Trouble = {"signal"}
  MaxStarts = 1
  MaxTrouble = 0
INVARIANT HooksUnset
CHECK_DEADLOCK FALSE
