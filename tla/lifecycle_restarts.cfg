\* Restarts under changing configurations, with every fault.
SPECIFICATION OrderedSpec
CONSTANTS
  i1 = i1  i2 = i2  i3 = i3  i4 = i4  r1 = r1  r2 = r2  r3 = r3  r4 = r4
  SubTrackers = {"gh", "rpc"}
  SubTriggers = {"issues", "items"}
  Places = {1, 2}
  SubIDs = {i1, i2, i3, i4}
  HookRefs = {r1, r2, r3, r4}
  PairSep = ":"
  Configs <- ChangingConfigs
  RpcHooks = {"rpc"}
  Strict = {"rpc"}
  Trouble = {"signal", "crash", "fail", "refuse", "lost", "skip"}
  MaxStarts = 2
  MaxTrouble = 1
INVARIANTS TypeOK IndexConsistent RefsOwnHook ListeningComplete NextStartFree
PROPERTY EntryOutlivesHook
CHECK_DEADLOCK FALSE
