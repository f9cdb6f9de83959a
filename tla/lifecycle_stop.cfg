\* Webhooks through two lives of a process whose trigger moves between trackers.
SPECIFICATION LiveServerSpec
CONSTANTS
  i1 = i1  i2 = i2  i3 = i3  i4 = i4  r1 = r1  r2 = r2  r3 = r3  r4 = r4
  SubTrackers = {"gh", "rpc"}
  SubTriggers = {"issues", "items"}
  Places = {1, 2}
  SubIDs = {i1, i2, i3, i4}
  HookRefs = {r1, r2, r3, r4}
  PairSep = ":"
  Configs <- ServerConfigs
  RpcHooks = {"rpc"}
  Strict = {}
  Trouble = {"signal", "crash", "fail", "refuse", "lost", "skip"}
  MaxStarts = 2
  MaxTrouble = 1
  Deliveries = {"d1"}
INVARIANTS ServerTypeOK Attributed RunsRegistered RunsConfigured
PROPERTIES KeptWhenReady Terminates
CHECK_DEADLOCK FALSE
