\* Mirroring in both directions, updates one after the other, with faults and a crash.
SPECIFICATION InOrderSerialSpec
CONSTANTS
  u1 = u1  u2 = u2  u3 = u3  u4 = u4  u5 = u5  u6 = u6
  Updates = {u1, u2, u3, u4, u6}
  TicketIDs <- MCTicketIDs
  Sep <- MCSep
  Trackers <- ThreeTrackers
  TaskIDs <- MCTaskIDs
  MaxTasks = 4
  MaxTickets = 6
  From <- PrintedFrom
  Trigger <- PrintedTrigger
  Jobs = {"toItem", "toIssue", "fromLine"}
  Blocks = {"toItem", "toIssue", "fromLine"}
  On <- PrintedOn
  Body <- PrintedBody
  Rpc <- JustRpc
  Silent <- JustLog
  InitialTasks <- TwoIssues
  MaxConcurrentUpdates = 15
  Faults = {"expire", "fail", "lost"}
  MaxCrashes = 1
INVARIANTS TypeOK NoDuplicateTasks DoneLinks OneTicketPerTask
PROPERTY LinksKept
CHECK_DEADLOCK FALSE
