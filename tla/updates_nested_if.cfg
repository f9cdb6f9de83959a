\* The steps of the job are under an if: the second update makes a second item.
SPECIFICATION InOrderSerialSpec
CONSTANTS
  u1 = u1  u2 = u2  u3 = u3  u4 = u4  u5 = u5  u6 = u6
  Updates = {u1, u2}
  TicketIDs <- MCTicketIDs
  Sep <- MCSep
  Trackers <- TwoTrackers
  TaskIDs <- MCTaskIDs
  MaxTasks = 3
  MaxTickets = 4
  From <- MirrorFrom
  Trigger <- MirrorTrigger
  Jobs = {"toItem"}
  Blocks = {"toItem", "create"}
  On <- NestedOn
  Body <- NestedBody
  Rpc = {}
  Silent = {}
  InitialTasks <- TwoIssues
  MaxConcurrentUpdates = 15
  Faults = {}
  MaxCrashes = 0
INVARIANT NoDuplicateTasks
CHECK_DEADLOCK FALSE
