\* Two updates of two jobs each, one job at a time: every webhook is answered.
SPECIFICATION LiveSpec
CONSTANTS
  u1 = u1  u2 = u2  u3 = u3  u4 = u4  u5 = u5  u6 = u6
  Updates = {u1, u2}
  TicketIDs <- MCTicketIDs
  Sep <- MCSep
  Trackers <- TwoTrackers
  TaskIDs <- MCTaskIDs
  MaxTasks = 3
  MaxTickets = 4
  From <- MirrorFrom
  Trigger <- MirrorTrigger
  Jobs = {"toItem", "toIssue"}
  Blocks = {"toItem", "toIssue"}
  On <- PairOn
  Body <- MirrorBody
  Rpc = {}
  Silent = {}
  InitialTasks <- TwoIssues
  MaxConcurrentUpdates = 1
  Faults = {"expire", "fail", "lost"}
  MaxCrashes = 0
PROPERTY HandlerReturns
CHECK_DEADLOCK FALSE
