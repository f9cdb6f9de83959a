\* Overlapping updates, with every fault.
SPECIFICATION OverlappingSpec
CONSTANTS
  u1 = u1  u2 = u2  u3 = u3  u4 = u4  u5 = u5  u6 = u6
  Updates = {u1, u2, u3, u4}
  TicketIDs <- MCTicketIDs
  Sep <- MCSep
  Trackers <- ThreeTrackers
  TaskIDs <- MCTaskIDs
  MaxTasks = 3
  MaxTickets = 5
  From <- MixedFrom
  Trigger <- MixedTrigger
  Jobs = {"toItem", "toIssue", "fromLine"}
  Blocks = {"toItem", "toIssue", "fromLine", "create"}
  On <- MixedOn
  Body <- MixedBody
  Rpc <- JustRpc
  Silent <- JustLog
  InitialTasks <- OneIssue
  MaxConcurrentUpdates = 15
  Faults = {"fail", "lost", "skip"}
  MaxCrashes = 1
INVARIANTS RefsSound Ownership Isolation CallsOwnIssue
PROPERTY ImplementsIssueLinks
SYMMETRY Symmetry
CHECK_DEADLOCK FALSE
