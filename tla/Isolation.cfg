SPECIFICATION Spec
CONSTANTS
  u1 = u1
  u2 = u2
  q1 = q1
  d1 = d1
  MaxItems = 2
  MaxEvents = 1
  MaxSessions = 1
  MaxQueueSize = 2
  ClearOnStartup = {FALSE}
  MaxHistory = 1
  Users = {u1, u2}
  AnyUser = AnyUser
  Callers = {u2}
  Queues = {q1}
  DefaultQueue = q1
  Batches <- TwoUsers
  NoBatch = NoBatch
  Requests = {r1}
  ApiOps = {"prepend", "cancel", "clear", "prune", "cancel_by_batch_ids", "cancel_by_destination", "delete_by_destination", "cancel_all_except_current", "delete_all_except_current", "retry"}
  Nodes = 1
  MaxRestarts = 0
PROPERTIES OthersUntouched NoOvertaking SavedProgressKept
