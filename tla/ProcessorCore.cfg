SPECIFICATION FairSpec
CONSTANTS
  u1 = u1
  u2 = u2
  q1 = q1
  d1 = d1
  MaxItems = 2
  MaxEvents = 1
  MaxSessions = 1
  MaxQueueSize = 2
  ClearOnStartup = {TRUE, FALSE}
  MaxHistory = 0
  Users = {u1}
  AnyUser = AnyUser
  Callers = {u1}
  Queues = {q1}
  DefaultQueue = q1
  Batches <- OneBatch
  NoBatch = NoBatch
  Requests = {r1}
  ApiOps = {"enqueue", "delete", "pause", "resume", "stop"}
  Nodes = 2
  MaxRestarts = 1
CHECK_DEADLOCK FALSE
INVARIANTS IInv InProgressIsHeld AtMostOnce ErroredNeverCompleted CanceledRunsOneNode
PROPERTIES EveryItemSettles StopEndsProcessor ImplementsContract
