SPECIFICATION Spec
CONSTANTS
  u1 = u1
  u2 = u2
  q1 = q1
  d1 = d1
  MaxItems = 2
  MaxEvents = 1
  MaxSessions = 1
  MaxQueueSize = 2
  ClearOnStartup = {FALSE}
  MaxHistory = 1
  Users = {u1}
  AnyUser = AnyUser
  Callers = {u1}
  Queues = {q1}
  DefaultQueue = q1
  Batches <- OneBatch
  NoBatch = NoBatch
  Requests = {r1}
  ApiOps = {"enqueue", "delete"}
  Nodes = 1
  MaxRestarts = 0
CHECK_DEADLOCK FALSE
INVARIANTS ProcessorSurvives
