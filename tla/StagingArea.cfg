SPECIFICATION Spec
CONSTANTS
  Items = {1, 2}
  Outputs <- FirstMakesTwo
  Ends = {"completed", "canceled"}
  Modes = {"switch_on_start", "switch_on_finish"}
  MaxSessions = 2
  MaxWire = 1
  MaxCalls = 1
  Sequenced = TRUE
  ImagesFail = FALSE
CHECK_DEADLOCK FALSE
INVARIANTS StagingInv
PROPERTIES NeverOlder DiscardedStaysAway SelectionKept
