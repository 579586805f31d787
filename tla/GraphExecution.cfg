SPECIFICATION Spec
CONSTANTS
  GraphSet <- Regular
  NoNode = NoNode
  NoClass = NoClass
CHECK_DEADLOCK FALSE
INVARIANTS GraphInv UnselectedNeverRuns IterationsExact ItemsInOrder EndIsComplete
PROPERTIES RunsOnce
