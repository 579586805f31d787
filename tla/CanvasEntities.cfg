SPECIFICATION Spec
CONSTANTS
  ControlModels <- SomeControlModels
  RefModels <- SomeRefModels
  Bases = {"sdxl", "flux"}
  MaxEntities = 3
  MaxChanges = 5
CHECK_DEADLOCK FALSE
INVARIANTS EntitiesInv UniqueIds RefsWellFormed
