SPECIFICATION Spec
CONSTANTS
  k1 = k1
  k2 = k2
  Invocations = {"range", "add", "collect", "if"}
  Connectors = {k1, k2}
  Kind <- SomeKinds
  Inputs <- SomeInputs
  Outputs <- SomeOutputs
  MaxEdges = 4
  MaxSelected = 2
SYMMETRY ConnectorSymmetry
CHECK_DEADLOCK FALSE
INVARIANTS EditorInv
PROPERTIES ConnectorsAreTransparent
