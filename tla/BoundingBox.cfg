SPECIFICATION Spec
CONSTANTS
  Bases = {"sd-1", "cogview4"}
  Ids = {"1:1", "16:9", "9:16"}
  Presets <- TwoPresets
  Sizes = {8, 104}
  Drags = {4, 64}
  Layers = {3, 40}
  Images <- WideImage
  MaxSide = 256
  MaxChanges = 5
CHECK_DEADLOCK FALSE
INVARIANTS BoxInv ShapeFollowsRatio AutoScaledFits
