SPECIFICATION Spec
CONSTANTS
  a = a
  b = b
  Names = {a, b}
  MaxDepth = 2
  MaxLayers = 3
  LayerSet <- SomeLayers
INVARIANTS HigherOverrides
CHECK_DEADLOCK FALSE
