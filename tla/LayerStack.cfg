SPECIFICATION Spec
CONSTANTS
  a = a
  b = b
  Names = {a, b}
  MaxDepth = 2
  MaxLayers = 3
  LayerSet <- SomeLayers
INVARIANTS TypeOK TreeIsOverlay ReadsOwnData
CHECK_DEADLOCK FALSE
