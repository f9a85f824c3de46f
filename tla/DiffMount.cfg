SPECIFICATION DiffSpec
CONSTANTS
  a = a
  b = b
  Names = {a, b}
  MaxDepth = 2
  MaxCalls = 3
  LowerTrees <- SomeTrees
INVARIANTS DiffIsExact
PROPERTIES PruneKeepsFiles
VIEW Mount
CHECK_DEADLOCK FALSE
