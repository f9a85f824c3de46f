SPECIFICATION Spec
CONSTANTS
  a = a
  b = b
  Names = {a, b}
  MaxDepth = 2
  LowerTrees <- SomeTrees
  CommitOrder <- SomeOrder
PROPERTY DeletedStaysDeleted
VIEW Mount
