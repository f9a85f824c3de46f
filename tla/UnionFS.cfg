SPECIFICATION Spec
CONSTANTS
  a = a
  b = b
  Names = {a, b}
  MaxDepth = 2
  LowerTrees <- SomeTrees
  CommitOrder <- SomeOrder
INVARIANTS TypeOK UpperIsTree   ReadyToCommit
PROPERTIES   CrashIsLocal CrashKeepsData
VIEW Mount
