SPECIFICATION Spec
CONSTANTS
  FileSystem <- Disk
  Configs <- SomeConfigs
  Requests <- SomeRequests
  Contents <- SomeContents
  RepoAt <- Repo
  MaxStates = 3
INVARIANTS TypeOK CallsAreAllowed  SocketIsOwn CommitTellsTruth StreamIsFaithful  NoCommitSkipped 
 
CHECK_DEADLOCK FALSE
