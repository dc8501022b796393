SPECIFICATION PacedSpec
CONSTANTS
  Files = {1, 2, 3}
  Reviewable = {1, 2}
  Shapes <- PullRequests
  HeaderSize = 1
  ReviewBudget = 3
  FilesApiLimit = 3
  ReviewWorkers = 2
  PerCall = 1
  Context = 1
  CapUsd = 18
  MaxPushes = 2
INVARIANTS
  GreenMeansRead
  ChunksCoverDiff
PROPERTY
  AlwaysGraded
CHECK_DEADLOCK FALSE
