CONSTANTS
  Tasks = {t1}
  Workers = {w1}
  Cids = {c1, c2}
  None = None
  Named = {t1}
  DockerFaults = {"create"}
  PostStates <- SentStates
  UpdaterRuns = FALSE
  MaxQueue = 2
  StoreFaults = {"put", "get", "list"}
SPECIFICATION LFairSpec
INVARIANTS NoOrphans QuietShutdownIsClean
PROPERTIES ShutdownEnds ListedIsGone
