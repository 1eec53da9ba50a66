CONSTANTS
  Tasks = {t1}
  Workers = {w1}
  Cids = {c1}
  None = None
  Named = {t1}
  DockerFaults = {}
  PostStates <- SentStates
  UpdaterRuns = FALSE
  MaxQueue = 1
  StoreFaults = {}
SPECIFICATION LSpec
INVARIANT ShutdownStopsAll
