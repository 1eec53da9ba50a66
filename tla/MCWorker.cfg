CONSTANTS
  Tasks = {t1}
  Workers = {w1}
  Cids = {c1, c2}
  None = None
  Named = {t1}
  DockerFaults <- Calls
  PostStates <- SentStates
  UpdaterRuns = TRUE
  MaxQueue = 2
SPECIFICATION WSpec
INVARIANTS WTypeOK RunningHasContainer NamedIsRemoved
PROPERTIES CompletedIsTerminal
