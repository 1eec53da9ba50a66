CONSTANTS
  Tasks = {t1}
  Workers = {w1}
  Cids = {c1}
  None = None
  Named = {t1}
  DockerFaults = {}
  PostStates = {"Scheduled"}
  UpdaterRuns = FALSE
  MaxQueue = 1
SPECIFICATION WFairSpec
PROPERTIES ExitIsNoticed
