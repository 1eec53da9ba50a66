CONSTANTS
  Tasks = {t1}
  Workers = {w1}
  Clients = {k1}
  Cids = {c1, c2}
  None = None
  TaskRestartMax = 1
  SubmitStates = {"Scheduled"}
  MaxSubmits = 1
  MaxStops = 1
  PostOutcomes = {"created"}
  StoreFaults = {}
  NoCandidate = FALSE
  Named = {}
  DockerFaults = {}
  PostStates = {"Scheduled", "Completed"}
  UpdaterRuns = FALSE
  MaxQueue = 2
  LateReplies = {}
  FalseAlarms = TRUE
  WorkerReplies <- NoReplies
SPECIFICATION FairSpec
PROPERTIES StopTakesEffect
