CONSTANTS
  Tasks = {t1}
  Workers = {w1}
  Clients = {k1}
  Cids <- NumberedCids
  None = None
  TaskRestartMax = 3
  SubmitStates = {"Scheduled"}
  MaxSubmits = 1
  MaxStops = 1
  PostOutcomes = {"created", "rejected"}
  StoreFaults = {}
  NoCandidate = FALSE
  Named = {}
  DockerFaults = {"stop", "create"}
  PostStates = {"Scheduled", "Completed"}
  UpdaterRuns = FALSE
  MaxQueue = 2
  LateReplies = {"stop"}
  FalseAlarms = TRUE
  WorkerReplies <- NoReplies
CONSTRAINT IdsInOrder
SPECIFICATION FairSpec
PROPERTIES StatusConverges WorkerContract
