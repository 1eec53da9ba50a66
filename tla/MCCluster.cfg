CONSTANTS
  Tasks = {t1}
  Workers = {w1, w2}
  Clients = {k1}
  Cids = {c1, c2, c3}
  None = None
  TaskRestartMax = 3
  SubmitStates = {"Scheduled"}
  MaxSubmits = 1
  MaxStops = 0
  PostOutcomes = {"created", "rejected", "unreachable"}
  StoreFaults = {}
  NoCandidate = TRUE
  Named = {}
  DockerFaults = {"stop"}
  PostStates = {"Scheduled", "Completed"}
  UpdaterRuns = TRUE
  MaxQueue = 2
  LateReplies = {"restart"}
  FalseAlarms = TRUE
  WorkerReplies <- NoReplies
SYMMETRY Symmetry
SPECIFICATION Spec
INVARIANTS OneWorker
