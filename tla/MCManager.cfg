CONSTANTS
  Tasks = {t1}
  Workers = {w1, w2}
  Clients = {c1}
  Cids = {}
  None = None
  TaskRestartMax = 3
  SubmitStates = {"Scheduled"}
  MaxSubmits = 1
  MaxStops = 1
  WorkerReplies <- SingleReports
  PostOutcomes = {"created", "rejected", "unreachable"}
  StoreFaults = {"put"}
  NoCandidate = TRUE
SYMMETRY WorkerSymmetry
SPECIFICATION Spec
INVARIANTS TypeOK RoutingConsistent RestartBudget
PROPERTIES ReportsNeverResurrect
