CONSTANTS
  Tasks = {t1}
  Workers = {w1, w2}
  Clients = {c1, c2}
  Cids = {}
  None = None
  TaskRestartMax = 1
  SubmitStates = {"Scheduled"}
  MaxSubmits = 1
  MaxStops = 1
  WorkerReplies <- LiveReports
  PostOutcomes = {"created"}
  StoreFaults = {}
  NoCandidate = FALSE
SPECIFICATION Spec
PROPERTY HealthLeavesStoppedAlone
