CONSTANTS
  Tasks = {t1}
  Workers = {w1, w2}
  Clients = {c1, c2}
  Cids = {}
  None = None
  TaskRestartMax = 1
  SubmitStates = {"Scheduled"}
  MaxSubmits = 1
  MaxStops = 0
  WorkerReplies <- SingleReports
  PostOutcomes = {"created", "unreachable"}
  StoreFaults = {}
  NoCandidate = FALSE
SPECIFICATION Spec
PROPERTY RequeuedWorkIsKept
