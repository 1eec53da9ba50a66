CONSTANTS
  Tasks = {t1, t2}
  Workers = {w1}
  Clients = {c1}
  Cids = {}
  None = None
  TaskRestartMax = 1
  SubmitStates = {"Scheduled"}
  MaxSubmits = 1
  MaxStops = 1
  WorkerReplies <- LiveReports
  PostOutcomes = {"created", "unreachable"}
  StoreFaults = {}
  NoCandidate = FALSE
SPECIFICATION FairSpec
INVARIANTS SubmissionNotLost
PROPERTIES SubmittedIsDispatched
