----------------------------- MODULE MCManager -----------------------------
(* Small instances of Manager for TLC.                                     *)
EXTENDS Manager, TLC

WorkerSymmetry == Permutations(Workers)

(* What a poll may return: an empty list, or one task in a state a worker  *)
(* stores; the tasks of a longer list are applied one lock at a time, so   *)
(* with several workers polled in one tick the same interleavings arise.   *)
ReportedStates == {Scheduled, Running, Completed, Failed}
SingleReports ==
  {{}} \cup {{[task |-> t, state |-> s, cid |-> None]} : t \in Tasks, s \in ReportedStates}

(* The same without Completed, which a worker only reports once it was     *)
(* told to stop the task: what the manager hears of a task left alone.     *)
LiveReports ==
  {{[task |-> t, state |-> s, cid |-> None]} : t \in Tasks, s \in {Running, Failed}}
=============================================================================
