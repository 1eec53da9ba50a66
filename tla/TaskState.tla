----------------------------- MODULE TaskState -----------------------------
(***************************************************************************)
(* The task state machine of internal/task/task.go. It is consulted in     *)
(* three places: by the manager before it forwards a stop, by the manager  *)
(* when it merges a worker's report, and by the worker before it acts on   *)
(* an entry of its queue.                                                  *)
(***************************************************************************)

Pending   == "Pending"
Scheduled == "Scheduled"
Running   == "Running"
Completed == "Completed"
Failed    == "Failed"

State == {Pending, Scheduled, Running, Completed, Failed}

(* The edges of NewStateMachine. Completed has none: it is terminal.       *)
machine ==
  [ s \in State |->
      CASE s = Pending   -> {Scheduled}
        [] s = Scheduled -> {Scheduled, Running, Failed}
        [] s = Running   -> {Running, Completed, Failed, Scheduled}
        [] s = Completed -> {}
        [] s = Failed    -> {Scheduled} ]

IsValidTransition(cur, next) == next \in machine[cur]
=============================================================================
