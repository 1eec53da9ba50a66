------------------------------ MODULE Cluster ------------------------------
(***************************************************************************)
(* One manager and its workers. Their variables are shared by name with    *)
(* the two component modules; a step is a step of one component that       *)
(* touches no network, or an HTTP exchange: the manager's half and the     *)
(* worker's handler together.                                              *)
(*                                                                         *)
(* A request that meets a dead connection does not reach the worker. One   *)
(* of LateReplies may also reach it and be answered after the client's     *)
(* timeout: the manager cannot tell the two apart.                         *)
(***************************************************************************)
EXTENDS TaskState, Naturals, Sequences, FiniteSets

CONSTANTS
  Tasks, Workers, Clients, Cids, None,
  TaskRestartMax, SubmitStates, MaxSubmits, MaxStops,
  WorkerReplies, PostOutcomes, StoreFaults, NoCandidate,
  Named, DockerFaults, PostStates, UpdaterRuns, MaxQueue,
  LateReplies,   \* the requests that may be answered after the timeout
  FalseAlarms    \* whether the probe of a running container may fail

VARIABLES
  pending, taskDb, eventDb, workerTaskMap, taskWorkerMap, send, health, up, api,
  submits, stops,
  wDb, wQueue, run, upd, stop, docker

M == INSTANCE Manager
W == INSTANCE Worker

(* The assumptions of the two components, and that the worker is told of   *)
(* every state the manager sends: what clients submit, the Scheduled of a  *)
(* restart and the Completed of a stop.                                    *)
ASSUME ClusterAssumption ==
  /\ None \notin Workers \cup Tasks \cup Cids
  /\ None \notin M!Rec /\ None \notin M!Event
  /\ None \notin W!WRec /\ None \notin W!Entry
  /\ TaskRestartMax \in Nat /\ MaxSubmits \in Nat /\ MaxStops \in Nat
  /\ WorkerReplies \subseteq SUBSET M!Report
  /\ PostOutcomes \subseteq M!Outcome
  /\ StoreFaults \subseteq {"get", "put"}
  /\ NoCandidate \in BOOLEAN /\ UpdaterRuns \in BOOLEAN
  /\ Named \subseteq Tasks
  /\ DockerFaults \subseteq W!Calls
  /\ MaxQueue \in Nat
  /\ LateReplies \subseteq {"dispatch", "restart", "stop"}
  /\ SubmitStates \cup {Scheduled, Completed} \subseteq PostStates
  /\ PostStates \subseteq State

mvars == <<pending, taskDb, eventDb, workerTaskMap, taskWorkerMap, send, health, up,
           api, submits, stops>>
wvars == <<wDb, wQueue, run, upd, stop, docker>>
vars == <<mvars, wvars>>

Init == M!Init /\ W!WInit

(* What the JSON of a task event carries to the worker. The restart count  *)
(* travels too, but no code of the worker reads it.                        *)
Wire(t, rec) == [task |-> t, rec |-> [state |-> rec.state, cid |-> rec.cid]]

(* A POST of rec to w, a dispatch or a restart, as the client sees it. A   *)
(* refusal (a status other than 201) leaves the worker alone. A 201 whose  *)
(* body cannot be decoded counts as a refusal too, but the worker has the  *)
(* task by then.                                                           *)
Delivered(what, w, t, rec, out) ==
  \/ out = "created" /\ W!WStartTaskHandler(w, Wire(t, rec))
  \/ out = "rejected" /\ UNCHANGED wvars
  \/ out = "rejected" /\ W!WStartTaskHandler(w, Wire(t, rec))
  \/ out = "unreachable" /\ UNCHANGED wvars
  \/ out = "unreachable" /\ what \in LateReplies /\ W!WStartTaskHandler(w, Wire(t, rec))

SendExchange(out) ==
  /\ M!postTaskEvent(out)
  /\ Delivered("dispatch", send.worker, send.ev.task, send.ev.rec, out)

RestartExchange(out) ==
  /\ M!PostRestart(out)
  /\ Delivered("restart", health.worker, health.task, health.rec, out)

(* The DELETE: the worker looks the task up, then enqueues the stop and    *)
(* answers 204, while the manager waits.                                   *)
StopArrives ==
  /\ send.pc = "stop"
  /\ W!WStopLookup(send.worker, send.ev.task)
  /\ UNCHANGED mvars

StopAnswered ==
  /\ send.pc = "stop"
  /\ M!stopTask("created")
  /\ W!WStopEnqueue(send.worker)

(* The DELETE does not arrive, or is refused (the worker answers 404 for a *)
(* task it has no record of). The manager logs any of them and gives the   *)
(* stop up.                                                                *)
StopFails ==
  /\ send.pc = "stop"
  /\ stop[send.worker] = None
  /\ \/ {"rejected", "unreachable"} \cap PostOutcomes # {}
     \/ wDb[send.worker][send.ev.task] = None
  /\ M!stopTask("unreachable")
  /\ UNCHANGED wvars

(* The stop is enqueued, but the 204 comes too late for the manager.       *)
StopTimesOut ==
  /\ "stop" \in LateReplies
  /\ M!stopTask("unreachable")
  /\ W!WStopEnqueue(send.worker)

(* A poll returns the worker's whole store.                                *)
Listed(w) ==
  { [task |-> t, state |-> wDb[w][t].state, cid |-> wDb[w][t].cid] :
      t \in {u \in Tasks : wDb[w][u] # None} }

Poll(w) == M!UpdateGet(w, Listed(w)) /\ UNCHANGED wvars

(* The probe goes to the worker's host, to the port the container publishes*)
ProbePasses(t) ==
  /\ taskWorkerMap[t] # None
  /\ \E c \in W!ContainersOf(taskWorkerMap[t], t) : docker[c].st = "running"

Probe(t, healthy) ==
  /\ healthy => ProbePasses(t)
  /\ ~ healthy => FalseAlarms \/ ~ ProbePasses(t)
  /\ M!checkTaskHealth(t, healthy)
  /\ UNCHANGED wvars

-----------------------------------------------------------------------------
(* The manager's steps that send nothing.                                  *)
SendLocal ==
  /\ \/ M!nextPendingEvent
     \/ M!RouteToStop
     \/ M!RouteToNowhere
     \/ M!RouteToWorker
     \/ M!SelectWorkerFails
     \/ \E w \in Workers : M!assignTask(w)
     \/ M!unassignTask
     \/ M!RequeueEvent
     \/ M!RecordTask
     \/ M!retireTask
  /\ UNCHANGED wvars

HealthLocal ==
  /\ \/ M!HealthSnapshot
     \/ \E t \in Tasks : M!RestartRoute(t)
     \/ M!beginRestart
     \/ M!RequeueRestart
  /\ UNCHANGED wvars

UpdateLocal ==
  /\ \/ M!UpdateTick
     \/ \E w \in Workers : "unreachable" \in PostOutcomes /\ M!UpdateFails(w)
     \/ \E w \in Workers : \E r \in up[w].reports : M!applyWorkerReport(w, r)
  /\ UNCHANGED wvars

SendLoop ==
  \/ SendLocal
  \/ \E out \in PostOutcomes : SendExchange(out)
  \/ StopArrives
  \/ StopAnswered
  \/ StopFails
  \/ StopTimesOut

HealthLoop ==
  \/ HealthLocal
  \/ \E t \in Tasks, healthy \in BOOLEAN : Probe(t, healthy)
  \/ \E out \in PostOutcomes : RestartExchange(out)

UpdateLoop ==
  \/ UpdateLocal
  \/ \E w \in Workers : Poll(w)

RunLoop(w) == W!RunStep(w) /\ UNCHANGED mvars
UpdaterLoop(w) == W!UpdateStepW(w) /\ UNCHANGED mvars
Exit(c) == W!ContainerExit(c) /\ UNCHANGED mvars

Next ==
  \/ M!ApiStep /\ UNCHANGED wvars
  \/ SendLoop
  \/ HealthLoop
  \/ UpdateLoop
  \/ \E w \in Workers : RunLoop(w) \/ UpdaterLoop(w)
  \/ \E c \in Cids : Exit(c)

Spec == Init /\ [][Next]_vars

(* Every loop ticks until its process is shut down, and an exchange ends.  *)
(* Clients submit and stop when they like, and containers need not exit.   *)
Fairness ==
  /\ WF_vars(SendLoop)
  /\ WF_vars(HealthLoop)
  /\ WF_vars(UpdateLoop)
  /\ \A w \in Workers : WF_vars(RunLoop(w)) /\ WF_vars(UpdaterLoop(w))

FairSpec == Spec /\ Fairness

-----------------------------------------------------------------------------
(* The workers are driven within the contract Worker is checked under: the *)
(* states and container ids the manager sends, whatever it requeues or     *)
(* sends from a stale copy, are among those its WNext offers, and each     *)
(* exchange is one step of the worker's handler.                           *)
WorkerContract == W!WSpec

(* A task nobody has asked to stop has containers on one worker at most: a *)
(* dispatch that met a dead connection is sent to another worker only      *)
(* because it did not arrive, and a restart goes where the task is,        *)
(* whether its answer comes in time or not.                                *)
OneWorker ==
  \A t \in Tasks, v, w \in Workers :
    /\ stops[t] = 0
    /\ W!ContainersOf(v, t) # {}
    /\ W!ContainersOf(w, t) # {}
    => v = w

(* A task the manager has marked Completed has no running container in the *)
(* end, on any worker: retireTask acts on a 204 that only says the stop    *)
(* was queued, and whatever was queued before it still runs first.         *)
StopTakesEffect ==
  \A t \in Tasks :
    taskDb[t] # None /\ taskDb[t].state = Completed
    ~> \A w \in Workers : \A c \in W!ContainersOf(w, t) : docker[c].st # "running"

(* While a worker runs a task the manager routed to it and has a record    *)
(* of, the manager comes to show the task as Running, or has given it up:  *)
(* polls repeat, so what a late report or a restart in progress made of    *)
(* the manager's copy is corrected, by the next report or by the next      *)
(* restart, whatever the worker answered to it. Only a Failed with the     *)
(* restarts spent stays, because no report leads out of it.                *)
WorkerRuns(w, t) ==
  /\ taskDb[t] # None
  /\ taskWorkerMap[t] = w
  /\ wDb[w][t] # None
  /\ wDb[w][t].state = Running

GivenUp(t) == taskDb[t].state = Failed /\ taskDb[t].count >= TaskRestartMax

StatusConverges ==
  \A w \in Workers, t \in Tasks :
    WorkerRuns(w, t)
    ~> ~ WorkerRuns(w, t) \/ taskDb[t].state = Running \/ GivenUp(t)
=============================================================================
