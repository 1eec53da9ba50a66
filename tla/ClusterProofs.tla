---------------------------- MODULE ClusterProofs ----------------------------
(***************************************************************************)
(* What the composition adds: the manager keeps the workers' contract, and *)
(* what ManagerProofs and WorkerProofs prove of each part alone holds of   *)
(* it in a cluster.                                                        *)
(***************************************************************************)
EXTENDS Cluster, TLAPS

(* The parts with their theorems. The workers may give the manager any     *)
(* answer there is.                                                        *)
MP == INSTANCE ManagerProofs WITH WorkerReplies <- SUBSET M!Report,
                                  PostOutcomes <- M!Outcome
WP == INSTANCE WorkerProofs

(***************************************************************************)
(* M and MP, and W and WP, name the same actions.                          *)
(***************************************************************************)
LEMMA SameApi == M!ApiStep => MP!ApiStep
  BY DEF M!ApiStep, MP!ApiStep, M!StartTaskHandler, MP!StartTaskHandler,
      M!StopLookup, MP!StopLookup, M!StopEnqueue, MP!StopEnqueue,
      M!WithState, MP!WithState, M!Completed, MP!Completed, M!routing,
      MP!routing, M!client, MP!client

LEMMA SameSend ==
  /\ M!nextPendingEvent => MP!nextPendingEvent
  /\ M!RouteToStop => MP!RouteToStop
  /\ M!RouteToNowhere => MP!RouteToNowhere
  /\ M!RouteToWorker => MP!RouteToWorker
  /\ M!SelectWorkerFails => MP!SelectWorkerFails
  /\ \A v \in Workers : M!assignTask(v) => MP!assignTask(v)
  /\ \A out \in MP!Outcome : M!postTaskEvent(out) => MP!postTaskEvent(out)
  /\ M!unassignTask => MP!unassignTask
  /\ M!RequeueEvent => MP!RequeueEvent
  /\ M!RecordTask => MP!RecordTask
  /\ \A out \in MP!Outcome : M!stopTask(out) => MP!stopTask(out)
  /\ M!retireTask => MP!retireTask
  BY DEF M!nextPendingEvent, MP!nextPendingEvent, M!RouteToStop,
      MP!RouteToStop, M!RouteToNowhere, MP!RouteToNowhere, M!RouteToWorker,
      MP!RouteToWorker, M!SelectWorkerFails, MP!SelectWorkerFails, M!assignTask,
      MP!assignTask, M!postTaskEvent,
      MP!postTaskEvent, M!unassignTask, MP!unassignTask, M!RequeueEvent,
      MP!RequeueEvent, M!RecordTask, MP!RecordTask, M!stopTask, MP!stopTask,
      M!retireTask, MP!retireTask, M!Outcome, MP!Outcome, M!StopIsValid,
      MP!StopIsValid, M!Assigned, MP!Assigned, M!IsValidTransition,
      MP!IsValidTransition, M!machine, MP!machine, M!State, MP!State,
      M!Pending, MP!Pending, M!Scheduled, MP!Scheduled, M!Running,
      MP!Running, M!Completed, MP!Completed, M!Failed, MP!Failed,
      M!SendIdle, MP!SendIdle, M!Unlisted, MP!Unlisted, M!Put, MP!Put,
      M!Rewrite, MP!Rewrite, M!WithState, MP!WithState, M!routing,
      MP!routing, M!client, MP!client

LEMMA SameHealth ==
  /\ M!HealthSnapshot => MP!HealthSnapshot
  /\ \A t \in Tasks, ok \in BOOLEAN : M!checkTaskHealth(t, ok) => MP!checkTaskHealth(t, ok)
  /\ \A t \in Tasks : M!RestartRoute(t) => MP!RestartRoute(t)
  /\ M!beginRestart => MP!beginRestart
  /\ \A out \in MP!Outcome : M!PostRestart(out) => MP!PostRestart(out)
  /\ M!RequeueRestart => MP!RequeueRestart
  BY DEF M!HealthSnapshot, MP!HealthSnapshot, M!checkTaskHealth,
      MP!checkTaskHealth, M!RestartRoute, MP!RestartRoute, M!beginRestart,
      MP!beginRestart, M!PostRestart, MP!PostRestart, M!RequeueRestart,
      MP!RequeueRestart, M!decideHealthAction, MP!decideHealthAction,
      M!HealthAfter, MP!HealthAfter, M!HealthIdle, MP!HealthIdle,
      M!Restarted, MP!Restarted, M!Pending, MP!Pending, M!Scheduled,
      MP!Scheduled, M!Running, MP!Running, M!Completed, MP!Completed,
      M!Failed, MP!Failed, M!routing, MP!routing, M!client, MP!client

LEMMA SameUpdate ==
  /\ M!UpdateTick => MP!UpdateTick
  /\ \A v \in Workers : \A r : M!UpdateGet(v, r) => MP!UpdateGet(v, r)
  /\ \A v \in Workers : M!UpdateFails(v) => MP!UpdateFails(v)
  /\ \A v \in Workers : \A r : M!applyWorkerReport(v, r) => MP!applyWorkerReport(v, r)
  BY DEF M!UpdateTick, MP!UpdateTick, M!UpdateGet, MP!UpdateGet, M!UpdateFails,
      MP!UpdateFails, M!applyWorkerReport, MP!applyWorkerReport, M!UpIdle,
      MP!UpIdle, M!Rewrite, MP!Rewrite, M!mergeTaskUpdate,
      MP!mergeTaskUpdate, M!IsValidTransition, MP!IsValidTransition,
      M!machine, MP!machine, M!State, MP!State, M!Pending, MP!Pending,
      M!Scheduled, MP!Scheduled, M!Running, MP!Running, M!Completed,
      MP!Completed, M!Failed, MP!Failed, M!routing, MP!routing, M!client,
      MP!client

LEMMA SameWorker ==
  /\ \A v \in Workers : W!RunStep(v) => WP!RunStep(v)
  /\ \A v \in Workers : W!UpdateStepW(v) => WP!UpdateStepW(v)
<1>1. \A v \in Workers : W!RunTask(v) => WP!RunTask(v)
  BY DEF W!RunTask, WP!RunTask, W!Persisted, WP!Persisted, W!FirstCall,
         WP!FirstCall, W!RunIdle, WP!RunIdle, W!IsValidTransition,
         WP!IsValidTransition, W!machine, WP!machine, W!State, WP!State, W!Pending,
         WP!Pending, W!Scheduled, WP!Scheduled, W!Running, WP!Running, W!Completed,
         WP!Completed, W!Failed, WP!Failed
<1>2. \A v \in Workers : W!ContainerStop(v) => WP!ContainerStop(v)
  BY DEF W!ContainerStop, WP!ContainerStop, W!RunAt, WP!RunAt, W!Moved, WP!Moved,
         W!CallFailed, WP!CallFailed, W!RunIdle, WP!RunIdle, W!Exists, WP!Exists,
         W!Live, WP!Live, W!Completed, WP!Completed
<1>3. \A v \in Workers : W!ContainerRemove(v) => WP!ContainerRemove(v)
  BY DEF W!ContainerRemove, WP!ContainerRemove, W!RunAt, WP!RunAt, W!Moved,
         WP!Moved, W!CallFailed, WP!CallFailed, W!RunIdle, WP!RunIdle, W!Exists,
         WP!Exists, W!Live, WP!Live, W!Completed, WP!Completed
<1>4. \A v \in Workers : W!CreateFails(v) => WP!CreateFails(v)
  BY DEF W!CreateFails, WP!CreateFails, W!RunAt, WP!RunAt, W!CallFailed,
         WP!CallFailed, W!RunIdle, WP!RunIdle, W!NameTaken, WP!NameTaken,
         W!ContainersOf, WP!ContainersOf, W!Exists, WP!Exists, W!Live, WP!Live,
         W!Completed, WP!Completed
<1>5. \A v \in Workers : W!Upsert(v) => WP!Upsert(v)
  BY DEF W!Upsert, WP!Upsert, W!RunIdle, WP!RunIdle, W!Running, WP!Running,
         W!Completed, WP!Completed, W!Failed, WP!Failed
<1>6. \A v \in Workers : W!UpdateSnapshot(v) => WP!UpdateSnapshot(v)
  BY DEF W!UpdateSnapshot, WP!UpdateSnapshot, W!Running, WP!Running
<1>7. \A v \in Workers : W!UpdateWrite(v) => WP!UpdateWrite(v)
  BY DEF W!UpdateWrite, WP!UpdateWrite, W!Running, WP!Running, W!Failed, WP!Failed,
         W!UpdAfter, WP!UpdAfter, W!UpdIdle, WP!UpdIdle
<1>8. \A v \in Workers, c \in Cids : W!Run(v, c) => WP!Run(v, c)
  BY DEF W!Run, WP!Run, W!RunAt, WP!RunAt, W!CallFailed, WP!CallFailed, W!RunIdle,
         WP!RunIdle, W!NameTaken, WP!NameTaken, W!ContainersOf, WP!ContainersOf,
         W!Exists, WP!Exists, W!Live, WP!Live, W!Completed, WP!Completed
<1>9. \A v \in Workers, t \in Tasks : W!Inspect(v, t) => WP!Inspect(v, t)
  BY DEF W!Inspect, WP!Inspect, W!UpdAfter, WP!UpdAfter, W!UpdIdle, WP!UpdIdle,
         W!Exists, WP!Exists, W!Live, WP!Live
<1> QED BY <1>1, <1>2, <1>3, <1>4, <1>5, <1>6, <1>7, <1>8, <1>9
        DEF W!RunStep, WP!RunStep, W!UpdateStepW, WP!UpdateStepW

(* The assumptions of the two parts, under these names.                    *)
LEMMA ManagerAssumed ==
  /\ None \notin Workers
  /\ None \notin Tasks
  /\ None \notin MP!Rec
  /\ None \notin MP!Event
  /\ SubmitStates \subseteq MP!State
  /\ TaskRestartMax \in Nat
  /\ MaxSubmits \in Nat
  /\ MaxStops \in Nat
  /\ SUBSET M!Report \subseteq SUBSET MP!Report
  /\ M!Outcome \subseteq MP!Outcome
  /\ StoreFaults \subseteq {"get", "put"}
  /\ NoCandidate \in BOOLEAN
<1>1. MP!Rec = M!Rec /\ MP!Event = M!Event /\ MP!Report = M!Report /\ MP!Outcome = M!Outcome
      /\ MP!State = State
  BY DEF M!Rec, MP!Rec, M!Event, MP!Event, M!Report, MP!Report, M!Outcome, MP!Outcome,
         M!State, MP!State, State, Pending, Scheduled, Running, Completed, Failed,
         M!Pending, M!Scheduled, M!Running, M!Completed, M!Failed,
         MP!Pending, MP!Scheduled, MP!Running, MP!Completed, MP!Failed
<1> QED BY <1>1, ClusterAssumption

LEMMA WorkerAssumed ==
  /\ None \notin Tasks
  /\ None \notin Cids
  /\ None \notin WP!WRec
  /\ None \notin WP!Entry
  /\ Named \subseteq Tasks
  /\ DockerFaults \subseteq WP!Calls
  /\ PostStates \subseteq WP!State
  /\ UpdaterRuns \in BOOLEAN
  /\ MaxQueue \in Nat
<1>1. WP!WRec = W!WRec /\ WP!Entry = W!Entry /\ WP!Calls = W!Calls
      /\ WP!State = State
  BY DEF W!WRec, WP!WRec, W!Entry, WP!Entry, W!Calls, WP!Calls,
         W!State, WP!State, State, Pending, Scheduled, Running, Completed, Failed,
         W!Pending, W!Scheduled, W!Running, W!Completed, W!Failed,
         WP!Pending, WP!Scheduled, WP!Running, WP!Completed, WP!Failed
<1> QED BY <1>1, ClusterAssumption

-----------------------------------------------------------------------------
(***************************************************************************)
(* What the manager may send. Every container id in its hands came from a  *)
(* poll, so it names a container of the task it is filed under; a copy may *)
(* be old, but an id once given to a task stays that task's.               *)
(***************************************************************************)
May(e) == e.rec.state \in PostStates /\ WP!OwnedBy(e.rec.cid, e.task)

StoreHeld == \A t \in Tasks : taskDb[t] # None => WP!OwnedBy(taskDb[t].cid, t)
QueueMay == \A i \in 1..Len(pending) : May(pending[i])
SendMay == send.pc # "idle" => May(send.ev)
Restart == [task |-> health.task, rec |-> health.rec]
HealthMay == health.pc \in {"post", "requeue"} => May(Restart)
ApiMay == \A c \in Clients : api[c] # None => May(api[c])
ReportsHeld == \A w \in Workers : \A r \in up[w].reports : WP!OwnedBy(r.cid, r.task)

Held == StoreHeld /\ QueueMay /\ SendMay /\ HealthMay /\ ApiMay /\ ReportsHeld

CInv == MP!TypeOK /\ WP!WTypeOK /\ WP!Ownership /\ Held

(* The manager's part of a step, and nothing else the cluster makes it do: *)
(* a poll returns what the worker has.                                     *)
UpdatePart ==
  \/ MP!UpdateTick
  \/ \E w \in Workers : MP!UpdateFails(w)
  \/ \E w \in Workers : \E r \in up[w].reports : MP!applyWorkerReport(w, r)

PollPart == \E w \in Workers : MP!UpdateGet(w, Listed(w))

ManagerPart ==
  \/ UNCHANGED mvars
  \/ MP!ApiStep
  \/ MP!SendStep
  \/ MP!HealthStep
  \/ UpdatePart
  \/ PollPart

(* Every step of the cluster is such a part, with a worker's or without.   *)
LEMMA ManagerHalf ==
  ASSUME [Next]_vars
  PROVE  ManagerPart
<1> USE DEF ManagerPart
<1>0. /\ MP!Outcome = M!Outcome
      /\ PostOutcomes \subseteq M!Outcome
      /\ {"created", "unreachable"} \subseteq M!Outcome
  BY ClusterAssumption DEF MP!Outcome, M!Outcome
<1>1. CASE M!ApiStep
  BY <1>1, SameApi
<1>2. CASE SendLoop
  <2>1. CASE SendLocal
    BY <2>1, SameSend DEF SendLocal, MP!SendStep
  <2>2. ASSUME NEW out \in PostOutcomes, SendExchange(out)
        PROVE  MP!SendStep
    BY <1>0, <2>2, SameSend DEF SendExchange, MP!SendStep
  <2>3. CASE StopArrives
    BY <2>3 DEF StopArrives
  <2>4. CASE StopAnswered
    BY <1>0, <2>4, SameSend DEF StopAnswered, MP!SendStep
  <2>5. CASE StopFails
    BY <1>0, <2>5, SameSend DEF StopFails, MP!SendStep
  <2>6. CASE StopTimesOut
    BY <1>0, <2>6, SameSend DEF StopTimesOut, MP!SendStep
  <2> QED BY <1>2, <2>1, <2>2, <2>3, <2>4, <2>5, <2>6 DEF SendLoop
<1>3. CASE HealthLoop
  <2>1. CASE HealthLocal
    BY <2>1, SameHealth DEF HealthLocal, MP!HealthStep
  <2>2. ASSUME NEW t \in Tasks, NEW healthy \in BOOLEAN, Probe(t, healthy)
        PROVE  MP!HealthStep
    BY <2>2, SameHealth DEF Probe, MP!HealthStep
  <2>3. ASSUME NEW out \in PostOutcomes, RestartExchange(out)
        PROVE  MP!HealthStep
    BY <1>0, <2>3, SameHealth DEF RestartExchange, MP!HealthStep
  <2> QED BY <1>3, <2>1, <2>2, <2>3 DEF HealthLoop
<1>4. CASE UpdateLoop
  <2>1. CASE UpdateLocal
    BY <2>1, SameUpdate DEF UpdateLocal, UpdatePart
  <2>2. ASSUME NEW w \in Workers, Poll(w)
        PROVE  PollPart
    BY <2>2, SameUpdate DEF Poll, PollPart
  <2> QED BY <1>4, <2>1, <2>2 DEF UpdateLoop
<1>5. CASE UNCHANGED vars
  BY <1>5 DEF vars
<1> QED BY <1>1, <1>2, <1>3, <1>4, <1>5 DEF Next, RunLoop, UpdaterLoop, Exit

(* An event the manager may send is one the contract lists.                *)
LEMMA PostIsKnown ==
  ASSUME NEW w \in Workers, NEW t \in Tasks, NEW rec \in MP!Rec,
         May([task |-> t, rec |-> rec]), W!WStartTaskHandler(w, Wire(t, rec))
  PROVE  W!WNext
<1>1. rec.state \in PostStates /\ rec.cid \in W!KnownCids(t)
  BY DEF May, WP!OwnedBy, W!KnownCids, MP!Rec
<1> QED BY <1>1 DEF Wire, W!WNext

(* Every step of the cluster is a step its workers are ready for.          *)
LEMMA WorkerHalf ==
  ASSUME CInv, [Next]_vars
  PROVE  [W!WNext]_wvars
<1> USE DEF CInv
<1>1. CASE SendLoop
  <2>0. send.pc # "idle" => send.ev \in MP!Event
    BY DEF MP!TypeOK, MP!SendType
  <2>1. send.pc # "idle" => send.ev.task \in Tasks /\ send.ev.rec \in MP!Rec
        /\ May([task |-> send.ev.task, rec |-> send.ev.rec])
    BY <2>0 DEF Held, SendMay, MP!Event, May
  <2>2. send.pc \in {"post", "stop"} => send.worker \in Workers
    BY DEF MP!TypeOK, MP!SendType
  <2>3. ASSUME NEW out \in PostOutcomes, SendExchange(out)
        PROVE  [W!WNext]_wvars
    <3>1. send.pc = "post"
      BY <2>3 DEF SendExchange, M!postTaskEvent
    <3> QED BY <2>1, <2>2, <2>3, <3>1, PostIsKnown DEF SendExchange, Delivered
  <2>4. CASE StopArrives
    BY <2>1, <2>2, <2>4 DEF StopArrives, W!WNext
  <2>5. CASE StopAnswered
    BY <2>2, <2>5 DEF StopAnswered, W!WNext, W!WNextLocal
  <2>6. CASE StopFails
    BY <2>6 DEF StopFails
  <2>7. CASE StopTimesOut
    BY <2>2, <2>7 DEF StopTimesOut, M!stopTask, W!WNext, W!WNextLocal
  <2>8. CASE SendLocal
    BY <2>8 DEF SendLocal
  <2> QED BY <1>1, <2>3, <2>4, <2>5, <2>6, <2>7, <2>8 DEF SendLoop
<1>2. CASE HealthLoop
  <2>1. ASSUME NEW out \in PostOutcomes, RestartExchange(out)
        PROVE  [W!WNext]_wvars
    <3>1. health.pc = "post"
      BY <2>1 DEF RestartExchange, M!PostRestart
    <3>2. health.task \in Tasks /\ health.rec \in MP!Rec /\ health.worker \in Workers
      BY <3>1 DEF MP!TypeOK, MP!HealthType
    <3>3. May([task |-> health.task, rec |-> health.rec])
      BY <3>1 DEF Held, HealthMay, Restart
    <3> QED BY <2>1, <3>2, <3>3, PostIsKnown DEF RestartExchange, Delivered
  <2> QED BY <1>2, <2>1 DEF HealthLoop, HealthLocal, Probe
<1>3. CASE UpdateLoop
  BY <1>3 DEF UpdateLoop, UpdateLocal, Poll
<1>4. ASSUME NEW w \in Workers, RunLoop(w) \/ UpdaterLoop(w)
      PROVE  W!WNext
  BY <1>4 DEF RunLoop, UpdaterLoop, W!WNext, W!WNextLocal
<1>5. ASSUME NEW c \in Cids, Exit(c)
      PROVE  W!WNext
  BY <1>5 DEF Exit, W!WNext, W!WNextLocal
<1>6. CASE UNCHANGED vars
  BY <1>6 DEF vars
<1> QED BY <1>1, <1>2, <1>3, <1>4, <1>5, <1>6 DEF Next

(* The contract's steps under the names of WorkerProofs.                   *)
LEMMA SameContract == [W!WNext]_wvars => [WP!WNext]_(WP!wvars)
<1> SUFFICES ASSUME [W!WNext]_wvars
             PROVE  [WP!WNext]_(WP!wvars)
  OBVIOUS
<1>1. CASE UNCHANGED wvars
  BY <1>1 DEF wvars, WP!wvars
<1>2. CASE W!WNextLocal
  <2>1. ASSUME NEW c \in Cids, W!ContainerExit(c)
        PROVE  WP!ContainerExit(c)
    BY <2>1 DEF W!ContainerExit, WP!ContainerExit, W!Moved, WP!Moved
  <2>2. ASSUME NEW w \in Workers, W!WStopEnqueue(w)
        PROVE  WP!WStopEnqueue(w)
    BY <2>2 DEF W!WStopEnqueue, WP!WStopEnqueue
  <2> QED BY <1>2, <2>1, <2>2, SameWorker DEF W!WNextLocal, WP!WNextLocal, WP!WNext
<1>3. ASSUME NEW w \in Workers, NEW t \in Tasks, NEW s \in PostStates,
             NEW c \in W!KnownCids(t),
             W!WStartTaskHandler(w, [task |-> t, rec |-> [state |-> s, cid |-> c]])
      PROVE  WP!WNext
  <2>1. WP!WStartTaskHandler(w, [task |-> t, rec |-> [state |-> s, cid |-> c]])
    BY <1>3 DEF W!WStartTaskHandler, WP!WStartTaskHandler
  <2>2. c \in WP!KnownCids(t)
    BY DEF W!KnownCids, WP!KnownCids
  <2> QED BY <2>1, <2>2 DEF WP!WNext
<1>4. ASSUME NEW w \in Workers, NEW t \in Tasks, W!WStopLookup(w, t)
      PROVE  WP!WNext
  <2>1. WP!WStopLookup(w, t)
    BY <1>4 DEF W!WStopLookup, WP!WStopLookup, W!Completed, WP!Completed
  <2> QED BY <2>1 DEF WP!WNext
<1> QED BY <1>1, <1>2, <1>3, <1>4 DEF W!WNext

(***************************************************************************)
(* The manager's types, driven by these steps.                             *)
(***************************************************************************)
(* What a poll returns is a list of reports.                               *)
LEMMA ListedType ==
  ASSUME NEW w \in Workers, WP!WTypeOK
  PROVE  Listed(w) \subseteq MP!Report
<1>1. \A t \in Tasks : wDb[w][t] # None => wDb[w][t] \in WP!WRec
  BY DEF WP!WTypeOK
<1>2. WP!State = MP!State
  BY DEF WP!State, MP!State,
         WP!Pending, WP!Scheduled, WP!Running, WP!Completed, WP!Failed,
         MP!Pending, MP!Scheduled, MP!Running, MP!Completed, MP!Failed
<1> QED BY <1>1, <1>2 DEF Listed, MP!Report, WP!WRec

(* A poll is one the open manager allows for.                              *)
LEMMA PartIsStep ==
  ASSUME WP!WTypeOK, UpdatePart \/ PollPart
  PROVE  MP!UpdateStep
<1>1. MP!Report = M!Report
  BY DEF M!Report, MP!Report, M!State, MP!State, M!Pending, M!Scheduled, M!Running,
         M!Completed, M!Failed, MP!Pending, MP!Scheduled, MP!Running, MP!Completed,
         MP!Failed
<1>2. \A w \in Workers : Listed(w) \in SUBSET M!Report
  BY <1>1, ListedType
<1> QED BY <1>2 DEF UpdatePart, PollPart, MP!UpdateStep

(* ManagerProofs has the rest.                                             *)
LEMMA ManagerTyped ==
  ASSUME CInv, ManagerPart
  PROVE  MP!TypeOK'
<1> USE DEF CInv
<1>1. CASE UNCHANGED mvars
  BY <1>1 DEF mvars, MP!TypeOK, MP!SendType, MP!HealthType
<1>2. CASE MP!ApiStep
  BY <1>2, MP!ApiKeepsType, ManagerAssumed
<1>3. CASE MP!SendStep
  BY <1>3, MP!SendKeepsType, ManagerAssumed
<1>4. CASE MP!HealthStep
  BY <1>4, MP!HealthKeepsType, ManagerAssumed
<1>5. CASE UpdatePart \/ PollPart
  BY <1>5, PartIsStep, MP!UpdateKeepsType, ManagerAssumed
<1> QED BY <1>1, <1>2, <1>3, <1>4, <1>5 DEF ManagerPart

(***************************************************************************)
(* What is in the manager's hands after a step was there before, or is the *)
(* answer of a poll. One lemma per variable.                               *)
(***************************************************************************)
MayNext(e) == e.rec.state \in PostStates /\ WP!OwnedNext(e.rec.cid, e.task)

(* What may be sent now may still be sent after the workers' part.         *)
LEMMA MayStill ==
  ASSUME WP!TasksKept, NEW e \in MP!Event, May(e)
  PROVE  MayNext(e)
<1>1. e.rec.cid \in Cids \cup {None} /\ e.task \in Tasks
  BY DEF MP!Event, MP!Rec
<1> QED BY <1>1, WP!OwnedStill, WorkerAssumed DEF May, MayNext

(* The workers know every state the manager sends.                         *)
LEMMA SentStates ==
  /\ SubmitStates \subseteq PostStates
  /\ MP!Scheduled \in PostStates
  /\ MP!Completed \in PostStates
  BY ClusterAssumption DEF Scheduled, Completed, MP!Scheduled, MP!Completed

(* An edit of a stored copy that leaves the container id alone.            *)
LEMMA CopyMay ==
  ASSUME CInv, NEW t \in Tasks, taskDb[t] # None
  PROVE  /\ taskDb[t] \in MP!Rec
         /\ May([task |-> t, rec |-> MP!WithState(taskDb[t], MP!Completed)])
         /\ May([task |-> t, rec |-> MP!Restarted(taskDb[t])])
         /\ MP!WithState(taskDb[t], MP!Completed) \in MP!Rec
         /\ MP!Restarted(taskDb[t]) \in MP!Rec
<1>1. taskDb[t] \in MP!Rec
  BY DEF CInv, MP!TypeOK
<1>2. WP!OwnedBy(taskDb[t].cid, t)
  BY DEF CInv, Held, StoreHeld
<1>3. /\ MP!WithState(taskDb[t], MP!Completed).cid = taskDb[t].cid
      /\ MP!WithState(taskDb[t], MP!Completed).state = MP!Completed
      /\ MP!Restarted(taskDb[t]).cid = taskDb[t].cid
      /\ MP!Restarted(taskDb[t]).state = MP!Scheduled
  BY <1>1 DEF MP!WithState, MP!Restarted, MP!Rec
<1>4. MP!WithState(taskDb[t], MP!Completed) \in MP!Rec /\ MP!Restarted(taskDb[t]) \in MP!Rec
  BY <1>1, MP!EditType, ManagerAssumed
<1> QED BY <1>1, <1>2, <1>3, <1>4, SentStates DEF May

(* TaskDb.                                                                 *)
LEMMA StoreMoves ==
  ASSUME CInv, ManagerPart
  PROVE  \/ taskDb' = taskDb
         \/ \E t \in Tasks, rec \in MP!Rec :
              taskDb' = [taskDb EXCEPT ![t] = rec] /\ WP!OwnedBy(rec.cid, t)
<1> SUFFICES ASSUME taskDb' # taskDb
             PROVE  \E t \in Tasks, rec \in MP!Rec :
                      taskDb' = [taskDb EXCEPT ![t] = rec] /\ WP!OwnedBy(rec.cid, t)
  OBVIOUS
<1>1. CASE MP!RecordTask
  <2>1. send.ev \in MP!Event /\ May(send.ev)
    BY <1>1 DEF CInv, Held, SendMay, MP!TypeOK, MP!SendType, MP!RecordTask
  <2>2. send.ev.task \in Tasks /\ send.ev.rec \in MP!Rec
    BY <2>1 DEF MP!Event
  <2> QED BY <1>1, <2>1, <2>2 DEF MP!RecordTask, MP!Put, May
<1>2. CASE MP!retireTask
  <2>1. send.ev.task \in Tasks
    BY <1>2 DEF CInv, MP!TypeOK, MP!SendType, MP!retireTask, MP!Event
  <2> QED BY <1>2, <2>1, CopyMay DEF MP!retireTask, MP!Rewrite, May
<1>3. CASE MP!beginRestart
  <2>1. health.task \in Tasks /\ taskDb[health.task] # None
    BY <1>3 DEF CInv, MP!TypeOK, MP!HealthType, MP!beginRestart
  <2> QED BY <1>3, <2>1, CopyMay DEF MP!beginRestart, May
<1>4. ASSUME NEW w \in Workers, NEW r \in up[w].reports, MP!applyWorkerReport(w, r)
      PROVE  \E t \in Tasks, rec \in MP!Rec :
               taskDb' = [taskDb EXCEPT ![t] = rec] /\ WP!OwnedBy(rec.cid, t)
  <2>1. r \in MP!Report /\ r.task \in Tasks /\ WP!OwnedBy(r.cid, r.task)
    BY DEF CInv, Held, ReportsHeld, MP!TypeOK, MP!Report
  <2> DEFINE rec == MP!mergeTaskUpdate(taskDb[r.task], r)
  <2>2. taskDb[r.task] # None /\ taskDb' = [taskDb EXCEPT ![r.task] = rec]
    BY <1>4 DEF MP!applyWorkerReport, MP!Rewrite
  <2>3. taskDb[r.task] \in MP!Rec /\ WP!OwnedBy(taskDb[r.task].cid, r.task)
    BY <2>1, <2>2 DEF CInv, Held, StoreHeld, MP!TypeOK
  <2>4. rec \in MP!Rec
    BY <2>1, <2>3, MP!MergeType, ManagerAssumed
  <2>5. rec.cid = taskDb[r.task].cid \/ rec.cid = r.cid
    BY <2>1, <2>3 DEF MP!mergeTaskUpdate, MP!Rec
  <2>6. WP!OwnedBy(rec.cid, r.task)
    BY <2>1, <2>3, <2>5 DEF WP!OwnedBy
  <2> HIDE DEF rec
  <2> QED BY <2>1, <2>2, <2>4, <2>6
<1> QED
  BY <1>1, <1>2, <1>3, <1>4
  DEF ManagerPart, mvars, MP!ApiStep, MP!StartTaskHandler, MP!StopLookup, MP!StopEnqueue,
      MP!SendStep, MP!nextPendingEvent, MP!RouteToStop, MP!RouteToNowhere, MP!RouteToWorker,
      MP!SelectWorkerFails, MP!assignTask, MP!postTaskEvent, MP!unassignTask,
      MP!RequeueEvent, MP!stopTask, MP!HealthStep, MP!HealthSnapshot,
      MP!checkTaskHealth, MP!RestartRoute, MP!PostRestart, MP!RequeueRestart,
      UpdatePart, MP!UpdateTick, MP!UpdateFails, PollPart, MP!UpdateGet

(* The queue of pending events.                                            *)
LEMMA QueueMoves ==
  ASSUME CInv, ManagerPart
  PROVE  \/ pending' = pending
         \/ pending # <<>> /\ pending' = Tail(pending)
         \/ \E e \in MP!Event : May(e) /\ pending' = Append(pending, e)
<1> SUFFICES ASSUME pending' # pending, ~ (pending # <<>> /\ pending' = Tail(pending))
             PROVE  \E e \in MP!Event : May(e) /\ pending' = Append(pending, e)
  OBVIOUS
<1>1. ASSUME NEW t \in Tasks, NEW s \in SubmitStates, MP!StartTaskHandler(t, s)
      PROVE  \E e \in MP!Event : May(e) /\ pending' = Append(pending, e)
  <2> DEFINE e == [task |-> t, rec |-> [state |-> s, count |-> 0, cid |-> None]]
  <2>1. e \in MP!Event
    BY ManagerAssumed DEF MP!Event, MP!Rec
  <2>2. May(e)
    BY SentStates DEF May, WP!OwnedBy
  <2>3. pending' = Append(pending, e)
    BY <1>1 DEF MP!StartTaskHandler
  <2> HIDE DEF e
  <2> QED BY <2>1, <2>2, <2>3
<1>2. ASSUME NEW c \in Clients, MP!StopEnqueue(c)
      PROVE  \E e \in MP!Event : May(e) /\ pending' = Append(pending, e)
  BY <1>2 DEF CInv, Held, ApiMay, MP!TypeOK, MP!StopEnqueue
<1>3. CASE MP!RequeueEvent
  BY <1>3 DEF CInv, Held, SendMay, MP!TypeOK, MP!SendType, MP!RequeueEvent
<1>4. CASE MP!RequeueRestart
  <2>1. Restart \in MP!Event
    BY <1>4 DEF CInv, MP!TypeOK, MP!HealthType, MP!RequeueRestart, MP!Event, Restart
  <2>2. May(Restart) /\ pending' = Append(pending, Restart)
    BY <1>4 DEF CInv, Held, HealthMay, MP!RequeueRestart, Restart
  <2> QED BY <2>1, <2>2
<1> QED
  BY <1>1, <1>2, <1>3, <1>4
  DEF ManagerPart, mvars, MP!ApiStep, MP!StopLookup,
      MP!SendStep, MP!nextPendingEvent, MP!RouteToStop, MP!RouteToNowhere, MP!RouteToWorker,
      MP!SelectWorkerFails, MP!assignTask, MP!postTaskEvent, MP!unassignTask, MP!RecordTask,
      MP!stopTask, MP!retireTask, MP!HealthStep, MP!HealthSnapshot,
      MP!checkTaskHealth, MP!RestartRoute, MP!beginRestart, MP!PostRestart,
      UpdatePart, MP!UpdateTick, MP!UpdateFails, MP!applyWorkerReport,
      PollPart, MP!UpdateGet

(* The event SendWork is at work on.                                       *)
LEMMA SendMoves ==
  ASSUME CInv, ManagerPart
  PROVE  \/ send'.pc = "idle"
         \/ send.pc # "idle" /\ send'.ev = send.ev
         \/ pending # <<>> /\ send'.ev = Head(pending)
<1>0. send \in [pc : MP!SendPC, ev : MP!Event \cup {None}, worker : Workers \cup {None}]
  BY DEF CInv, MP!TypeOK, MP!SendType
<1>1. CASE send' = send
  BY <1>1
<1>2. ASSUME NEW out \in MP!Outcome, MP!postTaskEvent(out)
      PROVE  send'.pc = "idle" \/ (send.pc # "idle" /\ send'.ev = send.ev)
  <2>1. send.pc # "idle"
    BY <1>2 DEF MP!postTaskEvent
  <2>2. \/ send' = [pc |-> "idle", ev |-> None, worker |-> None]
        \/ send' = [send EXCEPT !.pc = "record"]
        \/ send' = [send EXCEPT !.pc = "unassign"]
    BY <1>2 DEF MP!postTaskEvent, MP!SendIdle, MP!Outcome
  <2> QED BY <1>0, <2>1, <2>2
<1>3. ASSUME NEW out \in MP!Outcome, MP!stopTask(out)
      PROVE  send'.pc = "idle" \/ (send.pc # "idle" /\ send'.ev = send.ev)
  BY <1>0, <1>3 DEF MP!stopTask, MP!SendIdle
<1>4. CASE MP!nextPendingEvent
  BY <1>4 DEF MP!nextPendingEvent
<1>5. CASE MP!RouteToStop \/ MP!RouteToWorker \/ MP!unassignTask
           \/ \E w \in Workers : MP!assignTask(w)
  BY <1>0, <1>5 DEF MP!RouteToStop, MP!RouteToWorker, MP!unassignTask, MP!assignTask
<1>6. CASE MP!RouteToNowhere \/ MP!SelectWorkerFails \/ MP!RequeueEvent \/ MP!RecordTask
           \/ MP!retireTask
  BY <1>6 DEF MP!RouteToNowhere, MP!SelectWorkerFails, MP!RequeueEvent, MP!RecordTask,
              MP!retireTask, MP!SendIdle
<1>7. CASE MP!SendStep
  <2>1. MP!Outcome = M!Outcome
    BY DEF MP!Outcome, M!Outcome
  <2> QED BY <1>2, <1>3, <1>4, <1>5, <1>6, <1>7, <2>1 DEF MP!SendStep
<1> QED
  BY <1>1, <1>7
  DEF ManagerPart, mvars, MP!ApiStep, MP!StartTaskHandler, MP!StopLookup, MP!StopEnqueue,
      MP!HealthStep, MP!HealthSnapshot, MP!checkTaskHealth, MP!RestartRoute,
      MP!beginRestart, MP!PostRestart, MP!RequeueRestart, UpdatePart, MP!UpdateTick,
      MP!UpdateFails, MP!applyWorkerReport, PollPart, MP!UpdateGet

(* The copy restartTask sends.                                             *)
LEMMA HealthMoves ==
  ASSUME CInv, ManagerPart, health'.pc \in {"post", "requeue"}
  PROVE  \/ health.pc \in {"post", "requeue"} /\ Restart' = Restart
         \/ \E t \in Tasks : /\ taskDb[t] # None
                             /\ Restart' = [task |-> t, rec |-> MP!Restarted(taskDb[t])]
<1>0. health \in [pc : MP!HealthPC, todo : [Tasks -> MP!HealthAction],
                  task : Tasks \cup {None}, worker : Workers \cup {None},
                  rec : MP!Rec \cup {None}]
  BY DEF CInv, MP!TypeOK, MP!HealthType
<1>1. CASE health' = health
  BY <1>1 DEF Restart
<1>2. \A t \in Tasks : MP!HealthAfter(t).pc \in {"idle", "scan"}
  BY DEF MP!HealthAfter, MP!HealthIdle
<1>3. CASE MP!HealthSnapshot
  BY <1>0, <1>3 DEF MP!HealthSnapshot
<1>4. ASSUME NEW t \in Tasks, NEW healthy \in BOOLEAN, MP!checkTaskHealth(t, healthy)
      PROVE  FALSE
  BY <1>0, <1>2, <1>4 DEF MP!checkTaskHealth
<1>5. ASSUME NEW t \in Tasks, MP!RestartRoute(t)
      PROVE  FALSE
  BY <1>0, <1>2, <1>5 DEF MP!RestartRoute
<1>6. CASE MP!beginRestart
  <2>1. health.task \in Tasks /\ taskDb[health.task] # None
    BY <1>6 DEF CInv, MP!TypeOK, MP!HealthType, MP!beginRestart
  <2>2. health' = [health EXCEPT !.pc = "post", !.rec = MP!Restarted(taskDb[health.task])]
    BY <1>2, <1>6, <2>1 DEF MP!beginRestart
  <2> QED BY <1>0, <2>1, <2>2 DEF Restart
<1>7. ASSUME NEW out \in M!Outcome, MP!PostRestart(out)
      PROVE  health.pc \in {"post", "requeue"} /\ Restart' = Restart
  <2>1. health.pc = "post" /\ health.task \in Tasks
    BY <1>7 DEF CInv, MP!TypeOK, MP!HealthType, MP!PostRestart
  <2>2. health' = [health EXCEPT !.pc = "requeue"]
    BY <1>2, <1>7, <2>1 DEF MP!PostRestart
  <2> QED BY <1>0, <2>1, <2>2 DEF Restart
<1>8. CASE MP!RequeueRestart
  <2>1. health.task \in Tasks
    BY <1>8 DEF CInv, MP!TypeOK, MP!HealthType, MP!RequeueRestart
  <2> QED BY <1>2, <1>8, <2>1 DEF MP!RequeueRestart
<1>9. CASE MP!HealthStep
  BY <1>3, <1>4, <1>5, <1>6, <1>7, <1>8, <1>9 DEF MP!HealthStep
<1> QED
  BY <1>1, <1>9
  DEF ManagerPart, mvars, MP!ApiStep, MP!StartTaskHandler, MP!StopLookup, MP!StopEnqueue,
      MP!SendStep, MP!nextPendingEvent, MP!RouteToStop, MP!RouteToNowhere, MP!RouteToWorker,
      MP!SelectWorkerFails, MP!assignTask, MP!postTaskEvent, MP!unassignTask,
      MP!RequeueEvent, MP!RecordTask, MP!stopTask, MP!retireTask, UpdatePart,
      MP!UpdateTick, MP!UpdateFails, MP!applyWorkerReport, PollPart, MP!UpdateGet

(* The events of stop requests in progress.                                *)
LEMMA ApiMoves ==
  ASSUME CInv, ManagerPart, NEW c \in Clients, api'[c] # None
  PROVE  \/ api'[c] = api[c]
         \/ \E t \in Tasks : /\ taskDb[t] # None
                             /\ api'[c] = [task |-> t,
                                           rec |-> MP!WithState(taskDb[t], MP!Completed)]
<1>0. api \in [Clients -> MP!Event \cup {None}]
  BY DEF CInv, MP!TypeOK
<1>1. CASE api' = api
  BY <1>1
<1>2. ASSUME NEW d \in Clients, NEW t \in Tasks, MP!StopLookup(d, t)
      PROVE  \/ api'[c] = api[c]
             \/ /\ taskDb[t] # None
                /\ api'[c] = [task |-> t, rec |-> MP!WithState(taskDb[t], MP!Completed)]
  BY <1>0, <1>2 DEF MP!StopLookup
<1>3. ASSUME NEW d \in Clients, MP!StopEnqueue(d)
      PROVE  api'[c] = api[c]
  BY <1>0, <1>3 DEF MP!StopEnqueue
<1>4. CASE MP!ApiStep
  BY <1>1, <1>2, <1>3, <1>4 DEF MP!ApiStep, MP!StartTaskHandler
<1> QED
  BY <1>1, <1>4
  DEF ManagerPart, mvars, MP!client,
      MP!SendStep, MP!nextPendingEvent, MP!RouteToStop, MP!RouteToNowhere, MP!RouteToWorker,
      MP!SelectWorkerFails, MP!assignTask, MP!postTaskEvent, MP!unassignTask,
      MP!RequeueEvent, MP!RecordTask, MP!stopTask, MP!retireTask, MP!HealthStep,
      MP!HealthSnapshot, MP!checkTaskHealth, MP!RestartRoute, MP!beginRestart,
      MP!PostRestart, MP!RequeueRestart, UpdatePart, MP!UpdateTick, MP!UpdateFails,
      MP!applyWorkerReport, PollPart, MP!UpdateGet

(* The reports a poll has yet to apply.                                    *)
LEMMA ReportsMove ==
  ASSUME CInv, ManagerPart, NEW w \in Workers
  PROVE  up'[w].reports \subseteq up[w].reports \/ up'[w].reports = Listed(w)
<1>0. up \in [Workers -> [pc : {"idle", "get", "apply"}, reports : SUBSET MP!Report]]
  BY DEF CInv, MP!TypeOK
<1>1. CASE up' = up
  BY <1>1
<1>2. CASE MP!UpdateTick
  BY <1>2 DEF MP!UpdateTick
<1>3. ASSUME NEW v \in Workers, MP!UpdateFails(v)
      PROVE  up'[w].reports \subseteq up[w].reports
  BY <1>0, <1>3 DEF MP!UpdateFails, MP!UpIdle
<1>4. ASSUME NEW v \in Workers, NEW r \in up[v].reports, MP!applyWorkerReport(v, r)
      PROVE  up'[w].reports \subseteq up[w].reports
  BY <1>0, <1>4 DEF MP!applyWorkerReport, MP!UpIdle
<1>5. ASSUME NEW v \in Workers, MP!UpdateGet(v, Listed(v))
      PROVE  up'[w].reports \subseteq up[w].reports \/ up'[w].reports = Listed(w)
  <2>1. up' = [up EXCEPT ![v] = [pc |-> "idle", reports |-> {}]]
        \/ up' = [up EXCEPT ![v] = [pc |-> "apply", reports |-> Listed(v)]]
    BY <1>5 DEF MP!UpdateGet, MP!UpIdle
  <2> QED BY <1>0, <2>1
<1> QED
  BY <1>1, <1>2, <1>3, <1>4, <1>5
  DEF ManagerPart, mvars, MP!ApiStep, MP!StartTaskHandler, MP!StopLookup, MP!StopEnqueue,
      MP!SendStep, MP!nextPendingEvent, MP!RouteToStop, MP!RouteToNowhere, MP!RouteToWorker,
      MP!SelectWorkerFails, MP!assignTask, MP!postTaskEvent, MP!unassignTask,
      MP!RequeueEvent, MP!RecordTask, MP!stopTask, MP!retireTask, MP!HealthStep,
      MP!HealthSnapshot, MP!checkTaskHealth, MP!RestartRoute, MP!beginRestart,
      MP!PostRestart, MP!RequeueRestart, UpdatePart, PollPart

(* Nothing a step puts into the manager's hands is foreign to the task.    *)
LEMMA HeldKept ==
  ASSUME CInv, ManagerPart, WP!TasksKept, MP!TypeOK'
  PROVE  Held'
<1> USE DEF WP!OwnedNext
<1>1. StoreHeld'
  <2> SUFFICES ASSUME NEW u \in Tasks, taskDb'[u] # None
               PROVE  WP!OwnedNext(taskDb'[u].cid, u)
    BY DEF StoreHeld, WP!OwnedBy
  <2>1. taskDb \in [Tasks -> MP!Rec \cup {None}]
    BY DEF CInv, MP!TypeOK
  <2>2. taskDb'[u] \in MP!Rec /\ WP!OwnedBy(taskDb'[u].cid, u)
    <3>1. CASE taskDb' = taskDb
      BY <2>1, <3>1 DEF CInv, Held, StoreHeld
    <3>2. ASSUME NEW t \in Tasks, NEW rec \in MP!Rec,
                 taskDb' = [taskDb EXCEPT ![t] = rec], WP!OwnedBy(rec.cid, t)
          PROVE  taskDb'[u] \in MP!Rec /\ WP!OwnedBy(taskDb'[u].cid, u)
      <4>1. CASE u = t
        BY <2>1, <3>2, <4>1
      <4>2. CASE u # t
        BY <2>1, <3>2, <4>2 DEF CInv, Held, StoreHeld
      <4> QED BY <4>1, <4>2
    <3> QED BY <3>1, <3>2, StoreMoves
  <2>3. taskDb'[u].cid \in Cids \cup {None}
    BY <2>2 DEF MP!Rec
  <2> QED BY <2>2, <2>3, WP!OwnedStill, WorkerAssumed
<1>2. QueueMay'
  <2> SUFFICES ASSUME NEW i \in 1..Len(pending')
               PROVE  MayNext(pending'[i])
    BY DEF QueueMay, May, MayNext, WP!OwnedBy
  <2>1. pending \in Seq(MP!Event) /\ QueueMay
    BY DEF CInv, MP!TypeOK, Held
  <2>2. pending'[i] \in MP!Event /\ May(pending'[i])
    <3>1. CASE pending' = pending
      BY <2>1, <3>1 DEF QueueMay
    <3>2. CASE pending # <<>> /\ pending' = Tail(pending)
      <4>1. i + 1 \in 1..Len(pending) /\ pending'[i] = pending[i + 1]
        BY <2>1, <3>2
      <4> QED BY <2>1, <4>1 DEF QueueMay
    <3>3. ASSUME NEW e \in MP!Event, May(e), pending' = Append(pending, e)
          PROVE  pending'[i] \in MP!Event /\ May(pending'[i])
      <4>1. CASE i \in 1..Len(pending)
        <5>1. pending'[i] = pending[i]
          BY <2>1, <3>3, <4>1
        <5> QED BY <2>1, <4>1, <5>1 DEF QueueMay
      <4>2. CASE i = Len(pending) + 1
        BY <2>1, <3>3, <4>2
      <4> QED BY <2>1, <3>3, <4>1, <4>2
    <3> QED BY <3>1, <3>2, <3>3, QueueMoves
  <2> QED BY <2>2, MayStill
<1>3. SendMay'
  <2> SUFFICES ASSUME send'.pc # "idle"
               PROVE  MayNext(send'.ev)
    BY DEF SendMay, May, MayNext, WP!OwnedBy
  <2>1. CASE send.pc # "idle" /\ send'.ev = send.ev
    <3>1. send.ev \in MP!Event /\ May(send.ev)
      BY <2>1 DEF CInv, MP!TypeOK, MP!SendType, Held, SendMay
    <3> QED BY <2>1, <3>1, MayStill
  <2>2. CASE pending # <<>> /\ send'.ev = Head(pending)
    <3>1. pending \in Seq(MP!Event)
      BY DEF CInv, MP!TypeOK
    <3>2. 1 \in 1..Len(pending) /\ Head(pending) = pending[1] /\ Head(pending) \in MP!Event
      BY <2>2, <3>1
    <3>3. May(Head(pending))
      BY <3>2 DEF CInv, Held, QueueMay
    <3> QED BY <2>2, <3>2, <3>3, MayStill
  <2> QED BY <2>1, <2>2, SendMoves
<1>4. HealthMay'
  <2> SUFFICES ASSUME health'.pc \in {"post", "requeue"}
               PROVE  MayNext(Restart')
    BY DEF HealthMay, May, MayNext, WP!OwnedBy
  <2>1. Restart' \in MP!Event
    BY DEF Restart, MP!TypeOK, MP!HealthType, MP!Event
  <2>2. May(Restart')
    <3>1. CASE health.pc \in {"post", "requeue"} /\ Restart' = Restart
      BY <3>1 DEF CInv, Held, HealthMay
    <3>2. ASSUME NEW t \in Tasks, taskDb[t] # None,
                 Restart' = [task |-> t, rec |-> MP!Restarted(taskDb[t])]
          PROVE  May(Restart')
      BY <3>2, CopyMay
    <3> QED BY <3>1, <3>2, HealthMoves
  <2> QED BY <2>1, <2>2, MayStill
<1>5. ApiMay'
  <2> SUFFICES ASSUME NEW c \in Clients, api'[c] # None
               PROVE  MayNext(api'[c])
    BY DEF ApiMay, May, MayNext, WP!OwnedBy
  <2>1. api'[c] \in MP!Event
    BY DEF MP!TypeOK
  <2>2. May(api'[c])
    <3>1. CASE api'[c] = api[c]
      BY <3>1 DEF CInv, Held, ApiMay
    <3>2. ASSUME NEW t \in Tasks, taskDb[t] # None,
                 api'[c] = [task |-> t, rec |-> MP!WithState(taskDb[t], MP!Completed)]
          PROVE  May(api'[c])
      BY <3>2, CopyMay
    <3> QED BY <3>1, <3>2, ApiMoves
  <2> QED BY <2>1, <2>2, MayStill
<1>6. ReportsHeld'
  <2> SUFFICES ASSUME NEW w \in Workers, NEW r \in up'[w].reports
               PROVE  WP!OwnedNext(r.cid, r.task)
    BY DEF ReportsHeld, WP!OwnedBy
  <2>1. r \in MP!Report
    BY DEF MP!TypeOK
  <2>2. WP!OwnedBy(r.cid, r.task)
    <3>1. CASE r \in up[w].reports
      BY <3>1 DEF CInv, Held, ReportsHeld
    <3>2. CASE r \in Listed(w)
      <4>1. PICK t \in Tasks : /\ wDb[w][t] # None
                               /\ r = [task |-> t, state |-> wDb[w][t].state,
                                       cid |-> wDb[w][t].cid]
        BY <3>2 DEF Listed
      <4>2. WP!OwnedBy(wDb[w][t].cid, t)
        BY <4>1 DEF CInv, WP!Ownership, WP!DbOwned
      <4> QED BY <4>1, <4>2
    <3> QED BY <3>1, <3>2, ReportsMove
  <2>3. r.cid \in Cids \cup {None} /\ r.task \in Tasks
    BY <2>1 DEF MP!Report
  <2> QED BY <2>2, <2>3, WP!OwnedStill, WorkerAssumed
<1> QED BY <1>1, <1>2, <1>3, <1>4, <1>5, <1>6 DEF Held

(* Both parts start as they do alone.                                      *)
LEMMA SameInit == Init => MP!Init /\ WP!WInit
<1>1. Init => MP!Init
  BY DEF Init, M!Init, MP!Init, M!SendIdle, MP!SendIdle, M!HealthIdle, MP!HealthIdle,
         M!UpIdle, MP!UpIdle
<1>2. Init => WP!WInit
  BY DEF Init, W!WInit, WP!WInit, W!RunIdle, WP!RunIdle, W!UpdIdle, WP!UpdIdle
<1> QED BY <1>1, <1>2

(* The manager starts with nothing in its hands.                           *)
LEMMA InitCInv == Init => CInv
<1> SUFFICES ASSUME Init
             PROVE  CInv
  OBVIOUS
<1>1. MP!Init
  BY SameInit
<1>2. WP!WInit
  BY SameInit
<1>3. MP!TypeOK
  BY <1>1, MP!InitType, ManagerAssumed
<1>4. WP!WTypeOK /\ WP!Ownership
  BY <1>2, WP!InitType, WP!InitOwnership, WorkerAssumed
<1>5. Held
  BY <1>1, ManagerAssumed
  DEF MP!Init, MP!SendIdle, MP!HealthIdle, MP!UpIdle, Held, StoreHeld, QueueMay, SendMay,
      HealthMay, ApiMay, ReportsHeld
<1> QED BY <1>3, <1>4, <1>5 DEF CInv

(* The invariant is inductive.                                             *)
LEMMA CInvKept == CInv /\ [Next]_vars => CInv'
<1> SUFFICES ASSUME CInv, [Next]_vars
             PROVE  CInv'
  OBVIOUS
<1>1. ManagerPart
  BY ManagerHalf
<1>2. [WP!WNext]_(WP!wvars)
  BY WorkerHalf, SameContract
<1>3. WP!WTypeOK /\ WP!Ownership
  BY DEF CInv
<1>4. WP!TasksKept
  BY <1>2, <1>3, WP!DockerStep, WorkerAssumed
<1>5. WP!WTypeOK'
  BY <1>2, <1>3, WP!NextType, WorkerAssumed
<1>6. WP!Ownership'
  BY <1>2, <1>3, <1>5, WP!OwnershipKept, WorkerAssumed
<1>7. MP!TypeOK'
  BY <1>1, ManagerTyped
<1>8. Held'
  BY <1>1, <1>4, <1>7, HeldKept
<1> QED BY <1>5, <1>6, <1>7, <1>8 DEF CInv

(* The manager drives its workers within their contract: each step of the  *)
(* cluster is a step of WNext or leaves the workers alone, because every   *)
(* post carries a state of PostStates and a container id that is the       *)
(* task's own, from however old a copy SendWork or restartTask takes it.   *)
THEOREM ContractKept == Spec => WorkerContract
<1>1. Init => W!WInit
  BY DEF Init
<1>2. CInv /\ [Next]_vars => [W!WNext]_(W!wvars)
  BY WorkerHalf DEF wvars, W!wvars
<1> QED BY <1>1, <1>2, InitCInv, CInvKept, PTL DEF Spec, WorkerContract, W!WSpec

(* The contract under the names of WorkerProofs.                           *)
LEMMA SameSpec == WorkerContract => WP!WSpec
<1>1. W!WInit => WP!WInit
  BY DEF W!WInit, WP!WInit, W!RunIdle, WP!RunIdle, W!UpdIdle, WP!UpdIdle
<1>2. [W!WNext]_(W!wvars) => [WP!WNext]_(WP!wvars)
  BY SameContract DEF wvars, W!wvars
<1> QED BY <1>1, <1>2, PTL DEF WorkerContract, W!WSpec, WP!WSpec

(* What is proved of the worker alone holds of every worker of a cluster.  *)
(* A worker's record of a completed task never changes again, whatever the *)
(* manager's health checks and requeued events still send it.              *)
THEOREM CompletedInCluster == Spec => W!CompletedIsTerminal
<1>1. WP!CompletedIsTerminal => W!CompletedIsTerminal
  BY DEF WP!CompletedIsTerminal, W!CompletedIsTerminal, WP!wvars, W!wvars, WP!Completed,
         W!Completed
<1>2. WP!WSpec => WP!CompletedIsTerminal
  BY WP!CompletedStays, WorkerAssumed
<1> QED BY <1>1, <1>2, ContractKept, SameSpec

(* And a named task has one container on a worker at most, none once the   *)
(* worker has it Completed.                                                *)
THEOREM NamedInCluster == Spec => []W!NamedIsRemoved
<1>1. WP!NamedIsRemoved => W!NamedIsRemoved
  BY DEF WP!NamedIsRemoved, W!NamedIsRemoved, WP!ContainersOf, W!ContainersOf, WP!Exists,
         W!Exists, WP!Live, W!Live, WP!Completed, W!Completed
<1>2. WP!WSpec => []WP!NamedIsRemoved
  BY WP!NamedIsCleared, WorkerAssumed
<1> QED BY <1>1, <1>2, ContractKept, SameSpec, PTL

(* Where no client submits a task as Running, a worker shows none as       *)
(* Running without a container: no restart and no stale copy the manager   *)
(* sends is in that state.                                                 *)
THEOREM RunningInCluster ==
  ASSUME Running \notin PostStates
  PROVE  Spec => []W!RunningHasContainer
<1>1. WP!NoRunningSent
  BY DEF WP!NoRunningSent, WP!Running, Running
<1>2. WP!RunningHasContainer => W!RunningHasContainer
  BY DEF WP!RunningHasContainer, W!RunningHasContainer, WP!Exists, W!Exists, WP!Live, W!Live,
         WP!Running, W!Running
<1>3. WP!WSpec => []WP!RunningHasContainer
  BY <1>1, WP!RunningIsBacked, WorkerAssumed
<1> QED BY <1>2, <1>3, ContractKept, SameSpec, PTL

-----------------------------------------------------------------------------
(* The manager of a cluster is the manager of ManagerProofs among workers  *)
(* that may answer anything: no step of the cluster asks of it a step it   *)
(* does not have.                                                          *)
LEMMA ManagerStays == Spec => MP!Spec
<1>1. Init => MP!Init
  BY SameInit
<1>2. CInv /\ [Next]_vars => [MP!Next]_(MP!vars)
  <2> SUFFICES ASSUME CInv, [Next]_vars
               PROVE  [MP!Next]_(MP!vars)
    OBVIOUS
  <2>1. ManagerPart /\ WP!WTypeOK
    BY ManagerHalf DEF CInv
  <2>2. UNCHANGED mvars => UNCHANGED MP!vars
    BY DEF mvars, MP!vars, MP!routing, MP!client
  <2> QED BY <2>1, <2>2, PartIsStep DEF ManagerPart, MP!Next
<1> QED BY <1>1, <1>2, InitCInv, CInvKept, PTL DEF Spec, MP!Spec

(* What is proved of the manager alone holds in a cluster. A poll that     *)
(* left the worker before it was told of the stop never takes a task out   *)
(* of Completed again.                                                     *)
THEOREM NoResurrectionInCluster == Spec => M!ReportsNeverResurrect
<1>1. MP!Spec => MP!ReportsNeverResurrect
  BY MP!NoResurrection, ManagerAssumed
<1>2. MP!ReportsNeverResurrect => M!ReportsNeverResurrect
  BY DEF MP!ReportsNeverResurrect, M!ReportsNeverResurrect, MP!vars, M!vars, MP!routing,
         M!routing, MP!client, M!client, MP!Completed, M!Completed
<1> QED BY <1>1, <1>2, ManagerStays

(* Where ids are fresh and reads of the store do not fail, the two routing *)
(* maps stay each other's inverse, whichever requests of a cluster do not  *)
(* arrive or are answered too late.                                        *)
THEOREM RoutingInCluster ==
  ASSUME MaxSubmits <= 1, "get" \notin StoreFaults
  PROVE  Spec => []M!RoutingConsistent
<1>1. MP!Fresh
  BY DEF MP!Fresh
<1>2. MP!Spec => []MP!RoutingConsistent
  BY <1>1, MP!RoutingFresh, ManagerAssumed
<1>3. MP!RoutingConsistent => M!RoutingConsistent
  BY DEF MP!RoutingConsistent, M!RoutingConsistent
<1> QED BY <1>2, <1>3, ManagerStays, PTL

(* However old the copies SendWork, restartTask, a stop request or a poll  *)
(* work from, a container id the manager holds for a task is a container   *)
(* of that task: a restart never stops a container of another one.         *)
THEOREM HeldIdsAreTheTasks == Spec => []Held
<1>1. CInv => Held
  BY DEF CInv
<1> QED BY <1>1, InitCInv, CInvKept, PTL DEF Spec

-----------------------------------------------------------------------------
(***************************************************************************)
(* One worker per task. Everything a worker has of a task nobody has asked *)
(* to stop came from a post to the worker the task is routed to; the route *)
(* changes only while the task waits for its first dispatch, and no worker *)
(* has anything of it then.                                                *)
(***************************************************************************)
QueuedAt(w, t) == \E i \in 1..Len(wQueue[w]) : wQueue[w][i].task = t
RunsAt(w, t) == run[w].pc # "idle" /\ run[w].ent.task = t
StopsAt(w, t) == stop[w] # None /\ stop[w].task = t
BoxedAt(w, t) ==
  \E c \in Cids : docker[c].st \in W!Live /\ docker[c].node = w /\ docker[c].task = t

Has(w, t) == QueuedAt(w, t) \/ RunsAt(w, t) \/ StopsAt(w, t) \/ BoxedAt(w, t)

Place(t) ==
  stops[t] = 0 =>
    /\ \A w \in Workers : Has(w, t) => taskWorkerMap[t] = w
    /\ MP!Waiting(t) => \A w \in Workers : ~ Has(w, t)

(* What an AddTask does to a worker's queue.                               *)
LEMMA AddedAt ==
  ASSUME WP!WTypeOK, NEW w \in Workers, NEW e \in WP!Entry,
         wQueue' = [wQueue EXCEPT ![w] = Append(wQueue[w], e)]
  PROVE  \A v \in Workers, t \in Tasks :
           QueuedAt(v, t)' => QueuedAt(v, t) \/ (v = w /\ e.task = t)
<1> SUFFICES ASSUME NEW v \in Workers, NEW t \in Tasks, QueuedAt(v, t)'
             PROVE  QueuedAt(v, t) \/ (v = w /\ e.task = t)
  OBVIOUS
<1>1. wQueue \in [Workers -> Seq(WP!Entry)]
  BY DEF WP!WTypeOK
<1>2. CASE v = w
  <2>1. wQueue'[v] = Append(wQueue[v], e) /\ wQueue[v] \in Seq(WP!Entry)
    BY <1>1, <1>2
  <2>2. PICK i \in 1..Len(wQueue'[v]) : wQueue'[v][i].task = t
    BY DEF QueuedAt
  <2>3. CASE i \in 1..Len(wQueue[v])
    <3>1. wQueue'[v][i] = wQueue[v][i]
      BY <2>1, <2>3
    <3> QED BY <2>2, <2>3, <3>1 DEF QueuedAt
  <2>4. CASE i = Len(wQueue[v]) + 1
    BY <1>2, <2>1, <2>2, <2>4
  <2> QED BY <2>1, <2>2, <2>3, <2>4
<1>3. CASE v # w
  <2>1. wQueue'[v] = wQueue[v]
    BY <1>1, <1>3
  <2> QED BY <2>1 DEF QueuedAt
<1> QED BY <1>2, <1>3

(* A post adds the posted task to the worker, and nothing else.            *)
LEMMA PostedAt ==
  ASSUME WP!WTypeOK, NEW w \in Workers, NEW u \in Tasks, NEW rec \in MP!Rec,
         W!WStartTaskHandler(w, Wire(u, rec))
  PROVE  \A v \in Workers, t \in Tasks : Has(v, t)' => Has(v, t) \/ (v = w /\ u = t)
<1>1. WP!State = MP!State
  BY DEF WP!State, MP!State,
         WP!Pending, WP!Scheduled, WP!Running, WP!Completed, WP!Failed,
         MP!Pending, MP!Scheduled, MP!Running, MP!Completed, MP!Failed
<1>2. Wire(u, rec) \in WP!Entry /\ Wire(u, rec).task = u
  BY <1>1 DEF Wire, WP!Entry, WP!WRec, MP!Rec
<1>3. /\ wQueue' = [wQueue EXCEPT ![w] = Append(wQueue[w], Wire(u, rec))]
      /\ UNCHANGED <<run, stop, docker>>
  BY DEF W!WStartTaskHandler
<1>4. \A v \in Workers, t \in Tasks :
        QueuedAt(v, t)' => QueuedAt(v, t) \/ (v = w /\ u = t)
  BY <1>2, <1>3, AddedAt
<1>5. \A v \in Workers, t \in Tasks :
        /\ RunsAt(v, t)' => RunsAt(v, t)
        /\ StopsAt(v, t)' => StopsAt(v, t)
        /\ BoxedAt(v, t)' => BoxedAt(v, t)
  BY <1>3 DEF RunsAt, StopsAt, BoxedAt
<1> QED BY <1>4, <1>5 DEF Has

(* A stop goes from the handler to the queue of the same worker.           *)
LEMMA StopMoves ==
  ASSUME WP!WTypeOK, NEW w \in Workers, W!WStopEnqueue(w)
  PROVE  \A v \in Workers, t \in Tasks : Has(v, t)' => Has(v, t)
<1>1. /\ stop[w] # None /\ stop[w] \in WP!Entry
      /\ wQueue' = [wQueue EXCEPT ![w] = Append(wQueue[w], stop[w])]
      /\ stop' = [stop EXCEPT ![w] = None]
      /\ UNCHANGED <<run, docker>>
  BY DEF W!WStopEnqueue, WP!WTypeOK
<1>2. \A v \in Workers, t \in Tasks : QueuedAt(v, t)' => QueuedAt(v, t) \/ StopsAt(v, t)
  BY <1>1, AddedAt DEF StopsAt
<1>3. \A v \in Workers, t \in Tasks :
        /\ RunsAt(v, t)' => RunsAt(v, t)
        /\ BoxedAt(v, t)' => BoxedAt(v, t)
  BY <1>1 DEF RunsAt, BoxedAt
<1>4. \A v \in Workers, t \in Tasks : StopsAt(v, t)' => StopsAt(v, t)
  BY <1>1 DEF StopsAt, WP!WTypeOK
<1> QED BY <1>2, <1>3, <1>4 DEF Has

(* Looking a stop's task up adds that task.                                *)
LEMMA LookedUpAt ==
  ASSUME WP!WTypeOK, NEW w \in Workers, NEW u \in Tasks, W!WStopLookup(w, u)
  PROVE  \A v \in Workers, t \in Tasks : Has(v, t)' => Has(v, t) \/ u = t
<1>1. /\ \E rec : stop' = [stop EXCEPT ![w] = [task |-> u, rec |-> rec]]
      /\ UNCHANGED <<wQueue, run, docker>>
  BY DEF W!WStopLookup
<1>2. \A v \in Workers, t \in Tasks :
        /\ QueuedAt(v, t)' => QueuedAt(v, t)
        /\ RunsAt(v, t)' => RunsAt(v, t)
        /\ BoxedAt(v, t)' => BoxedAt(v, t)
  BY <1>1 DEF QueuedAt, RunsAt, BoxedAt
<1>3. \A v \in Workers, t \in Tasks : StopsAt(v, t)' => StopsAt(v, t) \/ u = t
  BY <1>1 DEF StopsAt, WP!WTypeOK
<1> QED BY <1>2, <1>3 DEF Has

(* A container moved from one state to another was there before.           *)
LEMMA MovedAt ==
  ASSUME WP!WTypeOK, NEW c \in Cids, NEW st, docker[c].st \in W!Live,
         docker' = W!Moved(c, st)
  PROVE  \A v \in Workers, t \in Tasks : BoxedAt(v, t)' => BoxedAt(v, t)
<1>1. docker \in [Cids -> WP!Container]
  BY DEF WP!WTypeOK
<1>2. \A d \in Cids : /\ docker'[d].node = docker[d].node
                      /\ docker'[d].task = docker[d].task
                      /\ docker'[d].st \in W!Live => docker[d].st \in W!Live
  BY <1>1 DEF W!Moved
<1> QED BY <1>2 DEF BoxedAt, W!Live

(* RunTasks takes what it has from its queue, and makes containers of it.  *)
LEMMA RunShrinks ==
  ASSUME WP!WTypeOK, NEW w \in Workers, W!RunStep(w)
  PROVE  \A v \in Workers, t \in Tasks : Has(v, t)' => Has(v, t)
<1>0. /\ wQueue \in [Workers -> Seq(WP!Entry)] /\ DOMAIN run = Workers
      /\ docker \in [Cids -> WP!Container]
      /\ run[w] \in [pc : WP!RunPC, ent : WP!Entry \cup {None}, cid : Cids \cup {None}]
      /\ run[w].pc # "idle" => run[w].ent \in WP!Entry
  BY DEF WP!WTypeOK, WP!RunType
<1>1. /\ UNCHANGED stop
      /\ \A v \in Workers, t \in Tasks : StopsAt(v, t)' => StopsAt(v, t)
  <2>1. UNCHANGED stop
    BY DEF W!RunStep, W!RunTask, W!ContainerStop, W!ContainerRemove, W!CreateFails, W!Run,
           W!Upsert
  <2> QED BY <2>1 DEF StopsAt
<1>2. CASE W!RunTask(w)
  <2> DEFINE e == Head(wQueue[w])
  <2>1. /\ wQueue[w] # <<>> /\ wQueue' = [wQueue EXCEPT ![w] = Tail(wQueue[w])]
        /\ UNCHANGED docker
        /\ \/ run' = [run EXCEPT ![w] = [pc |-> W!FirstCall(e), ent |-> e, cid |-> None]]
           \/ run' = [run EXCEPT ![w] = W!RunIdle]
    BY <1>2 DEF W!RunTask
  <2>2. /\ Len(wQueue[w]) \in Nat /\ Len(wQueue[w]) > 0
        /\ Len(wQueue'[w]) = Len(wQueue[w]) - 1
        /\ \A i \in 1..Len(wQueue'[w]) : wQueue'[w][i] = wQueue[w][i + 1]
        /\ e = wQueue[w][1]
    BY <1>0, <2>1
  <2>3. \A v \in Workers : v # w => wQueue'[v] = wQueue[v] /\ run'[v] = run[v]
    BY <1>0, <2>1
  <2>4. run'[w].pc = "idle" \/ run'[w].ent = e
    BY <1>0, <2>1 DEF W!RunIdle
  <2> HIDE DEF e
  <2>5. \A v \in Workers, t \in Tasks : QueuedAt(v, t)' => QueuedAt(v, t)
    <3> SUFFICES ASSUME NEW v \in Workers, NEW t \in Tasks, QueuedAt(v, t)'
                 PROVE  QueuedAt(v, t)
      OBVIOUS
    <3>1. CASE v = w
      <4>1. PICK i \in 1..Len(wQueue'[w]) : wQueue'[w][i].task = t
        BY <3>1 DEF QueuedAt
      <4>2. i + 1 \in 1..Len(wQueue[w]) /\ wQueue[w][i + 1].task = t
        BY <2>2, <4>1
      <4> QED BY <3>1, <4>2 DEF QueuedAt
    <3>2. CASE v # w
      BY <2>3, <3>2 DEF QueuedAt
    <3> QED BY <3>1, <3>2
  <2>6. \A v \in Workers, t \in Tasks : RunsAt(v, t)' => RunsAt(v, t) \/ QueuedAt(v, t)
    <3> SUFFICES ASSUME NEW v \in Workers, NEW t \in Tasks, RunsAt(v, t)'
                 PROVE  RunsAt(v, t) \/ QueuedAt(v, t)
      OBVIOUS
    <3>1. CASE v = w
      <4>1. wQueue[w][1].task = t /\ 1 \in 1..Len(wQueue[w])
        BY <2>2, <2>4, <3>1 DEF RunsAt
      <4> QED BY <3>1, <4>1 DEF QueuedAt
    <3>2. CASE v # w
      BY <2>3, <3>2 DEF RunsAt
    <3> QED BY <3>1, <3>2
  <2>7. \A v \in Workers, t \in Tasks : BoxedAt(v, t)' => BoxedAt(v, t)
    BY <2>1 DEF BoxedAt
  <2> QED BY <1>1, <2>5, <2>6, <2>7 DEF Has
<1>3. ASSUME run[w].pc # "idle", UNCHANGED wQueue,
             \E r : run' = [run EXCEPT ![w] = r] /\ (r.pc = "idle" \/ r.ent = run[w].ent)
      PROVE  \A v \in Workers, t \in Tasks :
               /\ QueuedAt(v, t)' => QueuedAt(v, t)
               /\ RunsAt(v, t)' => RunsAt(v, t)
  <2>1. \A v \in Workers : \/ run'[v] = run[v]
                           \/ v = w /\ (run'[v].pc = "idle" \/ run'[v].ent = run[w].ent)
    BY <1>0, <1>3
  <2> QED BY <1>3, <2>1 DEF QueuedAt, RunsAt
<1>4. CASE W!ContainerStop(w) \/ W!ContainerRemove(w)
  <2>1. /\ run[w].pc # "idle" /\ UNCHANGED wQueue
        /\ \E r : run' = [run EXCEPT ![w] = r] /\ (r.pc = "idle" \/ r.ent = run[w].ent)
    BY <1>4 DEF W!ContainerStop, W!ContainerRemove, W!RunAt, W!CallFailed, W!RunIdle
  <2>2. run[w].ent.rec.cid \in Cids \cup {None}
    BY <1>0, <2>1 DEF WP!Entry, WP!WRec
  <2>3. \/ UNCHANGED docker
        \/ \E st : /\ run[w].ent.rec.cid \in Cids
                   /\ docker[run[w].ent.rec.cid].st \in W!Live
                   /\ docker' = W!Moved(run[w].ent.rec.cid, st)
    BY <1>4, <2>2 DEF W!ContainerStop, W!ContainerRemove, W!Exists
  <2>4. \A v \in Workers, t \in Tasks : BoxedAt(v, t)' => BoxedAt(v, t)
    <3>1. CASE UNCHANGED docker
      BY <3>1 DEF BoxedAt
    <3> QED BY <2>3, <3>1, MovedAt
  <2> QED BY <1>1, <1>3, <2>1, <2>4 DEF Has
<1>5. CASE W!CreateFails(w) \/ W!Upsert(w)
  <2>1. /\ run[w].pc # "idle" /\ UNCHANGED <<wQueue, docker>>
        /\ \E r : run' = [run EXCEPT ![w] = r] /\ (r.pc = "idle" \/ r.ent = run[w].ent)
    BY <1>5 DEF W!CreateFails, W!Upsert, W!RunAt, W!CallFailed, W!RunIdle
  <2>2. \A v \in Workers, t \in Tasks : BoxedAt(v, t)' => BoxedAt(v, t)
    BY <2>1 DEF BoxedAt
  <2> QED BY <1>1, <1>3, <2>1, <2>2 DEF Has
<1>6. ASSUME NEW c \in Cids, W!Run(w, c)
      PROVE  \A v \in Workers, t \in Tasks : Has(v, t)' => Has(v, t)
  <2>1. /\ run[w].pc # "idle" /\ UNCHANGED wQueue
        /\ \E r : run' = [run EXCEPT ![w] = r] /\ (r.pc = "idle" \/ r.ent = run[w].ent)
    BY <1>6 DEF W!Run, W!RunAt, W!CallFailed, W!RunIdle
  <2>2. \E st : docker' = [docker EXCEPT ![c] =
                             [st |-> st, task |-> run[w].ent.task, node |-> w]]
    BY <1>6 DEF W!Run
  <2>3. \A d \in Cids : \/ docker'[d] = docker[d]
                        \/ docker'[d].task = run[w].ent.task /\ docker'[d].node = w
    BY <1>0, <2>2
  <2>4. \A v \in Workers, t \in Tasks : BoxedAt(v, t)' => BoxedAt(v, t) \/ RunsAt(v, t)
    BY <2>1, <2>3 DEF BoxedAt, RunsAt, W!Live
  <2> QED BY <1>1, <1>3, <2>1, <2>4 DEF Has
<1> QED BY <1>2, <1>4, <1>5, <1>6 DEF W!RunStep

(* updateTasks only rewrites records.                                      *)
LEMMA UpdateShrinks ==
  ASSUME NEW w \in Workers, W!UpdateStepW(w)
  PROVE  \A v \in Workers, t \in Tasks : Has(v, t)' => Has(v, t)
<1>1. UNCHANGED <<wQueue, run, stop, docker>>
  BY DEF W!UpdateStepW, W!UpdateSnapshot, W!Inspect, W!UpdateWrite
<1> QED BY <1>1 DEF Has, QueuedAt, RunsAt, StopsAt, BoxedAt

(* And a container that exits stays where it is.                           *)
LEMMA ExitShrinks ==
  ASSUME WP!WTypeOK, NEW c \in Cids, W!ContainerExit(c)
  PROVE  \A v \in Workers, t \in Tasks : Has(v, t)' => Has(v, t)
<1>1. /\ docker[c].st \in W!Live /\ docker' = W!Moved(c, "exited")
      /\ UNCHANGED <<wQueue, run, stop>>
  BY DEF W!ContainerExit, W!Live
<1>2. \A v \in Workers, t \in Tasks : BoxedAt(v, t)' => BoxedAt(v, t)
  BY <1>1, MovedAt
<1> QED BY <1>1, <1>2 DEF Has, QueuedAt, RunsAt, StopsAt

(* The invariants of the manager's part, in a cluster.                     *)
Routed == MP!TypeOK /\ MP!MInv /\ MP!Steady

(* A step that brings a worker nothing of t keeps t in its place.          *)
LEMMA PlaceQuiet ==
  ASSUME NEW t \in Tasks, MP!Fresh, Routed, Place(t), [MP!Next]_(MP!vars),
         \A w \in Workers : Has(w, t)' => Has(w, t)
  PROVE  Place(t)'
<1> SUFFICES ASSUME stops'[t] = 0
             PROVE  /\ \A w \in Workers : Has(w, t)' => taskWorkerMap'[t] = w
                    /\ MP!Waiting(t)' => \A w \in Workers : ~ Has(w, t)'
  BY DEF Place
<1>1. /\ stops[t] = 0
      /\ MP!Waiting(t)' => MP!Waiting(t)
      /\ taskWorkerMap'[t] # taskWorkerMap[t] => MP!Waiting(t)
  BY MP!RouteStays, ManagerAssumed DEF Routed
<1> QED BY <1>1 DEF Place

(* A dispatch that arrives finds no worker with anything of the task,      *)
(* whether the manager can read the answer or not.                         *)
LEMMA PlaceSent ==
  ASSUME NEW t \in Tasks, MP!Fresh, Routed, CInv, Place(t), [MP!Next]_(MP!vars),
         NEW out \in {"created", "rejected"}, SendExchange(out), ~ UNCHANGED wvars
  PROVE  Place(t)'
<1>1. /\ send.pc = "post" /\ send'.pc \in {"record", "idle"}
      /\ UNCHANGED <<taskDb, taskWorkerMap, pending, submits, stops>>
  BY DEF SendExchange, M!postTaskEvent, M!SendIdle, M!routing, M!client, CInv, MP!TypeOK,
         MP!SendType
<1>2. send.ev.task \in Tasks /\ send.ev.rec \in MP!Rec /\ send.worker \in Workers
  BY <1>1 DEF CInv, MP!TypeOK, MP!SendType, MP!Event
<1>3. W!WStartTaskHandler(send.worker, Wire(send.ev.task, send.ev.rec))
  BY DEF SendExchange, Delivered
<1>4. \A v \in Workers : Has(v, t)' => Has(v, t) \/ (v = send.worker /\ send.ev.task = t)
  BY <1>2, <1>3, PostedAt DEF CInv
<1>5. CASE send.ev.task # t
  BY <1>4, <1>5, PlaceQuiet
<1>6. CASE send.ev.task = t
  <2> SUFFICES ASSUME stops[t] = 0
               PROVE  /\ \A w \in Workers : Has(w, t)' => taskWorkerMap'[t] = w
                      /\ ~ MP!Waiting(t)'
    BY <1>1 DEF Place
  <2>1. /\ ~ MP!Queued(t) /\ submits[t] # 0 /\ MP!Waiting(t)
        /\ taskWorkerMap[t] = send.worker
    BY <1>1, <1>6, MP!DispatchWaits, ManagerAssumed DEF Routed, MP!Dispatching
  <2>2. \A w \in Workers : ~ Has(w, t)
    BY <2>1 DEF Place
  <2>3. ~ MP!Waiting(t)'
    BY <1>1, <2>1 DEF MP!Waiting, MP!Queued, MP!Holds
  <2> QED BY <1>1, <1>4, <2>1, <2>2, <2>3
<1> QED BY <1>5, <1>6

(* A restart that arrives goes to the worker the task is routed to.        *)
LEMMA PlaceRestarted ==
  ASSUME NEW t \in Tasks, MP!Fresh, Routed, CInv, Place(t), [MP!Next]_(MP!vars),
         NEW out, RestartExchange(out), ~ UNCHANGED wvars
  PROVE  Place(t)'
<1>1. /\ health.pc = "post"
      /\ UNCHANGED <<taskDb, taskWorkerMap, pending, send, submits, stops>>
  BY DEF RestartExchange, M!PostRestart, M!routing, M!client
<1>2. /\ health.task \in Tasks /\ health.rec \in MP!Rec /\ health.worker \in Workers
      /\ taskDb[health.task] # None
  BY <1>1 DEF CInv, MP!TypeOK, MP!HealthType
<1>3. W!WStartTaskHandler(health.worker, Wire(health.task, health.rec))
  BY DEF RestartExchange, Delivered
<1>4. \A v \in Workers : Has(v, t)' => Has(v, t) \/ (v = health.worker /\ health.task = t)
  BY <1>2, <1>3, PostedAt DEF CInv
<1>5. CASE health.task # t
  BY <1>4, <1>5, PlaceQuiet
<1>6. CASE health.task = t
  <2> SUFFICES ASSUME stops[t] = 0
               PROVE  /\ \A w \in Workers : Has(w, t)' => taskWorkerMap'[t] = w
                      /\ ~ MP!Waiting(t)'
    BY <1>1 DEF Place
  <2>1. taskWorkerMap[t] = health.worker
    BY <1>1, <1>6 DEF Routed, MP!Steady, MP!RestartKnowsRoute
  <2>2. ~ MP!Waiting(t)'
    BY <1>1, <1>2, <1>6 DEF MP!Waiting
  <2> QED BY <1>1, <1>4, <2>1, <2>2 DEF Place
<1> QED BY <1>5, <1>6

(* Every task keeps its place, where a dispatch that looks unreachable did *)
(* not arrive. A restart that did goes to the worker the task is on.       *)
LEMMA PlaceKept ==
  ASSUME NEW t \in Tasks, MP!Fresh, "dispatch" \notin LateReplies, Routed, CInv, Place(t),
         [MP!Next]_(MP!vars), [Next]_vars
  PROVE  Place(t)'
<1>0. WP!WTypeOK
  BY DEF CInv
<1>1. CASE UNCHANGED wvars
  <2>1. \A w \in Workers : Has(w, t)' => Has(w, t)
    BY <1>1 DEF wvars, Has, QueuedAt, RunsAt, StopsAt, BoxedAt
  <2> QED BY <2>1, PlaceQuiet
<1>2. ASSUME NEW out \in PostOutcomes, SendExchange(out)
      PROVE  Place(t)'
  <2>1. UNCHANGED wvars \/ out \in {"created", "rejected"}
    BY <1>2 DEF SendExchange, Delivered
  <2> QED BY <1>1, <1>2, <2>1, PlaceSent
<1>3. ASSUME NEW out \in PostOutcomes, RestartExchange(out)
      PROVE  Place(t)'
  BY <1>1, <1>3, PlaceRestarted
<1>4. CASE StopArrives
  <2>1. /\ send.pc = "stop" /\ W!WStopLookup(send.worker, send.ev.task)
        /\ send.ev.task \in Tasks /\ send.worker \in Workers
    BY <1>4 DEF StopArrives, CInv, MP!TypeOK, MP!SendType, MP!Event
  <2>2. UNCHANGED stops
    BY <1>4 DEF StopArrives, mvars
  <2>3. CASE stops[t] = 0
    <3>1. send.ev.task # t
      BY <2>1, <2>3 DEF Routed, MP!Steady, MP!Stopping
    <3> QED BY <1>0, <2>1, <3>1, LookedUpAt, PlaceQuiet
  <2>4. CASE stops[t] # 0
    BY <2>2, <2>4 DEF Place
  <2> QED BY <2>3, <2>4
<1>5. CASE StopAnswered \/ StopTimesOut
  <2>1. W!WStopEnqueue(send.worker) /\ send.worker \in Workers
    BY <1>5 DEF StopAnswered, StopTimesOut, M!stopTask, CInv, MP!TypeOK, MP!SendType
  <2> QED BY <1>0, <2>1, StopMoves, PlaceQuiet
<1>6. ASSUME NEW w \in Workers, RunLoop(w) \/ UpdaterLoop(w)
      PROVE  Place(t)'
  BY <1>0, <1>6, RunShrinks, UpdateShrinks, PlaceQuiet DEF RunLoop, UpdaterLoop
<1>7. ASSUME NEW c \in Cids, Exit(c)
      PROVE  Place(t)'
  BY <1>0, <1>7, ExitShrinks, PlaceQuiet DEF Exit
<1>8. CASE UNCHANGED vars
  BY <1>1, <1>8 DEF vars
<1> QED
  BY <1>1, <1>2, <1>3, <1>4, <1>5, <1>6, <1>7, <1>8
  DEF Next, SendLoop, SendLocal, StopFails, HealthLoop, HealthLocal, Probe, UpdateLoop,
      UpdateLocal, Poll

(* A task nobody has asked to stop never has containers on two workers,    *)
(* for any number of tasks, workers and containers, whichever requests do  *)
(* not arrive and whichever calls to Docker or writes to the store fail.   *)
(* Task ids are submitted once, reads of the store succeed, and a dispatch *)
(* the manager saw fail did not arrive. Restarts and stops may be answered *)
(* too late.                                                               *)
THEOREM OneWorkerPerTask ==
  ASSUME MaxSubmits <= 1, "get" \notin StoreFaults, "dispatch" \notin LateReplies
  PROVE  Spec => []OneWorker
<1> DEFINE Placed == \A t \in Tasks : Place(t)
<1>0. MP!Fresh
  BY DEF MP!Fresh
<1>1. MP!Spec => []Routed
  <2>1. MP!Spec => [](MP!TypeOK /\ MP!MInv /\ MP!Steady)
    BY <1>0, MP!SteadyHolds, ManagerAssumed
  <2> QED BY <2>1, PTL DEF Routed
<1>2. Init => Placed
  <2> SUFFICES ASSUME Init, NEW t \in Tasks, NEW w \in Workers
               PROVE  ~ Has(w, t)
    BY DEF Place
  <2>1. /\ wQueue[w] = <<>> /\ run[w].pc = "idle" /\ stop[w] = None
        /\ \A c \in Cids : docker[c].st = "unused"
    BY DEF Init, W!WInit, W!RunIdle
  <2> QED BY <2>1 DEF Has, QueuedAt, RunsAt, StopsAt, BoxedAt, W!Live
<1>3. Routed /\ CInv /\ Placed /\ [MP!Next]_(MP!vars) /\ [Next]_vars => Placed'
  BY <1>0, PlaceKept
<1>4. Placed => OneWorker
  <2> SUFFICES ASSUME Placed, NEW t \in Tasks, NEW v \in Workers, NEW w \in Workers,
                      stops[t] = 0, W!ContainersOf(v, t) # {}, W!ContainersOf(w, t) # {}
               PROVE  v = w
    BY DEF OneWorker
  <2>1. BoxedAt(v, t) /\ BoxedAt(w, t)
    BY DEF BoxedAt, W!ContainersOf, W!Exists
  <2> QED BY <2>1 DEF Place, Has
<1> HIDE DEF Placed
<1> QED BY <1>1, <1>2, <1>3, <1>4, ManagerStays, InitCInv, CInvKept, PTL DEF Spec, MP!Spec

(* The restart budget of the manager alone is kept in a cluster too.       *)
THEOREM BudgetInCluster ==
  ASSUME MaxSubmits <= 1, "get" \notin StoreFaults
  PROVE  Spec => []M!RestartBudget
<1>1. MP!Fresh
  BY DEF MP!Fresh
<1>2. MP!Spec => []MP!RestartBudget
  BY <1>1, MP!BudgetKept, ManagerAssumed
<1>3. MP!RestartBudget => M!RestartBudget
  BY DEF MP!RestartBudget, M!RestartBudget
<1> QED BY <1>2, <1>3, ManagerStays, PTL
=============================================================================
