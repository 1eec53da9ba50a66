--------------------------- MODULE ManagerProofs ---------------------------
(***************************************************************************)
(* What holds of Manager for every number of tasks, workers and requests.  *)
(***************************************************************************)
EXTENDS Manager, TLAPS

(* mergeTaskUpdate returns a task record.                                  *)
LEMMA MergeType ==
  ASSUME NEW p \in Rec, NEW r \in Report
  PROVE  mergeTaskUpdate(p, r) \in Rec
  BY DEF mergeTaskUpdate, Rec, Report

(* So do the edits SendWork, retireTask and beginRestart make.             *)
LEMMA EditType ==
  ASSUME NEW p \in Rec
  PROVE  WithState(p, Completed) \in Rec /\ Restarted(p) \in Rec
<1>1. WithState(p, Completed) \in Rec
  BY DEF WithState, Rec, State, Completed
<1>2. Restarted(p) \in Rec
  BY DEF Restarted, Rec, State, Scheduled
<1> QED BY <1>1, <1>2

(* The three cases of decideHealthAction cover every record.               *)
LEMMA DecideType ==
  ASSUME NEW rec \in Rec
  PROVE  decideHealthAction(rec) \in HealthAction
  BY ManagerAssumption DEF decideHealthAction, HealthAction, Rec, State, Running, Failed

(* The rest of a health pass is well formed.                               *)
LEMMA HealthAfterType ==
  ASSUME NEW t \in Tasks, TypeOK
  PROVE  /\ HealthAfter(t) \in [pc : HealthPC, todo : [Tasks -> HealthAction],
                 task : Tasks \cup {None}, worker : Workers \cup {None},
                 rec : Rec \cup {None}]
         /\ HealthAfter(t).pc \in {"idle", "scan"}
         /\ \A u \in Tasks : HealthAfter(t).todo[u] # "skip" => taskDb[u] # None
  BY DEF HealthAfter, HealthIdle, TypeOK, HealthType, HealthAction, HealthPC

(* slices.Delete leaves a slice.                                           *)
LEMMA UnlistedType ==
  ASSUME NEW w \in Workers, NEW t \in Tasks, TypeOK
  PROVE  Unlisted(w, t) \in [Workers -> [Tasks -> Nat]]
<1> DEFINE slice == [workerTaskMap[w] EXCEPT ![t] = IF @ > 0 THEN @ - 1 ELSE @]
<1>1. slice \in [Tasks -> Nat]
  BY DEF TypeOK
<1>2. Unlisted(w, t) = [workerTaskMap EXCEPT ![w] = slice]
  BY DEF Unlisted
<1> HIDE DEF slice
<1> QED BY <1>1, <1>2 DEF TypeOK

(* A store that has the task keeps it, and holds records only.             *)
StoreStep ==
  /\ taskDb' \in [Tasks -> Rec \cup {None}]
  /\ \A u \in Tasks : taskDb[u] # None => taskDb'[u] # None

LEMMA StoreType ==
  ASSUME NEW t \in Tasks, NEW rec \in Rec, taskDb \in [Tasks -> Rec \cup {None}],
         \/ taskDb' = [taskDb EXCEPT ![t] = rec]
         \/ taskDb' = taskDb
  PROVE  StoreStep
  BY ManagerAssumption DEF StoreStep

(* Init establishes the types.                                             *)
LEMMA InitType == Init => TypeOK
  BY ManagerAssumption
  DEF Init, TypeOK, SendType, HealthType, SendIdle, HealthIdle, UpIdle, SendPC,
      HealthPC, HealthAction

(* The HTTP handlers keep the types.                                       *)
LEMMA ApiKeepsType ==
  ASSUME TypeOK, ApiStep
  PROVE  TypeOK'
<1> USE ManagerAssumption DEF TypeOK, SendType, HealthType, routing, client
<1>1. ASSUME NEW t \in Tasks, NEW s \in SubmitStates, StartTaskHandler(t, s)
      PROVE  TypeOK'
  <2>1. [task |-> t, rec |-> [state |-> s, count |-> 0, cid |-> None]] \in Event
    BY DEF Event, Rec
  <2> QED BY <1>1, <2>1 DEF StartTaskHandler
<1>2. ASSUME NEW c \in Clients, NEW t \in Tasks, StopLookup(c, t)
      PROVE  TypeOK'
  <2>1. [task |-> t, rec |-> WithState(taskDb[t], Completed)] \in Event
    BY <1>2, EditType DEF StopLookup, Event
  <2> QED BY <1>2, <2>1 DEF StopLookup
<1>3. ASSUME NEW c \in Clients, StopEnqueue(c)
      PROVE  TypeOK'
  BY <1>3 DEF StopEnqueue
<1> QED BY <1>1, <1>2, <1>3 DEF ApiStep

(* SendWork keeps the types, one step at a time.                           *)
LEMMA SendKeepsType ==
  ASSUME TypeOK, SendStep
  PROVE  TypeOK'
<1> USE ManagerAssumption DEF TypeOK, SendType, HealthType, SendIdle, SendPC, routing, client
<1>0. send.pc # "idle" => send.ev.task \in Tasks /\ send.ev.rec \in Rec
  BY DEF Event
<1>1. CASE nextPendingEvent
  <2>1. Head(pending) \in Event /\ Tail(pending) \in Seq(Event)
    BY <1>1 DEF nextPendingEvent
  <2> QED BY <1>1, <2>1 DEF nextPendingEvent
<1>2. CASE RouteToStop
  BY <1>2 DEF RouteToStop, Assigned, Event
<1>3. CASE RouteToNowhere
  BY <1>3 DEF RouteToNowhere
<1>4. CASE RouteToWorker
  BY <1>4 DEF RouteToWorker
<1>5. CASE SelectWorkerFails
  BY <1>5 DEF SelectWorkerFails
<1>6. ASSUME NEW w \in Workers, assignTask(w)
      PROVE  TypeOK'
  <2> DEFINE t == send.ev.task
  <2>1. t \in Tasks
    BY <1>0, <1>6 DEF assignTask
  <2>2. workerTaskMap' \in [Workers -> [Tasks -> Nat]]
    <3> DEFINE slice == [workerTaskMap[w] EXCEPT ![t] = @ + 1]
    <3>1. slice \in [Tasks -> Nat]
      <4>1. workerTaskMap[w] \in [Tasks -> Nat]
        BY DEF TypeOK
      <4>2. workerTaskMap[w][t] + 1 \in Nat
        BY <2>1, <4>1
      <4> HIDE DEF t
      <4> QED BY <2>1, <4>1, <4>2
    <3>2. workerTaskMap' = [workerTaskMap EXCEPT ![w] = slice]
      BY <1>6 DEF assignTask
    <3> HIDE DEF slice
    <3> QED BY <3>1, <3>2
  <2>3. taskWorkerMap' \in [Tasks -> Workers \cup {None}]
    BY <1>6 DEF assignTask
  <2>4. eventDb' \subseteq Event
    BY <1>6 DEF assignTask
  <2>5. SendType'
    BY <1>6 DEF assignTask
  <2> QED BY <1>6, <2>2, <2>3, <2>4, <2>5 DEF assignTask
<1>7. ASSUME NEW out \in PostOutcomes, postTaskEvent(out)
      PROVE  TypeOK'
  BY <1>7 DEF postTaskEvent, Outcome
<1>8. CASE unassignTask
  <2>1. workerTaskMap' \in [Workers -> [Tasks -> Nat]]
    BY <1>0, <1>8, UnlistedType DEF unassignTask
  <2>2. taskWorkerMap' \in [Tasks -> Workers \cup {None}]
    BY <1>8 DEF unassignTask
  <2>3. SendType'
    BY <1>8 DEF unassignTask
  <2> QED BY <1>8, <2>1, <2>2, <2>3 DEF unassignTask
<1>9. CASE RequeueEvent
  BY <1>9 DEF RequeueEvent
<1>10. CASE RecordTask
  <2>1. StoreStep
    BY <1>0, <1>10, StoreType DEF RecordTask, Put
  <2> QED BY <1>10, <2>1 DEF RecordTask, StoreStep
<1>11. ASSUME NEW out \in PostOutcomes, stopTask(out)
       PROVE  TypeOK'
  BY <1>11 DEF stopTask
<1>12. CASE retireTask
  <2>1. workerTaskMap' \in [Workers -> [Tasks -> Nat]]
    BY <1>0, <1>12, UnlistedType DEF retireTask
  <2>2. taskWorkerMap' \in [Tasks -> Workers \cup {None}]
    BY <1>12 DEF retireTask
  <2>3. taskDb[send.ev.task] # None => WithState(taskDb[send.ev.task], Completed) \in Rec
    BY <1>0, <1>12, EditType DEF retireTask
  <2>4. StoreStep
    <3>1. CASE taskDb[send.ev.task] = None
      BY <1>12, <3>1 DEF retireTask, StoreStep
    <3>2. CASE taskDb[send.ev.task] # None
      BY <1>0, <1>12, <2>3, <3>2, StoreType DEF retireTask, Rewrite
    <3> QED BY <3>1, <3>2
  <2> QED BY <1>12, <2>1, <2>2, <2>4 DEF retireTask, StoreStep
<1> HIDE DEF TypeOK
<1> QED
  BY <1>1, <1>2, <1>3, <1>4, <1>5, <1>6, <1>7, <1>8, <1>9, <1>10, <1>11, <1>12
  DEF SendStep

(* So does a health pass.                                                  *)
LEMMA HealthKeepsType ==
  ASSUME TypeOK, HealthStep
  PROVE  TypeOK'
<1> USE ManagerAssumption DEF TypeOK, SendType, HealthType, HealthPC, routing, client
<1>1. CASE HealthSnapshot
  BY <1>1, DecideType DEF HealthSnapshot, HealthAction
<1>2. ASSUME NEW t \in Tasks, NEW healthy \in BOOLEAN, checkTaskHealth(t, healthy)
      PROVE  TypeOK'
  BY <1>2, HealthAfterType DEF checkTaskHealth
<1>3. ASSUME NEW t \in Tasks, RestartRoute(t)
      PROVE  TypeOK'
  <2>1. CASE taskWorkerMap[t] = None
    BY <1>3, <2>1, HealthAfterType DEF RestartRoute
  <2>2. CASE taskWorkerMap[t] # None
    <3>1. taskDb[t] # None
      <4>1. CASE health.pc = "scan"
        BY <1>3, <4>1 DEF RestartRoute
      <4>2. CASE health.pc = "restart"
        BY <1>3, <4>2 DEF RestartRoute
      <4> QED BY <1>3, <4>1, <4>2 DEF RestartRoute
    <3> QED BY <1>3, <2>2, <3>1 DEF RestartRoute
  <2> QED BY <2>1, <2>2
<1>4. CASE beginRestart
  <2> PICK t \in Tasks : t = health.task
    BY <1>4 DEF beginRestart
  <2>1. taskDb[t] \in Rec
    BY <1>4 DEF beginRestart
  <2>2. Restarted(taskDb[t]) \in Rec
    BY <2>1, EditType
  <2>3. StoreStep
    BY <1>4, <2>1, <2>2, StoreType DEF beginRestart
  <2>4. CASE health' = HealthAfter(t)
    <3>1. HealthType'
      <4>1. /\ health' \in [pc : HealthPC, todo : [Tasks -> HealthAction],
                 task : Tasks \cup {None}, worker : Workers \cup {None},
                 rec : Rec \cup {None}]
            /\ health'.pc \in {"idle", "scan"}
            /\ \A u \in Tasks : health'.todo[u] # "skip" => taskDb[u] # None
        BY <2>1, <2>4, HealthAfterType
      <4> QED BY <2>3, <4>1 DEF StoreStep
    <3> QED BY <1>4, <2>3, <3>1 DEF beginRestart, StoreStep
  <2>5. CASE health' = [health EXCEPT !.pc = "post", !.rec = Restarted(taskDb[t])]
    <3>1. HealthType'
      BY <1>4, <2>1, <2>2, <2>3, <2>5 DEF StoreStep, beginRestart
    <3> QED BY <1>4, <2>3, <3>1 DEF beginRestart, StoreStep
  <2> QED BY <1>4, <2>4, <2>5 DEF beginRestart
<1>5. ASSUME NEW out \in PostOutcomes, PostRestart(out)
      PROVE  TypeOK'
  <2>1. health.task \in Tasks
    BY <1>5 DEF PostRestart
  <2>2. CASE out = "unreachable"
    BY <1>5, <2>2 DEF PostRestart
  <2>3. CASE out # "unreachable"
    BY <1>5, <2>1, <2>3, HealthAfterType DEF PostRestart
  <2> QED BY <2>2, <2>3
<1>6. CASE RequeueRestart
  <2>1. [task |-> health.task, rec |-> health.rec] \in Event
    BY <1>6 DEF RequeueRestart, Event
  <2>2. health.task \in Tasks
    BY <1>6 DEF RequeueRestart
  <2>3. HealthType'
    BY <1>6, <2>2, HealthAfterType DEF RequeueRestart
  <2> QED BY <1>6, <2>1, <2>3 DEF RequeueRestart
<1> HIDE DEF TypeOK
<1> QED
  BY <1>1, <1>2, <1>3, <1>4, <1>5, <1>6 DEF HealthStep

(* And a poll.                                                             *)
LEMMA UpdateKeepsType ==
  ASSUME TypeOK, UpdateStep
  PROVE  TypeOK'
<1> USE ManagerAssumption DEF TypeOK, SendType, HealthType, UpIdle, routing, client
<1>1. CASE UpdateTick
  BY <1>1 DEF UpdateTick
<1>2. ASSUME NEW w \in Workers, NEW reports \in WorkerReplies, UpdateGet(w, reports)
      PROVE  TypeOK'
  BY <1>2 DEF UpdateGet
<1>3. ASSUME NEW w \in Workers, UpdateFails(w)
      PROVE  TypeOK'
  BY <1>3 DEF UpdateFails
<1>4. ASSUME NEW w \in Workers, NEW r \in up[w].reports, applyWorkerReport(w, r)
      PROVE  TypeOK'
  <2>1. r \in Report
    OBVIOUS
  <2>2. r.task \in Tasks
    BY <2>1 DEF Report
  <2>3. taskDb[r.task] # None => mergeTaskUpdate(taskDb[r.task], r) \in Rec
    BY <2>1, <2>2, MergeType
  <2>4. StoreStep
    <3>1. CASE taskDb[r.task] = None
      BY <1>4, <3>1 DEF applyWorkerReport, StoreStep
    <3>2. CASE taskDb[r.task] # None
      BY <1>4, <2>2, <2>3, <3>2, StoreType DEF applyWorkerReport, Rewrite
    <3> QED BY <3>1, <3>2
  <2>5. up' \in [Workers -> [pc : {"idle", "get", "apply"}, reports : SUBSET Report]]
    <3>1. up[w].reports \ {r} \in SUBSET Report
      OBVIOUS
    <3> QED BY <1>4, <3>1 DEF applyWorkerReport
  <2> QED BY <1>4, <2>4, <2>5 DEF applyWorkerReport, StoreStep
<1> HIDE DEF TypeOK
<1> QED BY <1>1, <1>2, <1>3, <1>4 DEF UpdateStep


(* Every variable keeps its type, and a step of a goroutine finds in its   *)
(* locals what an earlier step has put there: SendWork has an event and,   *)
(* once assigned, a worker; restartTask never reaches beginRestart for a   *)
(* task TaskDb does not have.                                              *)
THEOREM TypeCorrect == Spec => []TypeOK
<1>1. TypeOK /\ [Next]_vars => TypeOK'
  <2>1. CASE UNCHANGED vars
    BY <2>1 DEF vars, routing, client, TypeOK, SendType, HealthType
  <2> QED
    BY <2>1, ApiKeepsType, SendKeepsType, HealthKeepsType, UpdateKeepsType DEF Next
<1> QED BY <1>1, InitType, PTL DEF Spec


-----------------------------------------------------------------------------
(***************************************************************************)
(* The routing maps. They are each other's inverse because SendWork, the   *)
(* only writer, knows where the task in its hands is routed: nowhere when  *)
(* it is about to assign it, and to its own worker from then on.           *)
(***************************************************************************)
SendKnowsRoute ==
  /\ send.pc = "pick" => taskWorkerMap[send.ev.task] = None
  /\ send.pc \in {"post", "unassign", "record", "stop", "retire"}
       => taskWorkerMap[send.ev.task] = send.worker

RInv == RoutingConsistent /\ SendKnowsRoute

(* What SendWork relies on when assignmentFor finds nothing: that the task *)
(* is really not routed, rather than routed and missing from the store.    *)
RouteClear ==
  /\ "get" \notin StoreFaults
  /\ send.pc = "route" /\ taskDb[send.ev.task] = None
       => taskWorkerMap[send.ev.task] = None

(* Removing a task from the slice of the worker it is routed to, together  *)
(* with its route, keeps the maps consistent.                              *)
LEMMA UnroutedConsistent ==
  ASSUME NEW w \in Workers, NEW t \in Tasks, TypeOK, RoutingConsistent,
         taskWorkerMap[t] = w,
         taskWorkerMap' = [taskWorkerMap EXCEPT ![t] = None],
         workerTaskMap' = Unlisted(w, t)
  PROVE  RoutingConsistent'
<1> SUFFICES ASSUME NEW u \in Tasks, NEW v \in Workers
             PROVE  workerTaskMap'[v][u] = IF taskWorkerMap'[u] = v THEN 1 ELSE 0
  BY DEF RoutingConsistent
<1>1. workerTaskMap[v][u] = IF taskWorkerMap[u] = v THEN 1 ELSE 0
  BY DEF RoutingConsistent
<1>2. workerTaskMap[w][t] = 1
  BY DEF RoutingConsistent
<1>3. workerTaskMap'[v][u] =
        IF v = w /\ u = t THEN 0 ELSE workerTaskMap[v][u]
  BY <1>2 DEF TypeOK, Unlisted
<1>4. taskWorkerMap'[u] = IF u = t THEN None ELSE taskWorkerMap[u]
  BY DEF TypeOK
<1> QED BY <1>1, <1>3, <1>4, ManagerAssumption

(* A step that leaves the maps and SendWork alone keeps the invariant.     *)
LEMMA RoutingStep ==
  ASSUME TypeOK, RInv, RouteClear, [Next]_vars
  PROVE  RInv'
<1> USE ManagerAssumption DEF RInv
<1>0. send.pc # "idle" => send.ev.task \in Tasks
  BY DEF TypeOK, SendType, Event
<1>1. ASSUME UNCHANGED <<send, workerTaskMap, taskWorkerMap>>
      PROVE  RInv'
  BY <1>1 DEF RoutingConsistent, SendKnowsRoute
<1>2. ASSUME UNCHANGED <<workerTaskMap, taskWorkerMap>>, SendKnowsRoute'
      PROVE  RInv'
  BY <1>2 DEF RoutingConsistent
<1>3. CASE ApiStep
  BY <1>1, <1>3 DEF ApiStep, StartTaskHandler, StopLookup, StopEnqueue, routing
<1>4. CASE HealthStep
  BY <1>1, <1>4 DEF HealthStep, HealthSnapshot, checkTaskHealth, RestartRoute,
                    beginRestart, PostRestart, RequeueRestart, routing
<1>5. CASE UpdateStep
  BY <1>1, <1>5 DEF UpdateStep, UpdateTick, UpdateGet, UpdateFails,
                    applyWorkerReport, routing
<1>6. CASE nextPendingEvent
  BY <1>2, <1>6 DEF nextPendingEvent, SendKnowsRoute, routing
<1>7. CASE RouteToStop
  BY <1>2, <1>7 DEF RouteToStop, SendKnowsRoute, routing, TypeOK, SendType
<1>8. CASE RouteToNowhere \/ SelectWorkerFails
  BY <1>2, <1>8 DEF RouteToNowhere, SelectWorkerFails, SendKnowsRoute, SendIdle, routing
<1>9. CASE RouteToWorker
  <2>1. taskWorkerMap[send.ev.task] = None
    BY <1>9 DEF RouteToWorker, RouteClear, Assigned
  <2> QED BY <1>2, <1>9, <2>1 DEF RouteToWorker, SendKnowsRoute, routing, TypeOK, SendType
<1>10. ASSUME NEW w \in Workers, assignTask(w)
       PROVE  RInv'
  <2> PICK t \in Tasks : t = send.ev.task
    BY <1>0, <1>10 DEF assignTask
  <2>1. /\ taskWorkerMap[t] = None
        /\ taskWorkerMap' = [taskWorkerMap EXCEPT ![t] = w]
        /\ workerTaskMap' = [workerTaskMap EXCEPT ![w][t] = @ + 1]
        /\ send' = [send EXCEPT !.pc = "post", !.worker = w]
    BY <1>10 DEF assignTask, SendKnowsRoute
  <2>2. ASSUME NEW u \in Tasks, NEW v \in Workers
        PROVE  workerTaskMap'[v][u] = IF taskWorkerMap'[u] = v THEN 1 ELSE 0
    <3>1. workerTaskMap[v][u] = IF taskWorkerMap[u] = v THEN 1 ELSE 0
      BY DEF RoutingConsistent
    <3>2. workerTaskMap'[v][u] =
            IF v = w /\ u = t THEN workerTaskMap[v][u] + 1 ELSE workerTaskMap[v][u]
      BY <2>1 DEF TypeOK
    <3>3. taskWorkerMap'[u] = IF u = t THEN w ELSE taskWorkerMap[u]
      BY <2>1 DEF TypeOK
    <3> QED BY <2>1, <3>1, <3>2, <3>3
  <2>3. SendKnowsRoute'
    BY <2>1 DEF SendKnowsRoute, TypeOK, SendType
  <2> QED BY <2>2, <2>3 DEF RoutingConsistent
<1>11. ASSUME NEW out \in PostOutcomes, postTaskEvent(out) \/ stopTask(out)
       PROVE  RInv'
  <2>1. UNCHANGED <<workerTaskMap, taskWorkerMap>>
    BY <1>11 DEF postTaskEvent, stopTask, routing
  <2>2. /\ send.pc \in {"post", "stop"}
        /\ \/ send'.pc = "idle"
           \/ /\ send'.pc \in {"record", "unassign", "retire"}
              /\ send'.ev = send.ev
              /\ send'.worker = send.worker
    <3>1. CASE postTaskEvent(out)
      BY <3>1 DEF postTaskEvent, Outcome, SendIdle, TypeOK, SendType
    <3>2. CASE stopTask(out)
      BY <3>2 DEF stopTask, SendIdle, TypeOK, SendType
    <3> QED BY <1>11, <3>1, <3>2
  <2>3. SendKnowsRoute'
    BY <2>1, <2>2 DEF SendKnowsRoute
  <2> QED BY <1>2, <2>1, <2>3
<1>12. CASE unassignTask
  <2>1. RoutingConsistent'
    BY <1>0, <1>12, UnroutedConsistent DEF unassignTask, SendKnowsRoute, TypeOK, SendType
  <2>2. SendKnowsRoute'
    BY <1>12 DEF unassignTask, SendKnowsRoute, TypeOK, SendType
  <2> QED BY <2>1, <2>2
<1>13. CASE RequeueEvent \/ RecordTask
  BY <1>2, <1>13 DEF RequeueEvent, RecordTask, SendKnowsRoute, SendIdle, routing
<1>14. CASE retireTask
  <2>1. RoutingConsistent'
    BY <1>0, <1>14, UnroutedConsistent DEF retireTask, SendKnowsRoute, TypeOK, SendType
  <2>2. SendKnowsRoute'
    BY <1>14 DEF retireTask, SendKnowsRoute, SendIdle
  <2> QED BY <2>1, <2>2
<1>15. CASE UNCHANGED vars
  BY <1>1, <1>15 DEF vars, routing
<1> HIDE DEF RInv
<1> QED
  BY <1>3, <1>4, <1>5, <1>6, <1>7, <1>8, <1>9, <1>10, <1>11, <1>12, <1>13, <1>14, <1>15
  DEF Next, SendStep


(***************************************************************************)
(* First case: a worker that is reached accepts, and the store works. Then *)
(* a task is routed but missing from TaskDb only while its first dispatch  *)
(* is on the way, and SendWork does nothing else meanwhile. Any client may *)
(* submit any id any number of times.                                      *)
(***************************************************************************)
Reliable == "rejected" \notin PostOutcomes /\ StoreFaults = {}

MissingOnlyInFlight ==
  \A t \in Tasks :
    taskWorkerMap[t] # None /\ taskDb[t] = None
      => send.pc \in {"post", "unassign", "record"} /\ send.ev.task = t

(* A step never deletes a task from TaskDb.                                *)
LEMMA StoreGrows ==
  ASSUME TypeOK, [Next]_vars
  PROVE  \A t \in Tasks : taskDb[t] # None => taskDb'[t] # None
<1> USE ManagerAssumption
<1>1. ASSUME NEW t \in Tasks, NEW rec \in Rec, Put(t, rec) \/ Rewrite(t, rec)
      PROVE  \A u \in Tasks : taskDb[u] # None => taskDb'[u] # None
  BY <1>1 DEF Put, Rewrite, TypeOK
<1>2. CASE RecordTask
  BY <1>1, <1>2 DEF RecordTask, TypeOK, SendType, Event
<1>3. CASE retireTask
  <2>1. send.ev.task \in Tasks
    BY <1>3 DEF retireTask, TypeOK, SendType, Event
  <2>2. CASE taskDb[send.ev.task] = None
    BY <1>3, <2>2 DEF retireTask
  <2>3. CASE taskDb[send.ev.task] # None
    <3>1. WithState(taskDb[send.ev.task], Completed) \in Rec
      BY <2>1, <2>3, EditType DEF TypeOK
    <3> QED BY <1>1, <1>3, <2>1, <2>3, <3>1 DEF retireTask
  <2> QED BY <2>2, <2>3
<1>4. CASE beginRestart
  <2>1. health.task \in Tasks /\ Restarted(taskDb[health.task]) \in Rec
    BY <1>4, EditType DEF beginRestart, TypeOK, HealthType
  <2> QED BY <1>4, <2>1 DEF beginRestart, TypeOK
<1>5. ASSUME NEW w \in Workers, NEW r \in up[w].reports, applyWorkerReport(w, r)
      PROVE  \A u \in Tasks : taskDb[u] # None => taskDb'[u] # None
  <2>1. r \in Report /\ r.task \in Tasks
    BY DEF TypeOK, Report
  <2>2. CASE taskDb[r.task] = None
    BY <1>5, <2>2 DEF applyWorkerReport
  <2>3. CASE taskDb[r.task] # None
    <3>1. mergeTaskUpdate(taskDb[r.task], r) \in Rec
      BY <2>1, <2>3, MergeType DEF TypeOK
    <3> QED BY <1>1, <1>5, <2>1, <2>3, <3>1 DEF applyWorkerReport
  <2> QED BY <2>2, <2>3
<1>6. ASSUME UNCHANGED taskDb
      PROVE  \A u \in Tasks : taskDb[u] # None => taskDb'[u] # None
  BY <1>6
<1>7. CASE ApiStep
  BY <1>6, <1>7 DEF ApiStep, StartTaskHandler, StopLookup, StopEnqueue
<1>8. CASE SendStep
  BY <1>2, <1>3, <1>6, <1>8
  DEF SendStep, nextPendingEvent, RouteToStop, RouteToNowhere, RouteToWorker,
      SelectWorkerFails, assignTask, postTaskEvent, unassignTask, RequeueEvent, stopTask
<1>9. CASE HealthStep
  BY <1>4, <1>6, <1>9 DEF HealthStep, HealthSnapshot, checkTaskHealth, RestartRoute,
                          PostRestart, RequeueRestart
<1>10. CASE UpdateStep
  BY <1>5, <1>6, <1>10 DEF UpdateStep, UpdateTick, UpdateGet, UpdateFails
<1> QED BY <1>6, <1>7, <1>8, <1>9, <1>10 DEF Next, vars

(* The steps that neither run in SendWork nor touch the routing maps.      *)
LEMMA OthersLeaveRouting ==
  ASSUME ApiStep \/ HealthStep \/ UpdateStep \/ UNCHANGED vars
  PROVE  UNCHANGED <<send, workerTaskMap, taskWorkerMap>>
  BY DEF ApiStep, StartTaskHandler, StopLookup, StopEnqueue,
         HealthStep, HealthSnapshot, checkTaskHealth, RestartRoute, beginRestart,
         PostRestart, RequeueRestart,
         UpdateStep, UpdateTick, UpdateGet, UpdateFails, applyWorkerReport,
         routing, vars

LEMMA ReliableStep ==
  ASSUME Reliable, TypeOK, MissingOnlyInFlight, [Next]_vars
  PROVE  MissingOnlyInFlight'
<1> USE ManagerAssumption DEF MissingOnlyInFlight
<1>0. \A t \in Tasks : taskDb'[t] = None => taskDb[t] = None
  BY StoreGrows
<1>1. CASE ApiStep \/ HealthStep \/ UpdateStep \/ UNCHANGED vars
  BY <1>0, <1>1, OthersLeaveRouting
<1>2. CASE nextPendingEvent \/ RouteToStop \/ RouteToNowhere \/ RouteToWorker
           \/ SelectWorkerFails \/ RequeueEvent
  BY <1>2 DEF nextPendingEvent, RouteToStop, RouteToNowhere, RouteToWorker,
              SelectWorkerFails, RequeueEvent, routing
<1>3. ASSUME NEW w \in Workers, assignTask(w)
      PROVE  MissingOnlyInFlight'
  BY <1>3 DEF assignTask, TypeOK, SendType, Event
<1>4. ASSUME NEW out \in PostOutcomes, postTaskEvent(out)
      PROVE  MissingOnlyInFlight'
  <2>1. /\ send.pc = "post"
        /\ send'.pc \in {"record", "unassign"}
        /\ send'.ev = send.ev
    <3>1. out \in {"created", "unreachable"}
      BY DEF Reliable, Outcome
    <3> QED BY <1>4, <3>1 DEF postTaskEvent, TypeOK, SendType
  <2> QED BY <1>4, <2>1 DEF postTaskEvent, routing
<1>5. ASSUME NEW out \in PostOutcomes, stopTask(out)
      PROVE  MissingOnlyInFlight'
  BY <1>5 DEF stopTask, routing
<1>6. CASE unassignTask
  BY <1>6 DEF unassignTask, TypeOK, SendType, Event
<1>7. CASE RecordTask
  <2>1. send.ev.task \in Tasks /\ send.ev.rec \in Rec
    BY <1>7 DEF RecordTask, TypeOK, SendType, Event
  <2>2. taskDb' = [taskDb EXCEPT ![send.ev.task] = send.ev.rec]
    BY <1>7 DEF RecordTask, Put, Reliable
  <2>3. \A t \in Tasks : taskDb'[t] = None => taskDb[t] = None /\ t # send.ev.task
    BY <2>1, <2>2 DEF TypeOK
  <2> QED BY <1>7, <2>3 DEF RecordTask, routing
<1>8. CASE retireTask
  BY <1>0, <1>8 DEF retireTask, TypeOK, SendType, Event
<1> HIDE DEF MissingOnlyInFlight
<1> QED BY <1>1, <1>2, <1>3, <1>4, <1>5, <1>6, <1>7, <1>8 DEF Next, SendStep

(* Init has no route and nothing in SendWork's hands.                      *)
LEMMA InitRouting == Init => RInv /\ MissingOnlyInFlight
  BY ManagerAssumption
  DEF Init, RInv, RoutingConsistent, SendKnowsRoute, MissingOnlyInFlight, SendIdle

(* assignTask, unassignTask and retireTask keep TaskWorkerMap and          *)
(* WorkerTaskMap inverse to each other, for any number of tasks, workers   *)
(* and requests and with ids submitted repeatedly, when no worker refuses  *)
(* a task and the store does not fail.                                     *)
THEOREM RoutingReliable ==
  ASSUME Reliable
  PROVE  Spec => []RoutingConsistent
<1>1. TypeOK /\ MissingOnlyInFlight => RouteClear
  BY DEF Reliable, MissingOnlyInFlight, RouteClear, TypeOK, SendType, Event
<1>2. TypeOK /\ RInv /\ MissingOnlyInFlight /\ [Next]_vars
        => (RInv /\ MissingOnlyInFlight)'
  BY <1>1, ReliableStep, RoutingStep
<1>3. RInv => RoutingConsistent
  BY DEF RInv
<1> QED BY <1>2, <1>3, InitRouting, TypeCorrect, PTL DEF Spec


(***************************************************************************)
(* Second case: workers may refuse and writes may fail, but every task id  *)
(* is submitted once (the CLI fills in a fresh one). Then a task TaskDb    *)
(* does not have exists in one copy at most: no stop and no restart can be *)
(* about it, so its event is in one place of the queue, or in SendWork's   *)
(* hands, or used up.                                                      *)
(***************************************************************************)
Fresh == MaxSubmits <= 1 /\ "get" \notin StoreFaults

Queued(t) == \E i \in 1..Len(pending) : pending[i].task = t

Holds(t) == send.pc # "idle" /\ send.ev.task = t

Alone(t) ==
  \A i, j \in 1..Len(pending) : pending[i].task = t /\ pending[j].task = t => i = j

OnlyCopy(t) ==
  taskDb[t] = None =>
    /\ Alone(t)
    /\ Queued(t) => taskWorkerMap[t] = None /\ ~ Holds(t)
    /\ send.pc \in {"route", "pick", "requeue"} /\ Holds(t) => taskWorkerMap[t] = None
    /\ submits[t] = 0 => ~ Queued(t) /\ ~ Holds(t) /\ taskWorkerMap[t] = None

FreshInv ==
  /\ \A c \in Clients : api[c] # None => taskDb[api[c].task] # None
  /\ \A t \in Tasks : OnlyCopy(t)


(* What an Enqueue does to the copies of t in the queue.                   *)
LEMMA EnqueueCopies ==
  ASSUME NEW t \in Tasks, NEW e \in Event, pending \in Seq(Event),
         pending' = Append(pending, e)
  PROVE  /\ Queued(t)' <=> Queued(t) \/ e.task = t
         /\ Alone(t) /\ (e.task # t \/ ~ Queued(t)) => Alone(t)'
<1>1. /\ Len(pending') = Len(pending) + 1
      /\ \A i \in 1..Len(pending) : pending'[i] = pending[i]
      /\ pending'[Len(pending) + 1] = e
  OBVIOUS
<1>2. Len(pending) \in Nat
  OBVIOUS
<1>3. Queued(t)' <=> Queued(t) \/ e.task = t
  BY <1>1, <1>2 DEF Queued
<1>4. Alone(t) /\ (e.task # t \/ ~ Queued(t)) => Alone(t)'
  BY <1>1, <1>2 DEF Alone, Queued
<1> QED BY <1>3, <1>4

(* What a Dequeue does to them.                                            *)
LEMMA DequeueCopies ==
  ASSUME NEW t \in Tasks, pending \in Seq(Event), pending # <<>>,
         pending' = Tail(pending)
  PROVE  /\ Queued(t)' => Queued(t)
         /\ Alone(t) => Alone(t)'
         /\ Head(pending).task = t => Queued(t)
         /\ Alone(t) /\ Head(pending).task = t => ~ Queued(t)'
<1>1. /\ Len(pending) \in Nat /\ Len(pending) > 0
      /\ Len(pending') = Len(pending) - 1
      /\ \A i \in 1..Len(pending') : pending'[i] = pending[i + 1]
      /\ Head(pending) = pending[1]
  OBVIOUS
<1>2. Queued(t)' => Queued(t)
  BY <1>1 DEF Queued
<1>3. Alone(t) => Alone(t)'
  <2> SUFFICES ASSUME Alone(t), NEW i \in 1..Len(pending'), NEW j \in 1..Len(pending'),
                      pending'[i].task = t, pending'[j].task = t
               PROVE  i = j
    BY DEF Alone
  <2>1. i + 1 \in 1..Len(pending) /\ j + 1 \in 1..Len(pending)
    BY <1>1
  <2>2. pending[i + 1].task = t /\ pending[j + 1].task = t
    BY <1>1
  <2>3. i + 1 = j + 1
    BY <2>1, <2>2 DEF Alone
  <2> QED BY <2>3
<1>4. Head(pending).task = t => Queued(t)
  BY <1>1 DEF Queued
<1>5. Alone(t) /\ Head(pending).task = t => ~ Queued(t)'
  <2> SUFFICES ASSUME Alone(t), Head(pending).task = t,
                      NEW i \in 1..Len(pending'), pending'[i].task = t
               PROVE  FALSE
    BY DEF Queued
  <2>1. 1 \in 1..Len(pending) /\ i + 1 \in 1..Len(pending) /\ pending[i + 1].task = t
    BY <1>1
  <2>2. i + 1 = 1
    BY <1>1, <2>1 DEF Alone
  <2> QED BY <2>2
<1> QED BY <1>2, <1>3, <1>4, <1>5

(* Steps that leave the queue, SendWork, the routes and the submissions    *)
(* alone only make OnlyCopy easier.                                        *)
LEMMA CopiesFrame ==
  ASSUME NEW t \in Tasks, OnlyCopy(t), UNCHANGED <<pending, send, taskWorkerMap, submits>>,
         taskDb[t] # None => taskDb'[t] # None
  PROVE  OnlyCopy(t)'
  BY DEF OnlyCopy, Alone, Queued, Holds

(* An event about a task that TaskDb has may be put on the queue.          *)
LEMMA CopiesEnqueue ==
  ASSUME NEW t \in Tasks, NEW e \in Event, pending \in Seq(Event), OnlyCopy(t),
         pending' = Append(pending, e), taskDb[e.task] # None,
         UNCHANGED <<taskDb, send, taskWorkerMap, submits>>
  PROVE  OnlyCopy(t)'
<1>1. taskDb[t] = None => e.task # t
  OBVIOUS
<1> QED BY <1>1, EnqueueCopies DEF OnlyCopy, Holds

LEMMA FreshStep ==
  ASSUME Fresh, TypeOK, FreshInv, [Next]_vars
  PROVE  FreshInv'
<1> USE ManagerAssumption
<1>0. /\ \A t \in Tasks : OnlyCopy(t)
      /\ \A t \in Tasks : taskDb[t] # None => taskDb'[t] # None
      /\ send.pc # "idle" => send.ev \in Event /\ send.ev.task \in Tasks
      /\ pending \in Seq(Event)
  BY StoreGrows DEF FreshInv, TypeOK, SendType, Event
<1>1. \A c \in Clients : api'[c] # None => taskDb'[api'[c].task] # None
  <2> SUFFICES ASSUME NEW c \in Clients, api'[c] # None
               PROVE  taskDb'[api'[c].task] # None
    OBVIOUS
  <2>1. CASE api'[c] = api[c]
    <3>1. api[c].task \in Tasks /\ taskDb[api[c].task] # None
      BY <2>1 DEF FreshInv, TypeOK, Event
    <3> QED BY <1>0, <2>1, <3>1
  <2>2. ASSUME NEW d \in Clients, NEW t \in Tasks, StopLookup(d, t)
        PROVE  taskDb'[api'[c].task] # None
    <3>1. CASE c = d
      BY <2>2, <3>1 DEF StopLookup, TypeOK
    <3>2. CASE c # d
      BY <2>1, <2>2, <3>2 DEF StopLookup, TypeOK
    <3> QED BY <3>1, <3>2
  <2>3. ASSUME NEW d \in Clients, StopEnqueue(d)
        PROVE  api'[c] = api[c]
    BY <2>3 DEF StopEnqueue, TypeOK
  <2>4. CASE UNCHANGED api
    BY <2>1, <2>4
  <2>5. CASE ApiStep
    BY <2>1, <2>2, <2>3, <2>4, <2>5 DEF ApiStep, StartTaskHandler
  <2>6. CASE SendStep
    BY <2>4, <2>6
    DEF SendStep, nextPendingEvent, RouteToStop, RouteToNowhere, RouteToWorker,
        SelectWorkerFails, assignTask, postTaskEvent, unassignTask, RequeueEvent,
        RecordTask, stopTask, retireTask, client
  <2>7. CASE HealthStep
    BY <2>4, <2>7
    DEF HealthStep, HealthSnapshot, checkTaskHealth, RestartRoute, beginRestart,
        PostRestart, RequeueRestart, client
  <2>8. CASE UpdateStep
    BY <2>4, <2>8 DEF UpdateStep, UpdateTick, UpdateGet, UpdateFails,
                      applyWorkerReport, client
  <2> QED BY <2>4, <2>5, <2>6, <2>7, <2>8 DEF Next, vars, client
<1>2. ASSUME NEW t \in Tasks
      PROVE  OnlyCopy(t)'
  <2>0. OnlyCopy(t) /\ (taskDb'[t] = None => taskDb[t] = None)
    BY <1>0
  <2>1. ASSUME NEW u \in Tasks, NEW s \in SubmitStates, StartTaskHandler(u, s)
        PROVE  OnlyCopy(t)'
    <3> DEFINE e == [task |-> u, rec |-> [state |-> s, count |-> 0, cid |-> None]]
    <3>1. e \in Event /\ e.task = u
      BY DEF Event, Rec
    <3>2. /\ submits[u] = 0
          /\ submits' = [submits EXCEPT ![u] = 1]
          /\ pending' = Append(pending, e)
          /\ UNCHANGED <<taskDb, send, taskWorkerMap>>
      <4>1. submits[u] \in Nat /\ submits[u] < MaxSubmits
        BY <2>1 DEF StartTaskHandler, TypeOK
      <4>2. submits[u] = 0
        BY <4>1 DEF Fresh
      <4>3. submits' = [submits EXCEPT ![u] = submits[u] + 1]
        BY <2>1 DEF StartTaskHandler
      <4> QED BY <2>1, <4>2, <4>3 DEF StartTaskHandler, routing
    <3>3. /\ Queued(t)' <=> Queued(t) \/ u = t
          /\ Alone(t) /\ (u # t \/ ~ Queued(t)) => Alone(t)'
      BY <1>0, <3>1, <3>2, EnqueueCopies
    <3>4. submits'[t] = IF t = u THEN 1 ELSE submits[t]
      BY <3>2 DEF TypeOK
    <3>5. submits[t] = 0 \/ u # t
      BY <3>2
    <3>6. Holds(t)' <=> Holds(t)
      BY <3>2 DEF Holds
    <3> QED BY <2>0, <3>2, <3>3, <3>4, <3>5, <3>6 DEF OnlyCopy
  <2>2. ASSUME NEW c \in Clients, NEW u \in Tasks, StopLookup(c, u)
        PROVE  OnlyCopy(t)'
    BY <1>0, <2>2, CopiesFrame DEF StopLookup, routing
  <2>3. ASSUME NEW c \in Clients, StopEnqueue(c)
        PROVE  OnlyCopy(t)'
    BY <1>0, <2>3, CopiesEnqueue DEF StopEnqueue, routing, FreshInv, TypeOK
  <2>4. CASE nextPendingEvent
    <3>1. /\ Queued(t)' => Queued(t)
          /\ Alone(t) => Alone(t)'
          /\ Head(pending).task = t => Queued(t)
          /\ Alone(t) /\ Head(pending).task = t => ~ Queued(t)'
      BY <1>0, <2>4, DequeueCopies DEF nextPendingEvent
    <3>2. /\ Holds(t)' <=> Head(pending).task = t
          /\ ~ Holds(t)
          /\ UNCHANGED <<taskDb, taskWorkerMap, submits>>
      BY <2>4 DEF nextPendingEvent, Holds, routing, client
    <3> QED BY <2>0, <3>1, <3>2 DEF OnlyCopy
  <2>5. ASSUME UNCHANGED <<pending, taskWorkerMap, submits>>,
               Holds(t)' => Holds(t),
               send'.pc \in {"pick", "requeue"} /\ Holds(t)' => taskWorkerMap[t] = None,
               send'.pc # "route"
        PROVE  OnlyCopy(t)'
    <3>1. (Queued(t)' <=> Queued(t)) /\ (Alone(t)' <=> Alone(t))
      BY <2>5 DEF Queued, Alone
    <3> QED BY <2>0, <2>5, <3>1 DEF OnlyCopy
  <2>6. CASE RouteToStop
    BY <2>5, <2>6 DEF RouteToStop, Holds, routing, client, TypeOK, SendType
  <2>7. CASE RouteToNowhere \/ SelectWorkerFails \/ RecordTask
    BY <2>5, <2>7 DEF RouteToNowhere, SelectWorkerFails, RecordTask, SendIdle, Holds,
                      routing, client
  <2>8. CASE RouteToWorker
    <3>1. /\ taskDb[t] = None /\ Holds(t) => taskWorkerMap[t] = None
          /\ UNCHANGED <<pending, taskDb, taskWorkerMap, submits>>
          /\ send'.pc = "pick" /\ send'.ev = send.ev /\ send.pc = "route"
      BY <2>0, <2>8 DEF RouteToWorker, OnlyCopy, routing, client, TypeOK, SendType
    <3>2. (Queued(t)' <=> Queued(t)) /\ (Alone(t)' <=> Alone(t)) /\ (Holds(t)' <=> Holds(t))
      BY <3>1 DEF Queued, Alone, Holds
    <3> QED BY <2>0, <3>1, <3>2 DEF OnlyCopy
  <2>9. ASSUME NEW w \in Workers, assignTask(w)
        PROVE  OnlyCopy(t)'
    <3>1. /\ UNCHANGED <<pending, taskDb, submits>>
          /\ send'.pc = "post" /\ send'.ev = send.ev /\ send.pc = "pick"
          /\ ~ Holds(t) => taskWorkerMap'[t] = taskWorkerMap[t]
      BY <1>0, <2>9 DEF assignTask, Holds, client, TypeOK, SendType
    <3>2. (Queued(t)' <=> Queued(t)) /\ (Alone(t)' <=> Alone(t)) /\ (Holds(t)' <=> Holds(t))
      BY <3>1 DEF Queued, Alone, Holds
    <3> QED BY <2>0, <3>1, <3>2 DEF OnlyCopy
  <2>10. ASSUME NEW out \in PostOutcomes, postTaskEvent(out)
         PROVE  OnlyCopy(t)'
    <3>1. /\ UNCHANGED <<pending, taskWorkerMap, submits>>
          /\ send'.pc \in {"idle", "record", "unassign"}
          /\ send'.pc # "idle" => send'.ev = send.ev
          /\ send.pc # "idle"
      BY <2>10 DEF postTaskEvent, Outcome, SendIdle, routing, client, TypeOK, SendType
    <3> QED BY <2>5, <3>1 DEF Holds
  <2>11. ASSUME NEW out \in PostOutcomes, stopTask(out)
         PROVE  OnlyCopy(t)'
    BY <2>5, <2>11 DEF stopTask, SendIdle, Holds, routing, client, TypeOK, SendType
  <2>12. CASE unassignTask
    <3>1. /\ UNCHANGED <<pending, taskDb, submits>>
          /\ send'.pc = "requeue" /\ send'.ev = send.ev /\ send.pc = "unassign"
          /\ Holds(t) => taskWorkerMap'[t] = None
          /\ ~ Holds(t) => taskWorkerMap'[t] = taskWorkerMap[t]
      BY <1>0, <2>12 DEF unassignTask, Holds, client, TypeOK, SendType
    <3>2. (Queued(t)' <=> Queued(t)) /\ (Alone(t)' <=> Alone(t)) /\ (Holds(t)' <=> Holds(t))
      BY <3>1 DEF Queued, Alone, Holds
    <3> QED BY <2>0, <3>1, <3>2 DEF OnlyCopy
  <2>13. CASE RequeueEvent
    <3>1. /\ Queued(t)' <=> Queued(t) \/ send.ev.task = t
          /\ Alone(t) /\ (send.ev.task # t \/ ~ Queued(t)) => Alone(t)'
      BY <1>0, <2>13, EnqueueCopies DEF RequeueEvent
    <3>2. /\ UNCHANGED <<taskDb, taskWorkerMap, submits>>
          /\ send.pc = "requeue"
          /\ Holds(t) <=> send.ev.task = t
          /\ ~ Holds(t)'
      BY <2>13 DEF RequeueEvent, Holds, SendIdle, routing, client
    <3> QED BY <2>0, <3>1, <3>2 DEF OnlyCopy
  <2>14. CASE retireTask
    <3>1. /\ UNCHANGED <<pending, submits>>
          /\ ~ Holds(t)'
          /\ taskWorkerMap'[t] \in {taskWorkerMap[t], None}
      BY <1>0, <2>14 DEF retireTask, Holds, SendIdle, client, TypeOK
    <3>2. (Queued(t)' <=> Queued(t)) /\ (Alone(t)' <=> Alone(t))
      BY <3>1 DEF Queued, Alone
    <3> QED BY <2>0, <3>1, <3>2 DEF OnlyCopy
  <2>15. CASE RequeueRestart
    <3> DEFINE e == [task |-> health.task, rec |-> health.rec]
    <3>1. e \in Event /\ taskDb[e.task] # None
      BY <2>15 DEF RequeueRestart, Event, TypeOK, HealthType
    <3>2. /\ pending' = Append(pending, e)
          /\ UNCHANGED <<taskDb, send, taskWorkerMap, submits>>
      BY <2>15 DEF RequeueRestart, routing, client
    <3> HIDE DEF e
    <3> QED BY <1>0, <3>1, <3>2, CopiesEnqueue
  <2>16. CASE HealthStep /\ ~ RequeueRestart
    BY <1>0, <2>16, CopiesFrame
    DEF HealthStep, HealthSnapshot, checkTaskHealth, RestartRoute, beginRestart,
        PostRestart, routing, client
  <2>17. CASE UpdateStep
    BY <1>0, <2>17, CopiesFrame
    DEF UpdateStep, UpdateTick, UpdateGet, UpdateFails, applyWorkerReport, routing, client
  <2>18. CASE UNCHANGED vars
    BY <1>0, <2>18, CopiesFrame DEF vars, routing, client
  <2>19. CASE ApiStep
    BY <2>1, <2>2, <2>3, <2>19 DEF ApiStep
  <2>20. CASE SendStep
    BY <2>4, <2>6, <2>7, <2>8, <2>9, <2>10, <2>11, <2>12, <2>13, <2>14, <2>20
    DEF SendStep
  <2> QED BY <2>15, <2>16, <2>17, <2>18, <2>19, <2>20 DEF Next
<1> QED BY <1>1, <1>2 DEF FreshInv

(* The same conclusion when workers may refuse tasks and writes to the     *)
(* store may be lost, provided no task id is submitted twice.              *)
THEOREM RoutingFresh ==
  ASSUME Fresh
  PROVE  Spec => []RoutingConsistent
<1>1. Init => FreshInv
  BY ManagerAssumption
  DEF Init, FreshInv, OnlyCopy, Alone, Queued, Holds, SendIdle
<1>2. TypeOK /\ FreshInv => RouteClear
  BY DEF Fresh, FreshInv, OnlyCopy, Holds, RouteClear, TypeOK, SendType, Event
<1>3. TypeOK /\ RInv /\ FreshInv /\ [Next]_vars => (RInv /\ FreshInv)'
  BY <1>2, FreshStep, RoutingStep
<1>4. RInv => RoutingConsistent
  BY DEF RInv
<1> QED BY <1>1, <1>3, <1>4, InitRouting, TypeCorrect, PTL DEF Spec


-----------------------------------------------------------------------------
(***************************************************************************)
(* No accepted task is mislaid. SendWork may drop what it holds only when  *)
(* TaskDb has the task, which for a stop has to be known since the route.  *)
(***************************************************************************)
StopIsStored ==
  send.pc \in {"stop", "retire"} => taskDb[send.ev.task] # None

KeptInv == StopIsStored /\ SubmissionNotLost

LEMMA KeptStep ==
  ASSUME Reliable, ~ NoCandidate, TypeOK, KeptInv, [Next]_vars
  PROVE  KeptInv'
<1> USE ManagerAssumption
<1>0. /\ \A t \in Tasks : taskDb[t] # None => taskDb'[t] # None
      /\ send.pc # "idle" => send.ev \in Event /\ send.ev.task \in Tasks
      /\ pending \in Seq(Event)
  BY StoreGrows DEF TypeOK, SendType, Event
<1>1. StopIsStored'
  <2>1. CASE ApiStep \/ HealthStep \/ UpdateStep \/ UNCHANGED vars
    BY <1>0, <2>1, OthersLeaveRouting DEF KeptInv, StopIsStored
  <2>2. CASE nextPendingEvent \/ RouteToNowhere \/ SelectWorkerFails \/ RequeueEvent
             \/ RecordTask \/ retireTask
    BY <2>2 DEF nextPendingEvent, RouteToNowhere, SelectWorkerFails, RequeueEvent,
                RecordTask, retireTask, SendIdle, StopIsStored
  <2>3. CASE RouteToStop
    BY <2>3 DEF RouteToStop, Assigned, StopIsStored, TypeOK, SendType
  <2>4. CASE RouteToWorker \/ unassignTask \/ (\E w \in Workers : assignTask(w))
    <3>1. send \in [pc : SendPC, ev : Event \cup {None}, worker : Workers \cup {None}]
      BY DEF TypeOK, SendType
    <3>2. send'.pc \notin {"stop", "retire"}
      BY <2>4, <3>1 DEF RouteToWorker, unassignTask, assignTask
    <3> QED BY <3>2 DEF StopIsStored
  <2>5. ASSUME NEW out \in PostOutcomes, postTaskEvent(out)
        PROVE  StopIsStored'
    BY <2>5 DEF postTaskEvent, Outcome, SendIdle, StopIsStored, TypeOK, SendType
  <2>6. ASSUME NEW out \in PostOutcomes, stopTask(out)
        PROVE  StopIsStored'
    BY <2>6 DEF stopTask, SendIdle, KeptInv, StopIsStored, TypeOK, SendType
  <2> QED BY <2>1, <2>2, <2>3, <2>4, <2>5, <2>6 DEF Next, SendStep
<1>2. ASSUME NEW t \in Tasks, submits'[t] > 0, taskDb'[t] = None
      PROVE  Queued(t)' \/ Holds(t)'
  <2>0. /\ taskDb[t] = None
        /\ submits[t] > 0 => Queued(t) \/ Holds(t)
    BY <1>0, <1>2 DEF KeptInv, SubmissionNotLost, InHand, Queued, Holds
  <2>1. ASSUME UNCHANGED <<pending, send, submits>>
        PROVE  Queued(t)' \/ Holds(t)'
    BY <1>2, <2>0, <2>1 DEF Queued, Holds
  <2>2. ASSUME NEW u \in Tasks, NEW s \in SubmitStates, StartTaskHandler(u, s)
        PROVE  Queued(t)' \/ Holds(t)'
    <3> DEFINE e == [task |-> u, rec |-> [state |-> s, count |-> 0, cid |-> None]]
    <3>1. e \in Event /\ e.task = u
      BY DEF Event, Rec
    <3>2. /\ pending' = Append(pending, e)
          /\ submits' = [submits EXCEPT ![u] = @ + 1]
          /\ UNCHANGED send
      BY <2>2 DEF StartTaskHandler
    <3>3. Queued(t)' <=> Queued(t) \/ u = t
      BY <1>0, <3>1, <3>2, EnqueueCopies
    <3>4. u # t => submits'[t] = submits[t]
      BY <3>2 DEF TypeOK
    <3>5. Holds(t)' <=> Holds(t)
      BY <3>2 DEF Holds
    <3> QED BY <1>2, <2>0, <3>3, <3>4, <3>5
  <2>3. ASSUME NEW e \in Event, pending' = Append(pending, e), UNCHANGED <<send, submits>>
        PROVE  Queued(t)' \/ Holds(t)'
    <3>1. Queued(t) => Queued(t)'
      BY <1>0, <2>3, EnqueueCopies
    <3> QED BY <1>2, <2>0, <2>3, <3>1 DEF Holds
  <2>4. CASE ApiStep
    <3>1. ASSUME NEW c \in Clients, StopEnqueue(c)
          PROVE  api[c] \in Event
      BY <3>1 DEF StopEnqueue, TypeOK
    <3> QED BY <2>1, <2>2, <2>3, <2>4, <3>1 DEF ApiStep, StopLookup, StopEnqueue
  <2>5. CASE HealthStep
    <3>1. ASSUME RequeueRestart
          PROVE  [task |-> health.task, rec |-> health.rec] \in Event
      BY <3>1 DEF RequeueRestart, Event, TypeOK, HealthType
    <3> QED BY <2>1, <2>3, <2>5, <3>1
            DEF HealthStep, HealthSnapshot, checkTaskHealth, RestartRoute, beginRestart,
                PostRestart, RequeueRestart, client
  <2>6. CASE UpdateStep \/ UNCHANGED vars
    BY <2>1, <2>6 DEF UpdateStep, UpdateTick, UpdateGet, UpdateFails,
                      applyWorkerReport, client, vars
  <2>7. CASE nextPendingEvent
    <3>1. /\ Len(pending) \in Nat /\ Len(pending) > 0
          /\ Len(pending') = Len(pending) - 1
          /\ \A i \in 1..Len(pending') : pending'[i] = pending[i + 1]
          /\ send'.ev = pending[1] /\ send'.pc = "route" /\ send.pc = "idle"
          /\ UNCHANGED submits
      BY <1>0, <2>7 DEF nextPendingEvent, client
    <3>2. PICK i \in 1..Len(pending) : pending[i].task = t
      BY <1>2, <2>0, <3>1 DEF Queued, Holds
    <3>3. CASE i = 1
      BY <3>1, <3>2, <3>3 DEF Holds
    <3>4. CASE i # 1
      <4>1. i - 1 \in 1..Len(pending') /\ pending'[i - 1].task = t
        BY <3>1, <3>2, <3>4
      <4> QED BY <4>1 DEF Queued
    <3> QED BY <3>3, <3>4
  <2>8. ASSUME UNCHANGED <<pending, submits>>, Holds(t) => Holds(t)'
        PROVE  Queued(t)' \/ Holds(t)'
    BY <1>2, <2>0, <2>8 DEF Queued
  <2>9. CASE RouteToStop \/ RouteToWorker \/ unassignTask \/ (\E w \in Workers : assignTask(w))
    <3>1. send'.pc # "idle" /\ send'.ev = send.ev
      <4>1. CASE RouteToStop
        BY <4>1 DEF RouteToStop, TypeOK, SendType
      <4>2. CASE RouteToWorker
        BY <4>2 DEF RouteToWorker, TypeOK, SendType
      <4>3. CASE unassignTask
        BY <4>3 DEF unassignTask, TypeOK, SendType
      <4>4. CASE \E w \in Workers : assignTask(w)
        BY <4>4 DEF assignTask, TypeOK, SendType
      <4> QED BY <2>9, <4>1, <4>2, <4>3, <4>4
    <3>2. UNCHANGED <<pending, submits>>
      BY <2>9 DEF RouteToStop, RouteToWorker, unassignTask, assignTask, client
    <3> QED BY <2>8, <3>1, <3>2 DEF Holds
  <2>10. CASE RouteToNowhere
    BY <2>0, <2>8, <2>10 DEF RouteToNowhere, Assigned, Holds, client
  <2>11. ASSUME NEW out \in PostOutcomes, postTaskEvent(out)
         PROVE  Queued(t)' \/ Holds(t)'
    <3>1. out \in {"created", "unreachable"}
      BY DEF Reliable, Outcome
    <3> QED BY <2>8, <2>11, <3>1 DEF postTaskEvent, Holds, client, TypeOK, SendType
  <2>12. CASE RequeueEvent
    <3>1. /\ Queued(t)' <=> Queued(t) \/ send.ev.task = t
          /\ UNCHANGED submits
      BY <1>0, <2>12, EnqueueCopies DEF RequeueEvent, client
    <3> QED BY <1>2, <2>0, <3>1 DEF Holds
  <2>13. CASE RecordTask
    <3>1. taskDb' = [taskDb EXCEPT ![send.ev.task] = send.ev.rec]
      BY <2>13 DEF RecordTask, Put, Reliable
    <3>2. send.ev.rec \in Rec /\ send.ev.task \in Tasks
      BY <1>0, <2>13 DEF RecordTask, Event
    <3>3. ~ Holds(t)
      BY <1>2, <3>1, <3>2 DEF Holds, TypeOK
    <3> QED BY <2>8, <2>13, <3>3 DEF RecordTask, client
  <2>14. CASE retireTask \/ (\E out \in PostOutcomes : stopTask(out))
    <3>1. ~ Holds(t)
      BY <2>0, <2>14 DEF retireTask, stopTask, KeptInv, StopIsStored, Holds
    <3> QED BY <2>8, <2>14, <3>1 DEF retireTask, stopTask, client
  <2>15. ~ SelectWorkerFails
    BY DEF SelectWorkerFails
  <2> QED BY <2>4, <2>5, <2>6, <2>7, <2>9, <2>10, <2>11, <2>12, <2>13, <2>14, <2>15
          DEF Next, SendStep
<1> QED BY <1>1, <1>2 DEF KeptInv, SubmissionNotLost, InHand, Queued, Holds

(* Until its first copy is in TaskDb, the event of an accepted task is in  *)
(* the queue or in SendWork's hands, over any number of unreachable        *)
(* workers, when no worker refuses, the store works and the scheduler has  *)
(* a candidate.                                                            *)
THEOREM SubmissionKept ==
  ASSUME Reliable, ~ NoCandidate
  PROVE  Spec => []SubmissionNotLost
<1>1. Init => KeptInv
  BY DEF Init, KeptInv, StopIsStored, SubmissionNotLost, SendIdle
<1>2. TypeOK /\ KeptInv /\ [Next]_vars => KeptInv'
  BY KeptStep
<1>3. KeptInv => SubmissionNotLost
  BY DEF KeptInv
<1> QED BY <1>1, <1>2, <1>3, TypeCorrect, PTL DEF Spec

-----------------------------------------------------------------------------
(* However late the poll that carries it, a worker's report does not take  *)
(* a task out of Completed, nor does any step but beginRestart's and the   *)
(* recording of a new dispatch.                                            *)
THEOREM NoResurrection == Spec => ReportsNeverResurrect
<1> DEFINE A == \A t \in Tasks :
       /\ taskDb[t] # None
       /\ taskDb[t].state = Completed
       /\ taskDb'[t].state # Completed
       => health.pc = "begin" \/ send.pc = "record"
<1>1. TypeOK /\ [Next]_vars => [A]_vars
  <2> SUFFICES ASSUME TypeOK, Next, NEW t \in Tasks, taskDb[t] # None,
                      taskDb[t].state = Completed, taskDb'[t].state # Completed
               PROVE  health.pc = "begin" \/ send.pc = "record"
    OBVIOUS
  <2>1. ~ UNCHANGED taskDb
    OBVIOUS
  <2>2. CASE ApiStep
    BY <2>1, <2>2 DEF ApiStep, StartTaskHandler, StopLookup, StopEnqueue
  <2>3. CASE HealthStep
    BY <2>1, <2>3 DEF HealthStep, HealthSnapshot, checkTaskHealth, RestartRoute,
                      beginRestart, PostRestart, RequeueRestart
  <2>4. ASSUME retireTask
        PROVE  FALSE
    <3>1. send.ev.task \in Tasks
      BY <2>4 DEF retireTask, TypeOK, SendType, Event
    <3>2. taskDb' = [taskDb EXCEPT ![send.ev.task] = WithState(taskDb[send.ev.task], Completed)]
      BY <2>1, <2>4 DEF retireTask, Rewrite
    <3>3. CASE send.ev.task = t
      <4>1. taskDb'[t] = WithState(taskDb[t], Completed)
        BY <3>2, <3>3 DEF TypeOK
      <4>2. ASSUME NEW p \in Rec PROVE WithState(p, Completed).state = Completed
        BY DEF WithState, Rec
      <4> QED BY <4>1, <4>2 DEF TypeOK
    <3>4. CASE send.ev.task # t
      BY <3>2, <3>4 DEF TypeOK
    <3> QED BY <3>3, <3>4
  <2>5. CASE SendStep
    BY <2>1, <2>4, <2>5
    DEF SendStep, nextPendingEvent, RouteToStop, RouteToNowhere, RouteToWorker,
        SelectWorkerFails, assignTask, postTaskEvent, unassignTask, RequeueEvent,
        RecordTask, stopTask
  <2>6. ASSUME NEW w \in Workers, NEW r \in up[w].reports, applyWorkerReport(w, r)
        PROVE  FALSE
    <3>1. r \in Report /\ r.task \in Tasks
      BY DEF TypeOK, Report
    <3>2. taskDb' = [taskDb EXCEPT ![r.task] = mergeTaskUpdate(taskDb[r.task], r)]
      BY <2>1, <2>6 DEF applyWorkerReport, Rewrite
    <3>3. CASE r.task = t
      <4>1. taskDb'[t] = mergeTaskUpdate(taskDb[t], r) /\ taskDb[t] \in Rec
        BY <3>2, <3>3 DEF TypeOK
      <4>2. ASSUME NEW p \in Rec, p.state = Completed
            PROVE  mergeTaskUpdate(p, r).state = Completed
        <5>1. CASE r.state = Completed
          BY <3>1, <4>2, <5>1 DEF mergeTaskUpdate, Rec, Report
        <5>2. CASE r.state # Completed
          <6>1. machine[Completed] = {}
            BY DEF machine, State, Pending, Scheduled, Running, Completed, Failed
          <6>2. ~ IsValidTransition(p.state, r.state)
            BY <4>2, <6>1 DEF IsValidTransition
          <6> QED BY <4>2, <5>2, <6>2 DEF mergeTaskUpdate
        <5> QED BY <5>1, <5>2
      <4> QED BY <4>1, <4>2
    <3>4. CASE r.task # t
      BY <3>2, <3>4 DEF TypeOK
    <3> QED BY <3>3, <3>4
  <2>7. CASE UpdateStep
    BY <2>1, <2>6, <2>7 DEF UpdateStep, UpdateTick, UpdateGet, UpdateFails
  <2> QED BY <2>2, <2>3, <2>5, <2>7 DEF Next
<1> QED BY <1>1, TypeCorrect, PTL DEF Spec, ReportsNeverResurrect

-----------------------------------------------------------------------------
(***************************************************************************)
(* The restart budget. A count can go up in two ways: beginRestart adds    *)
(* one, after a decision on a copy that had some left, and RecordTask      *)
(* stores the count of the copy it dispatched. A task that TaskDb has is   *)
(* dispatched again only after a stop has taken its route away; one stop   *)
(* gives one such dispatch, and until it is recorded no copy has a higher  *)
(* count than the store.                                                   *)
(***************************************************************************)
IsStop(e, t) == e.task = t /\ e.rec.state = Completed

(* Where a stop may be on its way: in a request, in the queue, in SendWork.*)
AskedBy(c, t) == api[c] # None /\ api[c].task = t
Asked(t) == \E c \in Clients : AskedBy(c, t)
StopQueued(t) == \E i \in 1..Len(pending) : IsStop(pending[i], t)
StopInHand(t) == send.pc # "idle" /\ IsStop(send.ev, t)
NoStop(t) == ~ Asked(t) /\ ~ StopQueued(t) /\ ~ StopInHand(t)

Dispatching(t) ==
  send.pc \in {"pick", "post", "unassign", "requeue", "record"} /\ send.ev.task = t

(* There is one stop at most, and it was asked for.                        *)
OneQueued(t) ==
  \A i, j \in 1..Len(pending) : IsStop(pending[i], t) /\ IsStop(pending[j], t) => i = j

OneStop(t) ==
  /\ OneQueued(t)
  /\ \A c, d \in Clients : AskedBy(c, t) /\ AskedBy(d, t) => c = d
  /\ Asked(t) => ~ StopQueued(t) /\ ~ StopInHand(t)
  /\ StopQueued(t) => ~ StopInHand(t)
  /\ ~ NoStop(t) => stops[t] # 0
  /\ send.pc \in {"stop", "retire"} /\ send.ev.task = t => StopInHand(t)

(* A task TaskDb has is without a route, or on its way to a new one, only  *)
(* once its stop is used up ...                                            *)
Spent(t) == taskWorkerMap[t] = None \/ Dispatching(t) => NoStop(t) /\ stops[t] # 0

(* ... and when it has its route again it is never dispatched any more.    *)
Settled(t) == taskWorkerMap[t] # None /\ ~ Dispatching(t) /\ NoStop(t) /\ stops[t] # 0

(* No copy of t has a count above n.                                       *)
Restarting(t) == health.pc \in {"post", "requeue"} /\ health.task = t
QueueBound(t, n) ==
  \A i \in 1..Len(pending) : pending[i].task = t => pending[i].rec.count <= n
SendBound(t, n) == Holds(t) => send.ev.rec.count <= n
ApiBound(t, n) == \A c \in Clients : AskedBy(c, t) => api[c].rec.count <= n
HealthBound(t, n) == Restarting(t) => health.rec.count <= n

Bounded(t, n) == QueueBound(t, n) /\ SendBound(t, n) /\ ApiBound(t, n) /\ HealthBound(t, n)

(* The health pass has t on its list and has not begun its restart.        *)
Decided(t) == health.todo[t] # "skip" /\ ~ Restarting(t)

Budget(t) ==
  stops[t] <= 1 =>
    /\ Bounded(t, TaskRestartMax)
    /\ taskDb[t] # None =>
         /\ OneStop(t)
         /\ Spent(t)
         /\ ~ Settled(t) => Bounded(t, taskDb[t].count)
         /\ taskDb[t].count <= TaskRestartMax
         /\ Decided(t) => taskDb[t].count < TaskRestartMax

PassKnows ==
  /\ health.pc \in {"restart", "begin"} => health.todo[health.task] # "skip"
  /\ health.pc \in {"post", "requeue"} => health.rec.state = Scheduled

Submitted == \A t \in Tasks : taskDb[t] # None => submits[t] # 0

BudgetInv == PassKnows /\ Submitted /\ \A t \in Tasks : Budget(t)

(* Counts are numbers, wherever a copy is.                                 *)
LEMMA CountTypes ==
  ASSUME NEW t \in Tasks, TypeOK
  PROVE  /\ \A i \in 1..Len(pending) : pending[i].rec.count \in Nat
         /\ Holds(t) => send.ev.rec.count \in Nat
         /\ \A c \in Clients : AskedBy(c, t) => api[c].rec.count \in Nat
         /\ Restarting(t) => health.rec.count \in Nat
         /\ taskDb[t] # None => taskDb[t].count \in Nat
<1>1. \A e \in Event : e.rec.count \in Nat
  BY DEF Event, Rec
<1>2. \A i \in 1..Len(pending) : pending[i] \in Event
  BY DEF TypeOK
<1>3. Holds(t) => send.ev \in Event
  BY DEF TypeOK, SendType, Holds
<1>4. \A c \in Clients : AskedBy(c, t) => api[c] \in Event
  BY DEF TypeOK, AskedBy
<1>5. Restarting(t) => health.rec \in Rec
  BY DEF TypeOK, HealthType, Restarting
<1>6. taskDb[t] # None => taskDb[t] \in Rec
  BY DEF TypeOK
<1> QED BY <1>1, <1>2, <1>3, <1>4, <1>5, <1>6 DEF Rec

(* What an Enqueue does to the stops and the counts in the queue.          *)
LEMMA EnqueueBudget ==
  ASSUME NEW t \in Tasks, NEW e \in Event, pending \in Seq(Event),
         pending' = Append(pending, e)
  PROVE  /\ StopQueued(t)' <=> StopQueued(t) \/ IsStop(e, t)
         /\ OneQueued(t) /\ ~ (IsStop(e, t) /\ StopQueued(t)) => OneQueued(t)'
         /\ \A n : /\ QueueBound(t, n)
                   /\ e.task = t => e.rec.count <= n
                   => \A i \in 1..Len(pending') :
                        pending'[i].task = t => pending'[i].rec.count <= n
<1>1. /\ Len(pending') = Len(pending) + 1
      /\ \A i \in 1..Len(pending) : pending'[i] = pending[i]
      /\ pending'[Len(pending) + 1] = e
  OBVIOUS
<1>2. Len(pending) \in Nat
  OBVIOUS
<1>3. \A i \in 1..Len(pending') : i \in 1..Len(pending) \/ i = Len(pending) + 1
  BY <1>1, <1>2
<1>4. StopQueued(t)' <=> StopQueued(t) \/ IsStop(e, t)
  BY <1>1, <1>2, <1>3 DEF StopQueued, IsStop
<1>5. OneQueued(t) /\ ~ (IsStop(e, t) /\ StopQueued(t)) => OneQueued(t)'
  BY <1>1, <1>3 DEF OneQueued, StopQueued, IsStop
<1>6. ASSUME NEW n, QueueBound(t, n), e.task = t => e.rec.count <= n
      PROVE  \A i \in 1..Len(pending') : pending'[i].task = t => pending'[i].rec.count <= n
  BY <1>1, <1>3, <1>6 DEF QueueBound
<1> QED BY <1>4, <1>5, <1>6

(* And a Dequeue.                                                          *)
LEMMA DequeueBudget ==
  ASSUME NEW t \in Tasks, pending \in Seq(Event), pending # <<>>,
         pending' = Tail(pending)
  PROVE  /\ StopQueued(t)' => StopQueued(t)
         /\ OneQueued(t) => OneQueued(t)'
         /\ IsStop(Head(pending), t) => StopQueued(t)
         /\ OneQueued(t) /\ IsStop(Head(pending), t) => ~ StopQueued(t)'
         /\ \A n : QueueBound(t, n) =>
              /\ Head(pending).task = t => Head(pending).rec.count <= n
              /\ \A i \in 1..Len(pending') :
                   pending'[i].task = t => pending'[i].rec.count <= n
<1>1. /\ Len(pending) \in Nat /\ Len(pending) > 0
      /\ Len(pending') = Len(pending) - 1
      /\ \A i \in 1..Len(pending') : pending'[i] = pending[i + 1]
      /\ Head(pending) = pending[1]
  OBVIOUS
<1>2. 1 \in 1..Len(pending) /\ \A i \in 1..Len(pending') : i + 1 \in 1..Len(pending)
  BY <1>1
<1>3. StopQueued(t)' => StopQueued(t)
  BY <1>1, <1>2 DEF StopQueued, IsStop
<1>4. OneQueued(t) => OneQueued(t)'
  <2> SUFFICES ASSUME OneQueued(t), NEW i \in 1..Len(pending'), NEW j \in 1..Len(pending'),
                      IsStop(pending'[i], t), IsStop(pending'[j], t)
               PROVE  i = j
    BY DEF OneQueued, IsStop
  <2>1. i + 1 = j + 1
    BY <1>1, <1>2 DEF OneQueued
  <2> QED BY <2>1
<1>5. IsStop(Head(pending), t) => StopQueued(t)
  BY <1>1, <1>2 DEF StopQueued
<1>6. OneQueued(t) /\ IsStop(Head(pending), t) => ~ StopQueued(t)'
  <2> SUFFICES ASSUME OneQueued(t), IsStop(Head(pending), t),
                      NEW i \in 1..Len(pending'), IsStop(pending'[i], t)
               PROVE  FALSE
    BY DEF StopQueued, IsStop
  <2>1. i + 1 = 1
    BY <1>1, <1>2 DEF OneQueued
  <2> QED BY <2>1, <1>1
<1>7. ASSUME NEW n, QueueBound(t, n)
      PROVE  /\ Head(pending).task = t => Head(pending).rec.count <= n
             /\ \A i \in 1..Len(pending') : pending'[i].task = t => pending'[i].rec.count <= n
  BY <1>1, <1>2, <1>7 DEF QueueBound
<1> QED BY <1>3, <1>4, <1>5, <1>6, <1>7

(* Steps of polls and health passes leave the queue, SendWork, the routes  *)
(* and the clients alone.                                                  *)
LEMMA BudgetQuiet ==
  ASSUME NEW t \in Tasks, TypeOK, TypeOK', Budget(t), stops'[t] <= 1,
         UNCHANGED <<pending, send, api, stops, taskWorkerMap>>,
         taskDb[t] = None <=> taskDb'[t] = None,
         taskDb[t] # None => taskDb'[t].count >= taskDb[t].count,
         taskDb[t] # None => taskDb'[t].count <= TaskRestartMax,
         taskDb[t] # None /\ Decided(t)' => taskDb'[t].count < TaskRestartMax,
         Restarting(t)' => \/ Restarting(t) /\ health'.rec = health.rec
                           \/ taskDb[t] # None /\ health'.rec.count = taskDb'[t].count
  PROVE  Budget(t)'
<1> USE ManagerAssumption
<1>1. stops[t] <= 1
  OBVIOUS
<1>2. /\ (OneStop(t)' <=> OneStop(t)) /\ (Spent(t)' <=> Spent(t))
      /\ (Settled(t)' <=> Settled(t))
  BY DEF OneStop, OneQueued, Spent, Settled, NoStop, Asked, AskedBy, StopQueued, StopInHand,
         IsStop, Dispatching
<1>3. taskDb[t] # None => taskDb[t].count \in Nat /\ taskDb'[t].count \in Nat
  BY DEF TypeOK, Rec
<1>4. \A n : Bounded(t, n) =>
        /\ \A i \in 1..Len(pending') : pending'[i].task = t => pending'[i].rec.count <= n
        /\ Holds(t)' => send'.ev.rec.count <= n
        /\ \A c \in Clients : AskedBy(c, t)' => api'[c].rec.count <= n
  BY DEF Bounded, QueueBound, SendBound, ApiBound, AskedBy, Holds
<1>5. Bounded(t, TaskRestartMax)'
  <2>1. HealthBound(t, TaskRestartMax)'
    BY <1>1, <1>3 DEF Budget, Bounded, HealthBound
  <2> QED BY <1>1, <1>4, <2>1 DEF Budget, Bounded, QueueBound, SendBound, ApiBound
<1>6. ASSUME taskDb[t] # None, ~ Settled(t)
      PROVE  Bounded(t, taskDb[t].count)'
  <2>1. Bounded(t, taskDb[t].count) /\ taskDb[t].count <= taskDb'[t].count
    BY <1>1, <1>3, <1>6 DEF Budget
  <2>2. /\ \A i \in 1..Len(pending) : pending[i].rec.count \in Nat
        /\ Holds(t) => send.ev.rec.count \in Nat
        /\ \A c \in Clients : AskedBy(c, t) => api[c].rec.count \in Nat
        /\ Restarting(t) => health.rec.count \in Nat
    BY CountTypes
  <2>3. HealthBound(t, taskDb[t].count)'
    BY <1>3, <1>6, <2>1, <2>2 DEF Bounded, HealthBound
  <2>4. (QueueBound(t, taskDb[t].count) /\ SendBound(t, taskDb[t].count)
           /\ ApiBound(t, taskDb[t].count))'
    BY <1>3, <1>6, <2>1, <2>2
    DEF Bounded, QueueBound, SendBound, ApiBound, AskedBy, Holds
  <2> QED BY <2>3, <2>4 DEF Bounded
<1> QED BY <1>1, <1>2, <1>5, <1>6 DEF Budget

(* Steps of SendWork that leave the queue, the counts and the health pass  *)
(* alone.                                                                  *)
LEMMA BudgetSend ==
  ASSUME NEW t \in Tasks, TypeOK, Budget(t), stops'[t] <= 1,
         UNCHANGED <<pending, api, stops, health>>,
         taskDb[t] = None <=> taskDb'[t] = None,
         taskDb[t] # None => taskDb'[t].count = taskDb[t].count,
         send'.pc = "idle" \/ (send.pc # "idle" /\ send'.ev = send.ev),
         taskDb[t] # None /\ send'.pc \in {"stop", "retire"} /\ send'.ev.task = t
           => StopInHand(t)',
         taskDb[t] # None /\ (taskWorkerMap'[t] = None \/ Dispatching(t)')
           => NoStop(t)' /\ stops[t] # 0,
         taskDb[t] # None /\ Settled(t) => Settled(t)'
  PROVE  Budget(t)'
<1>1. stops[t] <= 1
  OBVIOUS
<1>2. /\ OneQueued(t)' <=> OneQueued(t)
      /\ Asked(t)' <=> Asked(t)
      /\ \A c \in Clients : AskedBy(c, t)' <=> AskedBy(c, t)
      /\ StopQueued(t)' <=> StopQueued(t)
      /\ StopInHand(t)' => StopInHand(t)
      /\ Holds(t)' => Holds(t) /\ send'.ev = send.ev
      /\ Decided(t)' <=> Decided(t)
  BY DEF OneQueued, Asked, AskedBy, StopQueued, StopInHand, IsStop, Holds, Decided, Restarting
<1>3. \A n : Bounded(t, n) =>
        /\ \A i \in 1..Len(pending') : pending'[i].task = t => pending'[i].rec.count <= n
        /\ Holds(t)' => send'.ev.rec.count <= n
        /\ \A c \in Clients : AskedBy(c, t)' => api'[c].rec.count <= n
        /\ Restarting(t)' => health'.rec.count <= n
  BY <1>2 DEF Bounded, QueueBound, SendBound, ApiBound, HealthBound, AskedBy, Restarting
<1>4. Bounded(t, TaskRestartMax)'
  BY <1>1, <1>3 DEF Budget, Bounded, QueueBound, SendBound, ApiBound, HealthBound
<1>5. ASSUME taskDb[t] # None
      PROVE  OneStop(t)' /\ Spent(t)' /\ (~ Settled(t)' => Bounded(t, taskDb[t].count)')
  <2>1. OneStop(t) /\ (~ Settled(t) => Bounded(t, taskDb[t].count))
    BY <1>1, <1>5 DEF Budget
  <2>2. NoStop(t) => NoStop(t)'
    BY <1>2 DEF NoStop
  <2>3. OneStop(t)'
    BY <1>2, <1>5, <2>1, <2>2 DEF OneStop
  <2>4. Spent(t)'
    BY <1>5 DEF Spent
  <2>5. ~ Settled(t)' => Bounded(t, taskDb[t].count)'
    BY <1>3, <1>5, <2>1 DEF Bounded, QueueBound, SendBound, ApiBound, HealthBound
  <2> QED BY <2>3, <2>4, <2>5
<1> QED BY <1>1, <1>2, <1>4, <1>5 DEF Budget

(* SendWork at work on another task.                                       *)
LEMMA BudgetElsewhere ==
  ASSUME NEW t \in Tasks, TypeOK, Budget(t), stops'[t] <= 1,
         UNCHANGED <<pending, api, stops, health>>, taskWorkerMap'[t] = taskWorkerMap[t],
         taskDb[t] = None <=> taskDb'[t] = None,
         taskDb[t] # None => taskDb'[t].count = taskDb[t].count,
         send.pc # "idle", send.ev.task # t,
         send'.pc = "idle" \/ send'.ev = send.ev
  PROVE  Budget(t)'
<1>1. ~ StopInHand(t) /\ ~ StopInHand(t)' /\ ~ Dispatching(t) /\ ~ Dispatching(t)'
      /\ ~ (send'.pc \in {"stop", "retire"} /\ send'.ev.task = t)
  BY DEF StopInHand, IsStop, Dispatching
<1>2. NoStop(t)' <=> NoStop(t)
  BY <1>1 DEF NoStop, Asked, AskedBy, StopQueued
<1>3. taskDb[t] # None => Spent(t)
  BY DEF Budget
<1>4. taskDb[t] # None /\ taskWorkerMap'[t] = None => NoStop(t)' /\ stops[t] # 0
  BY <1>2, <1>3 DEF Spent
<1>5. Settled(t) => Settled(t)'
  BY <1>1, <1>2 DEF Settled
<1> QED BY <1>1, <1>4, <1>5, BudgetSend

(* SendWork with a copy of t, from routing to its end, except the write of *)
(* the copy.                                                               *)
LEMMA BudgetRouted ==
  ASSUME Fresh, NEW t \in Tasks, TypeOK, RInv, Budget(t), stops'[t] <= 1, Holds(t),
         \/ RouteToStop
         \/ RouteToNowhere
         \/ RouteToWorker
         \/ SelectWorkerFails
         \/ \E w \in Workers : assignTask(w)
         \/ \E out \in PostOutcomes : postTaskEvent(out)
         \/ unassignTask
         \/ \E out \in PostOutcomes : stopTask(out)
         \/ retireTask
  PROVE  Budget(t)'
<1> USE ManagerAssumption DEF Holds
<1>0. /\ send \in [pc : SendPC, ev : Event \cup {None}, worker : Workers \cup {None}]
      /\ send.ev.task = t /\ send.pc # "idle"
  BY DEF TypeOK, SendType
<1>1. /\ UNCHANGED <<pending, api, stops, health>>
      /\ send'.pc = "idle" \/ (send.pc # "idle" /\ send'.ev = send.ev)
      /\ Dispatching(t) => Dispatching(t)' \/ send'.pc = "idle"
      /\ retireTask \/ taskDb' = taskDb
  <2>1. CASE RouteToStop \/ RouteToWorker
    BY <1>0, <2>1 DEF RouteToStop, RouteToWorker, client, Dispatching
  <2>2. CASE RouteToNowhere \/ SelectWorkerFails \/ retireTask
    BY <1>0, <2>2 DEF RouteToNowhere, SelectWorkerFails, retireTask, client, SendIdle
  <2>3. CASE unassignTask \/ \E w \in Workers : assignTask(w)
    BY <1>0, <2>3 DEF unassignTask, assignTask, client, Dispatching
  <2>4. ASSUME NEW out \in PostOutcomes, postTaskEvent(out)
        PROVE  /\ UNCHANGED <<pending, api, stops, health, taskDb>>
               /\ send'.pc = "idle" \/ (send.pc # "idle" /\ send'.ev = send.ev)
               /\ Dispatching(t)' \/ send'.pc = "idle"
    <3>1. \/ send' = SendIdle
          \/ send' = [send EXCEPT !.pc = "record"]
          \/ send' = [send EXCEPT !.pc = "unassign"]
      BY <2>4 DEF postTaskEvent, Outcome
    <3>2. UNCHANGED <<pending, api, stops, health, taskDb>>
      BY <2>4 DEF postTaskEvent, client
    <3> QED BY <1>0, <3>1, <3>2 DEF Dispatching, SendIdle
  <2>5. ASSUME NEW out \in PostOutcomes, stopTask(out)
        PROVE  /\ UNCHANGED <<pending, api, stops, health, taskDb>>
               /\ send'.pc = "idle" \/ (send.pc # "idle" /\ send'.ev = send.ev)
               /\ ~ Dispatching(t)
    BY <1>0, <2>5 DEF stopTask, client, Dispatching, SendIdle
  <2> QED BY <2>1, <2>2, <2>3, <2>4, <2>5
<1>2. /\ taskDb[t] = None <=> taskDb'[t] = None
      /\ taskDb[t] # None => taskDb'[t].count = taskDb[t].count
  <2>1. CASE retireTask /\ taskDb' # taskDb
    <3>1. taskDb[t] \in Rec /\ taskDb' = [taskDb EXCEPT ![t] = WithState(taskDb[t], Completed)]
      BY <1>0, <2>1 DEF retireTask, Rewrite, TypeOK
    <3>2. WithState(taskDb[t], Completed).count = taskDb[t].count
          /\ WithState(taskDb[t], Completed) \in Rec
      BY <3>1, EditType DEF WithState, Rec
    <3> QED BY <3>1, <3>2 DEF TypeOK
  <2> QED BY <1>1, <2>1
<1>3. CASE taskDb[t] = None
  BY <1>1, <1>2, <1>3, BudgetSend
<1>4. CASE taskDb[t] # None
  <2>1. OneStop(t) /\ Spent(t)
    BY <1>1, <1>4 DEF Budget
  <2>2. NoStop(t) => NoStop(t)'
    BY <1>1 DEF NoStop, Asked, AskedBy, StopQueued, StopInHand, IsStop
  <2>3. CASE Dispatching(t) \/ RouteToWorker
    <3>1. NoStop(t) /\ stops[t] # 0 /\ ~ Settled(t)
      <4>1. CASE Dispatching(t)
        BY <2>1, <4>1 DEF Spent, Settled
      <4>2. CASE RouteToWorker
        <5>1. taskWorkerMap[t] = None
          BY <1>0, <1>4, <4>2 DEF RouteToWorker, Assigned, Fresh
        <5> QED BY <2>1, <5>1 DEF Spent, Settled
      <4> QED BY <2>3, <4>1, <4>2
    <3>2. send'.pc \notin {"stop", "retire"}
      BY <1>0, <1>1, <2>3 DEF Dispatching, RouteToWorker
    <3> QED BY <1>1, <1>2, <2>2, <3>1, <3>2, BudgetSend
  <2>4. CASE RouteToStop \/ RouteToNowhere
    <3>1. taskWorkerMap'[t] = taskWorkerMap[t] /\ taskWorkerMap[t] # None
      BY <1>0, <2>4 DEF RouteToStop, RouteToNowhere, Assigned, routing
    <3>0. \/ send'.pc = "stop" /\ send'.ev = send.ev /\ send.ev.rec.state = Completed
          \/ send'.pc = "idle"
      <4>1. CASE RouteToStop
        BY <1>0, <4>1 DEF RouteToStop, StopIsValid
      <4>2. CASE RouteToNowhere
        BY <4>2 DEF RouteToNowhere, SendIdle
      <4> QED BY <2>4, <4>1, <4>2
    <3>2. ~ Dispatching(t)'
      BY <3>0 DEF Dispatching
    <3>3. Settled(t) => Settled(t)'
      BY <1>1, <2>2, <3>1, <3>2 DEF Settled
    <3>4. send'.pc \in {"stop", "retire"} => StopInHand(t)'
      BY <1>0, <3>0 DEF StopInHand, IsStop
    <3> QED BY <1>1, <1>2, <3>1, <3>2, <3>3, <3>4, BudgetSend
  <2>5. ASSUME NEW out \in PostOutcomes, stopTask(out)
        PROVE  Budget(t)'
    <3>1. StopInHand(t) /\ ~ Settled(t)
      BY <1>0, <2>1, <2>5 DEF stopTask, OneStop, Settled, NoStop
    <3>2. taskWorkerMap'[t] = taskWorkerMap[t] /\ taskWorkerMap[t] # None
      BY <1>0, <2>5 DEF stopTask, RInv, SendKnowsRoute, routing, TypeOK, SendType
    <3>3. ~ Dispatching(t)' /\ (send'.pc \in {"stop", "retire"} => StopInHand(t)')
      BY <1>0, <2>5, <3>1 DEF stopTask, Dispatching, SendIdle, StopInHand, IsStop
    <3> QED BY <1>1, <1>2, <3>1, <3>2, <3>3, BudgetSend
  <2>6. CASE retireTask
    <3>1. StopInHand(t) /\ ~ Settled(t)
      BY <1>0, <2>1, <2>6 DEF retireTask, OneStop, Settled, NoStop
    <3>2. send'.pc = "idle"
      BY <2>6 DEF retireTask, SendIdle
    <3>3. NoStop(t)' /\ stops[t] # 0
      BY <1>1, <2>1, <3>1, <3>2 DEF OneStop, NoStop, Asked, AskedBy, StopQueued, StopInHand
    <3> QED BY <1>1, <1>2, <3>1, <3>2, <3>3, BudgetSend
  <2>7. SelectWorkerFails \/ unassignTask \/ (\E w \in Workers : assignTask(w))
          \/ (\E out \in PostOutcomes : postTaskEvent(out)) => Dispatching(t)
    BY <1>0 DEF SelectWorkerFails, unassignTask, assignTask, postTaskEvent, Dispatching
  <2> QED BY <2>3, <2>4, <2>5, <2>6, <2>7
<1> QED BY <1>3, <1>4

(* The write of the copy that was dispatched.                              *)
LEMMA BudgetRecorded ==
  ASSUME NEW t \in Tasks, TypeOK, TypeOK', RInv, FreshInv, Budget(t), stops'[t] <= 1,
         Holds(t), RecordTask
  PROVE  Budget(t)'
<1> USE ManagerAssumption
<1>0. /\ send.pc = "record" /\ send.ev.task = t /\ send.ev.rec \in Rec
      /\ send' = SendIdle
      /\ taskWorkerMap'[t] = taskWorkerMap[t] /\ taskWorkerMap[t] # None
      /\ UNCHANGED <<pending, api, stops, health>>
  BY DEF RecordTask, Holds, TypeOK, SendType, Event, RInv, SendKnowsRoute, routing, client
<1>1. Dispatching(t) /\ ~ Dispatching(t)' /\ ~ Holds(t)' /\ ~ StopInHand(t)'
      /\ send'.pc \notin {"stop", "retire"}
  BY <1>0 DEF Dispatching, Holds, StopInHand, SendIdle
<1>2. CASE taskDb' = taskDb
  <2>1. taskDb[t] # None => ~ Settled(t)
    BY <1>1 DEF Settled
  <2> QED BY <1>0, <1>1, <1>2, <2>1, BudgetSend DEF SendIdle
<1>3. CASE taskDb' # taskDb
  <2>1. taskDb'[t] = send.ev.rec
    BY <1>0, <1>3 DEF RecordTask, Put, TypeOK
  <2>2. send.ev.rec.count \in Nat /\ send.ev.rec.count <= TaskRestartMax
    BY <1>0 DEF Budget, Bounded, SendBound, Holds, Rec
  <2>3. (Asked(t)' <=> Asked(t)) /\ (StopQueued(t)' <=> StopQueued(t))
        /\ (OneQueued(t)' <=> OneQueued(t)) /\ (Decided(t)' <=> Decided(t))
        /\ \A c \in Clients : AskedBy(c, t)' <=> AskedBy(c, t)
    BY <1>0 DEF Asked, AskedBy, StopQueued, OneQueued, IsStop, Decided, Restarting
  <2>4. Bounded(t, TaskRestartMax)'
    BY <1>0, <1>1 DEF Budget, Bounded, QueueBound, SendBound, ApiBound, HealthBound,
                      AskedBy, Restarting
  <2>5. CASE taskDb[t] = None
    <3>1. ~ Queued(t) /\ ~ Asked(t) /\ ~ Restarting(t) /\ ~ Decided(t)
      <4>1. ~ Queued(t)
        BY <2>5 DEF FreshInv, OnlyCopy
      <4>2. ~ Asked(t)
        BY <2>5 DEF FreshInv, Asked, AskedBy
      <4>3. ~ Restarting(t) /\ ~ Decided(t)
        BY <2>5 DEF TypeOK, HealthType, Restarting, Decided
      <4> QED BY <4>1, <4>2, <4>3
    <3>2. ~ StopQueued(t) /\ OneQueued(t)
      BY <3>1 DEF Queued, StopQueued, OneQueued, IsStop
    <3>3. OneStop(t)' /\ Spent(t)'
      BY <1>0, <1>1, <2>3, <3>1, <3>2 DEF OneStop, Spent, NoStop, Asked
    <3>4. Bounded(t, taskDb[t].count)'
      BY <1>0, <1>1, <3>1 DEF Bounded, QueueBound, SendBound, ApiBound, HealthBound,
                              Queued, Asked, AskedBy, Restarting
    <3> QED BY <1>1, <2>1, <2>2, <2>3, <2>4, <3>1, <3>3, <3>4 DEF Budget
  <2>6. CASE taskDb[t] # None
    <3>1. OneStop(t) /\ NoStop(t) /\ stops[t] # 0 /\ ~ Settled(t)
      BY <1>0, <1>1, <2>6 DEF Budget, Spent, Settled
    <3>2. taskDb[t].count \in Nat /\ send.ev.rec.count <= taskDb[t].count
      BY <1>0, <2>6, <3>1, CountTypes DEF Budget, Bounded, SendBound, Holds
    <3>3. OneStop(t)' /\ Settled(t)' /\ Spent(t)'
      BY <1>0, <1>1, <2>3, <3>1 DEF OneStop, Settled, Spent, NoStop
    <3>4. taskDb'[t].count <= TaskRestartMax
          /\ (Decided(t)' => taskDb'[t].count < TaskRestartMax)
      BY <1>0, <2>1, <2>2, <2>3, <2>6, <3>2 DEF Budget
    <3> QED BY <2>4, <3>3, <3>4 DEF Budget
  <2> QED BY <2>5, <2>6
<1> QED BY <1>2, <1>3

(* An event joins the queue: a new task, a stop, or what was requeued.     *)
LEMMA BudgetQueued ==
  ASSUME NEW t \in Tasks, NEW e \in Event, TypeOK, Budget(t), stops'[t] <= 1,
         pending' = Append(pending, e), UNCHANGED <<taskDb, stops, taskWorkerMap>>,
         send' = send \/ send'.pc = "idle",
         \A c \in Clients : api'[c] \in {api[c], None},
         Restarting(t)' => Restarting(t) /\ health'.rec = health.rec,
         Decided(t)' => Decided(t),
         e.task = t => e.rec.count <= TaskRestartMax,
         taskDb[t] # None /\ e.task = t /\ ~ Settled(t) => e.rec.count <= taskDb[t].count,
         taskDb[t] # None /\ IsStop(e, t) => Asked(t) /\ ~ Asked(t)'
  PROVE  Budget(t)'
<1>0. pending \in Seq(Event) /\ stops[t] <= 1
  BY DEF TypeOK
<1>1. /\ StopQueued(t)' <=> StopQueued(t) \/ IsStop(e, t)
      /\ OneQueued(t) /\ ~ (IsStop(e, t) /\ StopQueued(t)) => OneQueued(t)'
      /\ \A n : /\ QueueBound(t, n)
                /\ e.task = t => e.rec.count <= n
                => \A i \in 1..Len(pending') :
                     pending'[i].task = t => pending'[i].rec.count <= n
  BY <1>0, EnqueueBudget
<1>2. /\ \A c \in Clients : AskedBy(c, t)' => AskedBy(c, t) /\ api'[c] = api[c]
      /\ Asked(t)' => Asked(t)
      /\ StopInHand(t)' => StopInHand(t)
      /\ Holds(t)' => Holds(t) /\ send' = send
      /\ Dispatching(t)' => Dispatching(t)
  BY DEF AskedBy, Asked, StopInHand, IsStop, Holds, Dispatching
<1>3. \A n : Bounded(t, n) /\ (e.task = t => e.rec.count <= n) =>
        /\ \A i \in 1..Len(pending') : pending'[i].task = t => pending'[i].rec.count <= n
        /\ Holds(t)' => send'.ev.rec.count <= n
        /\ \A c \in Clients : AskedBy(c, t)' => api'[c].rec.count <= n
        /\ Restarting(t)' => health'.rec.count <= n
  BY <1>1, <1>2 DEF Bounded, SendBound, ApiBound, HealthBound
<1>4. Bounded(t, TaskRestartMax)'
  BY <1>0, <1>3 DEF Budget, Bounded, QueueBound, SendBound, ApiBound, HealthBound
<1>5. ASSUME taskDb[t] # None
      PROVE  OneStop(t)' /\ Spent(t)' /\ (~ Settled(t)' => Bounded(t, taskDb[t].count)')
  <2>1. OneStop(t) /\ Spent(t) /\ (~ Settled(t) => Bounded(t, taskDb[t].count))
    BY <1>0, <1>5 DEF Budget
  <2>2. NoStop(t) => NoStop(t)'
    BY <1>1, <1>2, <1>5 DEF NoStop
  <2>3. OneStop(t)'
    <3>1. /\ OneQueued(t)'
          /\ \A c, d \in Clients : AskedBy(c, t)' /\ AskedBy(d, t)' => c = d
          /\ Asked(t)' => ~ StopQueued(t)' /\ ~ StopInHand(t)'
          /\ StopQueued(t)' => ~ StopInHand(t)'
      BY <1>1, <1>2, <1>5, <2>1 DEF OneStop
    <3>2. ~ NoStop(t)' => stops'[t] # 0
      BY <2>1, <2>2 DEF OneStop
    <3>3. send'.pc \in {"stop", "retire"} /\ send'.ev.task = t => StopInHand(t)'
      BY <2>1 DEF OneStop, StopInHand, IsStop
    <3> QED BY <3>1, <3>2, <3>3 DEF OneStop
  <2>4. Spent(t)'
    BY <1>2, <2>1, <2>2 DEF Spent
  <2>5. Settled(t) => Settled(t)'
    BY <1>2, <2>2 DEF Settled
  <2>6. ~ Settled(t)' => Bounded(t, taskDb[t].count)'
    BY <1>3, <1>5, <2>1, <2>5 DEF Bounded, QueueBound, SendBound, ApiBound, HealthBound
  <2> QED BY <2>3, <2>4, <2>6
<1> QED BY <1>0, <1>4, <1>5 DEF Budget

(* SendWork takes an event from the queue.                                 *)
LEMMA BudgetDequeued ==
  ASSUME NEW t \in Tasks, TypeOK, Budget(t), stops'[t] <= 1, nextPendingEvent
  PROVE  Budget(t)'
<1>0. /\ pending \in Seq(Event) /\ pending # <<>> /\ pending' = Tail(pending)
      /\ send.pc = "idle" /\ send'.pc = "route" /\ send'.ev = Head(pending)
      /\ UNCHANGED <<taskDb, stops, taskWorkerMap, api, health>>
  BY DEF TypeOK, nextPendingEvent, routing, client
<1>1. /\ StopQueued(t)' => StopQueued(t)
      /\ OneQueued(t) => OneQueued(t)'
      /\ IsStop(Head(pending), t) => StopQueued(t)
      /\ OneQueued(t) /\ IsStop(Head(pending), t) => ~ StopQueued(t)'
      /\ \A n : QueueBound(t, n) =>
           /\ Head(pending).task = t => Head(pending).rec.count <= n
           /\ \A i \in 1..Len(pending') :
                pending'[i].task = t => pending'[i].rec.count <= n
  BY <1>0, DequeueBudget
<1>2. /\ \A c \in Clients : AskedBy(c, t)' <=> AskedBy(c, t)
      /\ Asked(t)' <=> Asked(t)
      /\ StopInHand(t)' <=> IsStop(Head(pending), t)
      /\ ~ StopInHand(t)
      /\ Holds(t)' => Head(pending).task = t
      /\ ~ Dispatching(t) /\ ~ Dispatching(t)'
      /\ Decided(t)' <=> Decided(t)
  BY <1>0 DEF AskedBy, Asked, StopInHand, IsStop, Holds, Dispatching, Decided, Restarting
<1>3. \A n : Bounded(t, n) =>
        /\ \A i \in 1..Len(pending') : pending'[i].task = t => pending'[i].rec.count <= n
        /\ Holds(t)' => send'.ev.rec.count <= n
        /\ \A c \in Clients : AskedBy(c, t)' => api'[c].rec.count <= n
        /\ Restarting(t)' => health'.rec.count <= n
  BY <1>0, <1>1, <1>2 DEF Bounded, ApiBound, HealthBound, Restarting
<1>4. Bounded(t, TaskRestartMax)'
  BY <1>0, <1>3 DEF Budget, Bounded, QueueBound, SendBound, ApiBound, HealthBound
<1>5. ASSUME taskDb[t] # None
      PROVE  OneStop(t)' /\ Spent(t)' /\ (~ Settled(t)' => Bounded(t, taskDb[t].count)')
  <2>1. OneStop(t) /\ Spent(t) /\ (~ Settled(t) => Bounded(t, taskDb[t].count))
    BY <1>0, <1>5 DEF Budget
  <2>2. NoStop(t) => NoStop(t)'
    BY <1>1, <1>2 DEF NoStop
  <2>3. OneStop(t)'
    BY <1>0, <1>1, <1>2, <2>1, <2>2 DEF OneStop
  <2>4. Spent(t)'
    BY <1>0, <1>2, <2>1, <2>2 DEF Spent
  <2>5. Settled(t) => Settled(t)'
    BY <1>0, <1>2, <2>2 DEF Settled
  <2>6. ~ Settled(t)' => Bounded(t, taskDb[t].count)'
    BY <1>0, <1>3, <2>1, <2>5 DEF Bounded, QueueBound, SendBound, ApiBound, HealthBound
  <2> QED BY <2>3, <2>4, <2>6
<1> QED BY <1>0, <1>2, <1>4, <1>5 DEF Budget

(* All of SendWork.                                                        *)
LEMMA BudgetSendStep ==
  ASSUME Fresh, NEW t \in Tasks, TypeOK, TypeOK', RInv, FreshInv, Budget(t),
         stops'[t] <= 1, SendStep
  PROVE  Budget(t)'
<1> USE ManagerAssumption
<1>0. /\ send \in [pc : SendPC, ev : Event \cup {None}, worker : Workers \cup {None}]
      /\ send.pc # "idle" => send.ev \in Event /\ send.ev.task \in Tasks /\ send.ev.rec \in Rec
  BY DEF TypeOK, SendType, Event
<1>1. CASE nextPendingEvent
  BY <1>1, BudgetDequeued
<1>2. CASE RequeueEvent
  <2> DEFINE e == send.ev
  <2>1. /\ e \in Event /\ pending' = Append(pending, e) /\ send'.pc = "idle"
        /\ UNCHANGED <<taskDb, stops, taskWorkerMap, api, health>>
        /\ send.pc = "requeue"
    BY <1>0, <1>2 DEF RequeueEvent, SendIdle, routing, client
  <2>2. e.task = t => Holds(t) /\ Dispatching(t)
    BY <2>1 DEF Holds, Dispatching
  <2>3. /\ e.task = t => e.rec.count <= TaskRestartMax
        /\ taskDb[t] # None /\ e.task = t /\ ~ Settled(t) => e.rec.count <= taskDb[t].count
    BY <2>1, <2>2 DEF Budget, Bounded, SendBound
  <2>4. taskDb[t] # None => ~ IsStop(e, t)
    BY <2>1, <2>2 DEF Budget, Spent, NoStop, StopInHand, IsStop
  <2>5. /\ Restarting(t)' => Restarting(t) /\ health'.rec = health.rec
        /\ Decided(t)' => Decided(t)
    BY <2>1 DEF Restarting, Decided
  <2> HIDE DEF e
  <2> QED BY <2>1, <2>3, <2>4, <2>5, BudgetQueued
<1>3. CASE RecordTask
  <2>1. send.pc = "record"
    BY <1>3 DEF RecordTask
  <2>2. CASE send.ev.task = t
    BY <1>3, <2>1, <2>2, BudgetRecorded DEF Holds
  <2>3. CASE send.ev.task # t
    <3>1. taskDb'[t] = taskDb[t]
      BY <1>0, <1>3, <2>1, <2>3 DEF RecordTask, Put, TypeOK
    <3>2. /\ UNCHANGED <<pending, api, stops, health>> /\ taskWorkerMap' = taskWorkerMap
          /\ send'.pc = "idle"
      BY <1>3 DEF RecordTask, SendIdle, routing, client
    <3> QED BY <2>1, <2>3, <3>1, <3>2, BudgetElsewhere
  <2> QED BY <2>2, <2>3
<1>4. CASE \/ RouteToStop
           \/ RouteToNowhere
           \/ RouteToWorker
           \/ SelectWorkerFails
           \/ \E w \in Workers : assignTask(w)
           \/ \E out \in PostOutcomes : postTaskEvent(out)
           \/ unassignTask
           \/ \E out \in PostOutcomes : stopTask(out)
           \/ retireTask
  <2>1. send.pc # "idle"
    BY <1>4 DEF RouteToStop, RouteToNowhere, RouteToWorker, SelectWorkerFails, assignTask,
                postTaskEvent, unassignTask, stopTask, retireTask
  <2>2. CASE send.ev.task = t
    BY <1>4, <2>1, <2>2, BudgetRouted DEF Holds
  <2>3. CASE send.ev.task # t
    <3>1. UNCHANGED <<pending, api, stops, health>>
      BY <1>4 DEF RouteToStop, RouteToNowhere, RouteToWorker, SelectWorkerFails, assignTask,
                  postTaskEvent, unassignTask, stopTask, retireTask, client
    <3>2. send'.pc = "idle" \/ send'.ev = send.ev
      <4>1. ASSUME NEW out \in PostOutcomes, postTaskEvent(out)
            PROVE  send'.pc = "idle" \/ send'.ev = send.ev
        <5>1. \/ send' = SendIdle
              \/ send' = [send EXCEPT !.pc = "record"]
              \/ send' = [send EXCEPT !.pc = "unassign"]
          BY <4>1 DEF postTaskEvent, Outcome
        <5> QED BY <1>0, <5>1 DEF SendIdle
      <4>2. ASSUME NEW out \in PostOutcomes, stopTask(out)
            PROVE  send'.pc = "idle" \/ send'.ev = send.ev
        BY <1>0, <4>2 DEF stopTask, SendIdle
      <4>3. CASE RouteToStop \/ RouteToWorker \/ unassignTask
                 \/ \E w \in Workers : assignTask(w)
        BY <1>0, <4>3 DEF RouteToStop, RouteToWorker, unassignTask, assignTask
      <4>4. CASE RouteToNowhere \/ SelectWorkerFails \/ retireTask
        BY <4>4 DEF RouteToNowhere, SelectWorkerFails, retireTask, SendIdle
      <4> QED BY <1>4, <4>1, <4>2, <4>3, <4>4
    <3>3. taskWorkerMap'[t] = taskWorkerMap[t]
      BY <1>0, <1>4, <2>1, <2>3
      DEF RouteToStop, RouteToNowhere, RouteToWorker, SelectWorkerFails, assignTask,
          postTaskEvent, unassignTask, stopTask, retireTask, routing, TypeOK
    <3>4. taskDb'[t] = taskDb[t]
      BY <1>0, <1>4, <2>1, <2>3
      DEF RouteToStop, RouteToNowhere, RouteToWorker, SelectWorkerFails, assignTask,
          postTaskEvent, unassignTask, stopTask, retireTask, Rewrite, TypeOK
    <3> QED BY <2>1, <2>3, <3>1, <3>2, <3>3, <3>4, BudgetElsewhere
  <2> QED BY <2>2, <2>3
<1> QED BY <1>1, <1>2, <1>3, <1>4 DEF SendStep

(* The handlers of the API.                                                *)
LEMMA BudgetApiStep ==
  ASSUME Fresh, NEW t \in Tasks, TypeOK, TypeOK', Submitted, Budget(t), stops'[t] <= 1,
         ApiStep
  PROVE  Budget(t)'
<1> USE ManagerAssumption
<1>1. ASSUME NEW u \in Tasks, NEW s \in SubmitStates, StartTaskHandler(u, s)
      PROVE  Budget(t)'
  <2> DEFINE e == [task |-> u, rec |-> [state |-> s, count |-> 0, cid |-> None]]
  <2>1. e \in Event /\ e.task = u /\ e.rec.count = 0
    BY DEF Event, Rec
  <2>2. /\ pending' = Append(pending, e)
        /\ UNCHANGED <<taskDb, stops, taskWorkerMap, send, api, health>>
    BY <1>1 DEF StartTaskHandler, routing
  <2>3. taskDb[t] # None => u # t
    <3>1. submits[u] \in Nat /\ submits[u] < MaxSubmits
      BY <1>1 DEF StartTaskHandler, TypeOK
    <3>2. submits[u] = 0
      BY <3>1 DEF Fresh
    <3> QED BY <3>2 DEF Submitted
  <2>4. /\ Restarting(t)' => Restarting(t) /\ health'.rec = health.rec
        /\ Decided(t)' => Decided(t)
    BY <2>2 DEF Restarting, Decided
  <2>5. 0 <= TaskRestartMax
    OBVIOUS
  <2> HIDE DEF e
  <2> QED BY <2>1, <2>2, <2>3, <2>4, <2>5, BudgetQueued DEF IsStop
<1>2. ASSUME NEW c \in Clients, StopEnqueue(c)
      PROVE  Budget(t)'
  <2> DEFINE e == api[c]
  <2>1. /\ e \in Event /\ pending' = Append(pending, e)
        /\ api' = [api EXCEPT ![c] = None]
        /\ UNCHANGED <<taskDb, stops, taskWorkerMap, send, health>>
        /\ e.task = t => AskedBy(c, t)
    BY <1>2 DEF StopEnqueue, TypeOK, AskedBy, routing
  <2>2. /\ \A d \in Clients : api'[d] \in {api[d], None}
        /\ \A d \in Clients : AskedBy(d, t)' => AskedBy(d, t) /\ d # c
    BY <2>1 DEF TypeOK, AskedBy
  <2>3. /\ e.task = t => e.rec.count <= TaskRestartMax
        /\ taskDb[t] # None /\ e.task = t /\ ~ Settled(t) => e.rec.count <= taskDb[t].count
    BY <2>1 DEF Budget, Bounded, ApiBound
  <2>4. taskDb[t] # None /\ IsStop(e, t) => Asked(t) /\ ~ Asked(t)'
    <3>1. taskDb[t] # None => \A d \in Clients : AskedBy(c, t) /\ AskedBy(d, t) => c = d
      BY <2>1 DEF Budget, OneStop
    <3> QED BY <2>1, <2>2, <3>1 DEF Asked, IsStop
  <2>5. /\ Restarting(t)' => Restarting(t) /\ health'.rec = health.rec
        /\ Decided(t)' => Decided(t)
    BY <2>1 DEF Restarting, Decided
  <2> HIDE DEF e
  <2> QED BY <2>1, <2>2, <2>3, <2>4, <2>5, BudgetQueued
<1>3. ASSUME NEW c \in Clients, NEW u \in Tasks, StopLookup(c, u)
      PROVE  Budget(t)'
  <2> DEFINE e == [task |-> u, rec |-> WithState(taskDb[u], Completed)]
  <2>0. /\ api[c] = None /\ api' = [api EXCEPT ![c] = e] /\ taskDb[u] # None
        /\ stops' = [stops EXCEPT ![u] = stops[u] + 1]
        /\ UNCHANGED <<pending, taskDb, taskWorkerMap, send, health>>
    BY <1>3 DEF StopLookup, routing
  <2>1. taskDb[u] \in Rec /\ e \in Event /\ e.task = u /\ e.rec.count = taskDb[u].count
    <3>1. taskDb[u] \in Rec
      BY <2>0 DEF TypeOK
    <3>2. WithState(taskDb[u], Completed) \in Rec
          /\ WithState(taskDb[u], Completed).count = taskDb[u].count
      BY <3>1, EditType DEF WithState, Rec
    <3> QED BY <3>1, <3>2 DEF Event
  <2>2. /\ (OneQueued(t)' <=> OneQueued(t)) /\ (StopQueued(t)' <=> StopQueued(t))
        /\ (StopInHand(t)' <=> StopInHand(t)) /\ (Holds(t)' <=> Holds(t))
        /\ (Dispatching(t)' <=> Dispatching(t))
        /\ (Decided(t)' <=> Decided(t)) /\ (Restarting(t)' <=> Restarting(t))
    BY <2>0 DEF OneQueued, StopQueued, StopInHand, IsStop, Holds, Dispatching, Decided,
                Restarting
  <2>3. \A d \in Clients : AskedBy(d, t)' <=> AskedBy(d, t) \/ (d = c /\ u = t)
    <3> HIDE DEF e
    <3> QED BY <2>0, <2>1 DEF AskedBy, TypeOK
  <2>4. \A d \in Clients : AskedBy(d, t) => api'[d] = api[d]
    BY <2>0 DEF AskedBy, TypeOK
  <2>5. api'[c] = e
    BY <2>0 DEF TypeOK
  <2> HIDE DEF e
  <2>6. CASE u # t
    <3>1. stops'[t] = stops[t]
      BY <2>0, <2>6 DEF TypeOK
    <3>2. Asked(t)' <=> Asked(t)
      BY <2>3, <2>6 DEF Asked
    <3>3. (NoStop(t)' <=> NoStop(t))
      BY <2>2, <3>2 DEF NoStop
    <3>4. (Spent(t)' <=> Spent(t)) /\ (Settled(t)' <=> Settled(t))
      BY <2>0, <2>2, <3>1, <3>3 DEF Spent, Settled
    <3>5. OneStop(t)' <=> OneStop(t)
      BY <2>0, <2>2, <2>3, <2>6, <3>1, <3>2, <3>3 DEF OneStop
    <3>6. \A n : Bounded(t, n) =>
            /\ \A i \in 1..Len(pending') : pending'[i].task = t => pending'[i].rec.count <= n
            /\ Holds(t)' => send'.ev.rec.count <= n
            /\ \A d \in Clients : AskedBy(d, t)' => api'[d].rec.count <= n
            /\ Restarting(t)' => health'.rec.count <= n
      BY <2>0, <2>2, <2>3, <2>4, <2>6 DEF Bounded, QueueBound, SendBound, ApiBound, HealthBound
    <3>7. Bounded(t, TaskRestartMax)'
      BY <3>1, <3>6 DEF Budget, Bounded, QueueBound, SendBound, ApiBound, HealthBound
    <3>8. taskDb[t] # None /\ ~ Settled(t) => Bounded(t, taskDb[t].count)'
      BY <2>0, <3>1, <3>6 DEF Budget, Bounded, QueueBound, SendBound, ApiBound, HealthBound
    <3> QED BY <2>0, <2>2, <3>1, <3>4, <3>5, <3>7, <3>8 DEF Budget
  <2>7. CASE u = t
    <3>1. stops[t] = 0 /\ stops'[t] = 1
      <4>1. stops[t] \in Nat /\ stops'[t] = stops[t] + 1
        BY <2>0, <2>7 DEF TypeOK
      <4> QED BY <4>1
    <3>2. taskDb[t] # None /\ OneStop(t) /\ Spent(t) /\ ~ Settled(t)
      BY <2>0, <2>7, <3>1 DEF Budget, Settled
    <3>3. NoStop(t) /\ taskWorkerMap[t] # None /\ ~ Dispatching(t)
      BY <3>1, <3>2 DEF OneStop, Spent
    <3>4. /\ Bounded(t, taskDb[t].count)
          /\ Bounded(t, TaskRestartMax)
          /\ taskDb[t].count <= TaskRestartMax
          /\ Decided(t) => taskDb[t].count < TaskRestartMax
      BY <3>1, <3>2 DEF Budget
    <3>5. \A d \in Clients : AskedBy(d, t)' <=> d = c
      BY <2>3, <2>7, <3>3 DEF NoStop, Asked
    <3>6. OneStop(t)'
      BY <2>0, <2>2, <3>1, <3>2, <3>3, <3>5 DEF OneStop, NoStop, Asked
    <3>7. Spent(t)'
      BY <2>0, <2>2, <3>3 DEF Spent
    <3>8. taskDb[t].count \in Nat
      BY <3>2, CountTypes
    <3>9. (ApiBound(t, TaskRestartMax) /\ ApiBound(t, taskDb[t].count))'
      BY <2>0, <2>1, <2>5, <2>7, <3>4, <3>5, <3>8 DEF ApiBound
    <3>10. (Bounded(t, TaskRestartMax) /\ Bounded(t, taskDb[t].count))'
      BY <2>0, <2>2, <3>4, <3>9 DEF Bounded, QueueBound, SendBound, HealthBound
    <3> QED BY <2>0, <2>2, <3>4, <3>6, <3>7, <3>10 DEF Budget
  <2> QED BY <2>6, <2>7
<1> QED BY <1>1, <1>2, <1>3 DEF ApiStep

(* A report, however it is merged, leaves the count to the manager.        *)
LEMMA BudgetUpdateStep ==
  ASSUME NEW t \in Tasks, TypeOK, TypeOK', Budget(t), stops'[t] <= 1,
         UpdateStep \/ UNCHANGED vars
  PROVE  Budget(t)'
<1> USE ManagerAssumption
<1>1. UNCHANGED <<pending, send, api, stops, taskWorkerMap, health>>
  BY DEF UpdateStep, UpdateTick, UpdateGet, UpdateFails, applyWorkerReport, vars, routing,
         client
<1>2. /\ taskDb[t] = None <=> taskDb'[t] = None
      /\ taskDb[t] # None => taskDb'[t].count = taskDb[t].count
  <2>1. CASE taskDb' = taskDb
    BY <2>1
  <2>2. ASSUME NEW w \in Workers, NEW r \in up[w].reports, applyWorkerReport(w, r),
               taskDb' # taskDb
        PROVE  /\ taskDb[t] = None <=> taskDb'[t] = None
               /\ taskDb[t] # None => taskDb'[t].count = taskDb[t].count
    <3> DEFINE rec == mergeTaskUpdate(taskDb[r.task], r)
    <3>1. r \in Report /\ r.task \in Tasks
      BY DEF TypeOK, Report
    <3>2. taskDb[r.task] # None /\ taskDb' = [taskDb EXCEPT ![r.task] = rec]
      BY <2>2 DEF applyWorkerReport, Rewrite
    <3>3. taskDb[r.task] \in Rec
      BY <3>1, <3>2 DEF TypeOK
    <3>4. rec \in Rec /\ rec.count = taskDb[r.task].count
      BY <3>1, <3>3, MergeType DEF mergeTaskUpdate, Rec
    <3> HIDE DEF rec
    <3> QED BY <3>1, <3>2, <3>4 DEF TypeOK
  <2> QED BY <2>1, <2>2 DEF UpdateStep, UpdateTick, UpdateGet, UpdateFails, vars
<1>3. taskDb[t] # None => taskDb[t].count \in Nat
  BY CountTypes
<1>4. /\ Decided(t)' <=> Decided(t)
      /\ Restarting(t)' => Restarting(t) /\ health'.rec = health.rec
  BY <1>1 DEF Decided, Restarting
<1> QED BY <1>1, <1>2, <1>3, <1>4, BudgetQuiet DEF Budget

(* What is left of a health pass once it is done with u.                   *)
LEMMA AfterBudget ==
  ASSUME NEW t \in Tasks, NEW u \in Tasks, TypeOK, health' = HealthAfter(u)
  PROVE  /\ ~ Restarting(t)'
         /\ Decided(t)' => t # u /\ health.todo[t] # "skip"
<1>1. health.todo \in [Tasks -> HealthAction]
  BY DEF TypeOK, HealthType
<1>2. CASE health' = HealthIdle
  BY <1>2 DEF HealthIdle, Restarting, Decided
<1>3. CASE health' = [HealthIdle EXCEPT !.pc = "scan",
                                        !.todo = [health.todo EXCEPT ![u] = "skip"]]
  BY <1>1, <1>3 DEF HealthIdle, Restarting, Decided
<1> QED BY <1>2, <1>3 DEF HealthAfter

(* A health pass: a restart is begun only for a task with some budget left.*)
LEMMA BudgetHealthStep ==
  ASSUME NEW t \in Tasks, TypeOK, TypeOK', PassKnows, Budget(t), stops'[t] <= 1, HealthStep
  PROVE  Budget(t)'
<1> USE ManagerAssumption
<1>0. /\ UNCHANGED <<send, api, stops, taskWorkerMap>>
      /\ RequeueRestart \/ UNCHANGED pending
      /\ beginRestart \/ UNCHANGED taskDb
  BY DEF HealthStep, HealthSnapshot, checkTaskHealth, RestartRoute, beginRestart,
         PostRestart, RequeueRestart, routing, client
<1>1. taskDb[t] # None => taskDb[t].count \in Nat
  BY CountTypes
<1>2. health \in [pc : HealthPC, todo : [Tasks -> HealthAction],
                  task : Tasks \cup {None}, worker : Workers \cup {None},
                  rec : Rec \cup {None}]
  BY DEF TypeOK, HealthType
<1>3. ASSUME UNCHANGED <<pending, taskDb>>,
             Decided(t)' => Decided(t) \/ (taskDb[t] # None => taskDb[t].count < TaskRestartMax),
             Restarting(t)' => Restarting(t) /\ health'.rec = health.rec
      PROVE  Budget(t)'
  BY <1>0, <1>1, <1>3, BudgetQuiet DEF Budget
<1>4. ASSUME NEW u \in Tasks, health' = HealthAfter(u), UNCHANGED <<pending, taskDb>>,
             Restarting(t) => u = t
      PROVE  Budget(t)'
  BY <1>3, <1>4, AfterBudget DEF Decided
<1>5. CASE HealthSnapshot
  <2>1. UNCHANGED <<pending, taskDb>> /\ health'.pc = "scan"
    BY <1>2, <1>5 DEF HealthSnapshot
  <2>2. Decided(t)' => (taskDb[t] # None => taskDb[t].count < TaskRestartMax)
    <3>1. taskDb[t] # None => health'.todo[t] = decideHealthAction(taskDb[t])
      BY <1>2, <1>5 DEF HealthSnapshot
    <3>2. taskDb[t] # None => taskDb[t] \in Rec
      BY DEF TypeOK
    <3>3. taskDb[t] # None /\ taskDb[t].count >= TaskRestartMax
            => decideHealthAction(taskDb[t]) = "skip"
      BY <1>1, <3>2 DEF decideHealthAction, Rec, State
    <3> QED BY <1>1, <3>1, <3>3 DEF Decided
  <2> QED BY <1>3, <2>1, <2>2 DEF Restarting
<1>6. ASSUME NEW u \in Tasks, NEW healthy \in BOOLEAN, checkTaskHealth(u, healthy)
      PROVE  Budget(t)'
  <2>1. UNCHANGED <<pending, taskDb>> /\ health.pc = "scan" /\ ~ Restarting(t)
    BY <1>6 DEF checkTaskHealth, Restarting
  <2>2. CASE healthy
    BY <1>4, <1>6, <2>1, <2>2 DEF checkTaskHealth
  <2>3. CASE ~ healthy
    <3>1. health'.pc = "restart" /\ health'.todo = health.todo
      BY <1>2, <1>6, <2>3 DEF checkTaskHealth
    <3> QED BY <1>3, <2>1, <3>1 DEF Decided, Restarting
  <2> QED BY <2>2, <2>3
<1>7. ASSUME NEW u \in Tasks, RestartRoute(u)
      PROVE  Budget(t)'
  <2>1. UNCHANGED <<pending, taskDb>> /\ ~ Restarting(t)
    BY <1>7 DEF RestartRoute, Restarting
  <2>2. CASE taskWorkerMap[u] = None
    BY <1>4, <1>7, <2>1, <2>2 DEF RestartRoute
  <2>3. CASE taskWorkerMap[u] # None
    <3>1. health'.pc = "begin" /\ health'.todo = health.todo
      BY <1>2, <1>7, <2>3 DEF RestartRoute
    <3> QED BY <1>3, <2>1, <3>1 DEF Decided, Restarting
  <2> QED BY <2>2, <2>3
<1>8. CASE beginRestart
  <2>1. /\ health.pc = "begin" /\ health.task \in Tasks /\ taskDb[health.task] # None
        /\ taskDb[health.task] \in Rec
        /\ UNCHANGED pending
    BY <1>8 DEF beginRestart, TypeOK, HealthType
  <2>2. CASE taskDb' = taskDb /\ health' = HealthAfter(health.task)
    BY <1>4, <2>1, <2>2 DEF Restarting
  <2>3. CASE /\ taskDb' = [taskDb EXCEPT ![health.task] = Restarted(taskDb[health.task])]
             /\ health' = [health EXCEPT !.pc = "post", !.rec = Restarted(taskDb[health.task])]
    <3>1. /\ Restarted(taskDb[health.task]) \in Rec
          /\ Restarted(taskDb[health.task]).count = taskDb[health.task].count + 1
      BY <2>1, EditType DEF Restarted
    <3>2. health'.pc = "post" /\ health'.task = health.task /\ health'.todo = health.todo
          /\ health'.rec = Restarted(taskDb[health.task])
      BY <1>2, <2>3
    <3>3. CASE health.task = t
      <4>1. taskDb[t].count < TaskRestartMax
        BY <1>0, <2>1, <3>3 DEF PassKnows, Budget, Decided, Restarting
      <4>2. taskDb'[t] = Restarted(taskDb[t]) /\ ~ Decided(t)'
        BY <2>1, <2>3, <3>2, <3>3 DEF TypeOK, Decided, Restarting
      <4>3. taskDb'[t] # None /\ taskDb'[t].count = taskDb[t].count + 1
            /\ health'.rec.count = taskDb'[t].count
        BY <3>1, <3>2, <3>3, <4>2
      <4> QED BY <1>0, <1>1, <2>1, <3>3, <4>1, <4>2, <4>3, BudgetQuiet
    <3>4. CASE health.task # t
      <4>1. taskDb'[t] = taskDb[t]
        BY <2>1, <2>3, <3>4 DEF TypeOK
      <4>2. (Decided(t)' => Decided(t)) /\ ~ Restarting(t)'
        BY <2>1, <3>2, <3>4 DEF Decided, Restarting
      <4> QED BY <1>0, <1>1, <2>1, <4>1, <4>2, BudgetQuiet DEF Budget
    <3> QED BY <3>3, <3>4
  <2> QED BY <1>8, <2>2, <2>3 DEF beginRestart
<1>9. ASSUME NEW out \in PostOutcomes, PostRestart(out)
      PROVE  Budget(t)'
  <2>1. health.pc = "post" /\ health.task \in Tasks /\ UNCHANGED <<pending, taskDb>>
    BY <1>9 DEF PostRestart, TypeOK, HealthType
  <2>2. CASE out = "unreachable"
    <3>1. health' = [health EXCEPT !.pc = "requeue"]
      BY <1>9, <2>2 DEF PostRestart
    <3>2. /\ Restarting(t)' => Restarting(t) /\ health'.rec = health.rec
          /\ Decided(t)' => Decided(t)
      BY <1>2, <2>1, <3>1 DEF Restarting, Decided
    <3> QED BY <1>3, <2>1, <3>2
  <2>3. CASE out # "unreachable"
    BY <1>4, <1>9, <2>1, <2>3 DEF PostRestart, Restarting
  <2> QED BY <2>2, <2>3
<1>10. CASE RequeueRestart
  <2> DEFINE e == [task |-> health.task, rec |-> health.rec]
  <2>1. /\ health.pc = "requeue" /\ health.task \in Tasks /\ health.rec \in Rec
        /\ pending' = Append(pending, e) /\ UNCHANGED taskDb
        /\ health' = HealthAfter(health.task)
    BY <1>10 DEF RequeueRestart, TypeOK, HealthType
  <2>2. e \in Event /\ (e.task = t => Restarting(t)) /\ e.rec = health.rec
    BY <2>1 DEF Event, Restarting
  <2>3. /\ ~ Restarting(t)'
        /\ Decided(t)' => Decided(t)
    BY <2>1, AfterBudget DEF Decided, Restarting
  <2>4. /\ e.task = t => e.rec.count <= TaskRestartMax
        /\ taskDb[t] # None /\ e.task = t /\ ~ Settled(t) => e.rec.count <= taskDb[t].count
    BY <1>0, <2>2 DEF Budget, Bounded, HealthBound
  <2>5. ~ IsStop(e, t)
    BY <2>1, <2>2 DEF PassKnows, IsStop, Scheduled, Completed
  <2> HIDE DEF e
  <2> QED BY <1>0, <2>1, <2>2, <2>3, <2>4, <2>5, BudgetQueued
<1> QED BY <1>5, <1>6, <1>7, <1>8, <1>9, <1>10 DEF HealthStep

(* The health pass keeps its list while it is at work on a task of it.     *)
LEMMA PassKnowsKept ==
  ASSUME TypeOK, PassKnows, [Next]_vars
  PROVE  PassKnows'
<1>1. CASE UNCHANGED health
  BY <1>1 DEF PassKnows
<1>2. health \in [pc : HealthPC, todo : [Tasks -> HealthAction],
                  task : Tasks \cup {None}, worker : Workers \cup {None},
                  rec : Rec \cup {None}]
  BY DEF TypeOK, HealthType
<1>3. \A t \in Tasks : HealthAfter(t).pc \in {"idle", "scan"}
  BY DEF HealthAfter, HealthIdle
<1>4. CASE HealthSnapshot
  BY <1>2, <1>4 DEF HealthSnapshot, PassKnows
<1>5. ASSUME NEW t \in Tasks, NEW healthy \in BOOLEAN, checkTaskHealth(t, healthy)
      PROVE  PassKnows'
  BY <1>2, <1>3, <1>5 DEF checkTaskHealth, PassKnows
<1>6. ASSUME NEW t \in Tasks, RestartRoute(t)
      PROVE  PassKnows'
  <2>1. health.todo[t] # "skip"
    BY <1>6 DEF RestartRoute, PassKnows
  <2> QED BY <1>2, <1>3, <1>6, <2>1 DEF RestartRoute, PassKnows
<1>7. CASE beginRestart
  <2>1. health.task \in Tasks
    BY <1>7 DEF beginRestart, TypeOK, HealthType
  <2>2. CASE health' = HealthAfter(health.task)
    BY <1>3, <2>1, <2>2 DEF PassKnows
  <2>3. CASE health' = [health EXCEPT !.pc = "post",
                                      !.rec = Restarted(taskDb[health.task])]
    <3>1. health'.pc = "post" /\ health'.rec = Restarted(taskDb[health.task])
      BY <1>2, <2>3
    <3>2. health'.rec.state = Scheduled
      BY <3>1 DEF Restarted
    <3> QED BY <3>1, <3>2 DEF PassKnows
  <2> QED BY <1>7, <2>2, <2>3 DEF beginRestart
<1>8. ASSUME NEW out \in PostOutcomes, PostRestart(out)
      PROVE  PassKnows'
  <2>1. health.task \in Tasks
    BY <1>8 DEF PostRestart, TypeOK, HealthType
  <2> QED BY <1>2, <1>3, <1>8, <2>1 DEF PostRestart, PassKnows
<1>9. CASE RequeueRestart
  <2>1. health.task \in Tasks
    BY <1>9 DEF RequeueRestart, TypeOK, HealthType
  <2> QED BY <1>3, <1>9, <2>1 DEF RequeueRestart, PassKnows
<1> QED
  BY <1>1, <1>4, <1>5, <1>6, <1>7, <1>8, <1>9
  DEF Next, HealthStep, ApiStep, StartTaskHandler, StopLookup, StopEnqueue,
      SendStep, nextPendingEvent, RouteToStop, RouteToNowhere, RouteToWorker,
      SelectWorkerFails, assignTask, postTaskEvent, unassignTask, RequeueEvent, RecordTask,
      stopTask, retireTask, UpdateStep, UpdateTick, UpdateGet, UpdateFails,
      applyWorkerReport, vars

(* Only what was submitted is ever stored.                                 *)
LEMMA SubmittedKept ==
  ASSUME TypeOK, TypeOK', FreshInv, Submitted, [Next]_vars
  PROVE  Submitted'
<1> USE ManagerAssumption
<1>1. \A t \in Tasks : submits[t] # 0 => submits'[t] # 0
  <2>1. ASSUME NEW u \in Tasks, NEW s \in SubmitStates, StartTaskHandler(u, s)
        PROVE  \A t \in Tasks : submits[t] # 0 => submits'[t] # 0
    <3>1. submits \in [Tasks -> Nat] /\ submits' = [submits EXCEPT ![u] = submits[u] + 1]
      BY <2>1 DEF StartTaskHandler, TypeOK
    <3> QED BY <3>1
  <2>2. CASE UNCHANGED submits
    BY <2>2
  <2> QED
    BY <2>1, <2>2
    DEF Next, HealthStep, HealthSnapshot, checkTaskHealth, RestartRoute, beginRestart,
        PostRestart, RequeueRestart, ApiStep, StopLookup, StopEnqueue, client,
        SendStep, nextPendingEvent, RouteToStop, RouteToNowhere, RouteToWorker,
        SelectWorkerFails, assignTask, postTaskEvent, unassignTask, RequeueEvent, RecordTask,
        stopTask, retireTask, UpdateStep, UpdateTick, UpdateGet, UpdateFails,
        applyWorkerReport, vars
<1>2. \A t \in Tasks : taskDb'[t] # None => taskDb[t] # None \/ Holds(t)
  <2>1. CASE RecordTask
    BY <2>1 DEF RecordTask, Put, TypeOK, Holds
  <2>2. CASE retireTask
    BY <2>2 DEF retireTask, Rewrite, TypeOK, Holds
  <2>3. CASE beginRestart
    <3>1. /\ health.task \in Tasks /\ taskDb[health.task] # None
          /\ taskDb \in [Tasks -> Rec \cup {None}]
      BY <2>3 DEF beginRestart, TypeOK, HealthType
    <3>2. \/ taskDb' = taskDb
          \/ taskDb' = [taskDb EXCEPT ![health.task] = Restarted(taskDb[health.task])]
      BY <2>3 DEF beginRestart
    <3> QED BY <3>1, <3>2
  <2>4. ASSUME NEW w \in Workers, NEW r \in up[w].reports, applyWorkerReport(w, r)
        PROVE  \A t \in Tasks : taskDb'[t] # None => taskDb[t] # None
    BY <2>4 DEF applyWorkerReport, Rewrite, TypeOK
  <2>5. CASE UNCHANGED taskDb
    BY <2>5
  <2> QED
    BY <2>1, <2>2, <2>3, <2>4, <2>5
    DEF Next, HealthStep, HealthSnapshot, checkTaskHealth, RestartRoute,
        PostRestart, RequeueRestart, ApiStep, StartTaskHandler, StopLookup, StopEnqueue,
        SendStep, nextPendingEvent, RouteToStop, RouteToNowhere, RouteToWorker,
        SelectWorkerFails, assignTask, postTaskEvent, unassignTask, RequeueEvent,
        stopTask, UpdateStep, UpdateTick, UpdateGet, UpdateFails, vars
<1>3. \A t \in Tasks : taskDb[t] = None /\ Holds(t) => submits[t] # 0
  BY DEF FreshInv, OnlyCopy
<1> QED BY <1>1, <1>2, <1>3 DEF Submitted

(* The invariant the budget is part of is inductive.                       *)
MInv == RInv /\ FreshInv /\ BudgetInv

LEMMA BudgetInvariant ==
  ASSUME Fresh
  PROVE  Spec => [](TypeOK /\ MInv)
<1> USE ManagerAssumption
<1>1. Init => MInv
  <2>1. Init => BudgetInv
    BY DEF Init, BudgetInv, PassKnows, Submitted, Budget, Bounded, QueueBound, SendBound,
           ApiBound, HealthBound, Holds, AskedBy, Restarting, SendIdle, HealthIdle
  <2>2. Init => FreshInv
    BY DEF Init, FreshInv, OnlyCopy, Alone, Queued, Holds, SendIdle
  <2> QED BY <2>1, <2>2, InitRouting DEF MInv
<1>2. TypeOK /\ TypeOK' /\ MInv /\ [Next]_vars => MInv'
  <2> SUFFICES ASSUME TypeOK, TypeOK', MInv, [Next]_vars
               PROVE  MInv'
    OBVIOUS
  <2> USE DEF MInv
  <2>1. RouteClear
    BY DEF Fresh, FreshInv, OnlyCopy, Holds, RouteClear, TypeOK, SendType, Event
  <2>2. RInv' /\ FreshInv'
    BY <2>1, FreshStep, RoutingStep
  <2>3. PassKnows' /\ Submitted'
    BY PassKnowsKept, SubmittedKept DEF BudgetInv
  <2>4. ASSUME NEW t \in Tasks
        PROVE  Budget(t)'
    <3>1. CASE stops'[t] <= 1
      <4>1. Budget(t) /\ PassKnows /\ Submitted
        BY DEF BudgetInv
      <4> QED BY <3>1, <4>1, BudgetApiStep, BudgetSendStep, BudgetHealthStep,
                 BudgetUpdateStep DEF Next
    <3>2. CASE ~ (stops'[t] <= 1)
      BY <3>2 DEF Budget
    <3> QED BY <3>1, <3>2
  <2> QED BY <2>2, <2>3, <2>4 DEF BudgetInv
<1> QED BY <1>1, <1>2, TypeCorrect, PTL DEF Spec

(* No task that was stopped once at most is restarted more than            *)
(* TaskRestartMax times, for any number of tasks, workers and requests,    *)
(* whatever the polls return and however often a restart or a dispatch is  *)
(* requeued: the decision on the snapshot is still good when beginRestart  *)
(* acts on it. Task ids are submitted once, and reads of the store succeed.*)
THEOREM BudgetKept ==
  ASSUME Fresh
  PROVE  Spec => []RestartBudget
<1>1. MInv => RestartBudget
  BY DEF MInv, BudgetInv, Budget, RestartBudget
<1> QED BY <1>1, BudgetInvariant, PTL

-----------------------------------------------------------------------------
(***************************************************************************)
(* Where a task nobody has asked to stop is routed. Its route changes only *)
(* while it waits for its first dispatch; after that a restart knows it.   *)
(***************************************************************************)
Waiting(t) ==
  /\ taskDb[t] = None
  /\ submits[t] = 0 \/ Queued(t) \/ (Holds(t) /\ send.pc # "record")

Stopping(t) == send.pc \in {"stop", "retire"} /\ send.ev.task = t

RestartKnowsRoute(t) ==
  health.pc \in {"begin", "post"} /\ health.task = t => health.worker = taskWorkerMap[t]

Steady == \A t \in Tasks : stops[t] = 0 => ~ Stopping(t) /\ RestartKnowsRoute(t)

(* SendWork holds such a task for dispatch only while it waits.            *)
LEMMA DispatchWaits ==
  ASSUME NEW t \in Tasks, TypeOK, MInv, stops[t] = 0, Dispatching(t)
  PROVE  /\ taskDb[t] = None
         /\ ~ Queued(t) /\ submits[t] # 0
         /\ send.pc # "record" => Waiting(t)
         /\ send.pc = "post" => taskWorkerMap[t] = send.worker
<1>1. Budget(t) /\ OnlyCopy(t) /\ SendKnowsRoute
  BY DEF MInv, BudgetInv, FreshInv, RInv
<1>2. taskDb[t] = None
  BY <1>1 DEF Budget, Spent
<1>3. Holds(t)
  BY DEF Dispatching, Holds
<1> QED BY <1>1, <1>2, <1>3 DEF OnlyCopy, Waiting, SendKnowsRoute, Dispatching

(* And once TaskDb has it, SendWork finds it assigned and stops it for     *)
(* nobody.                                                                 *)
LEMMA NobodyStops ==
  ASSUME NEW t \in Tasks, TypeOK, MInv, stops[t] = 0, RouteToStop
  PROVE  send.ev.task # t
<1> SUFFICES ASSUME send.ev.task = t
             PROVE  FALSE
  OBVIOUS
<1>1. Budget(t) /\ taskDb[t] # None
  BY DEF MInv, BudgetInv, RouteToStop, Assigned
<1>2. OneStop(t)
  BY <1>1 DEF Budget
<1>3. StopInHand(t)
  BY DEF RouteToStop, StopIsValid, StopInHand, IsStop
<1> QED BY <1>2, <1>3 DEF OneStop, NoStop

(* Nobody comes to wait who did not, and only then does a route change.    *)
LEMMA RouteStays ==
  ASSUME NEW t \in Tasks, Fresh, TypeOK, MInv, Steady, [Next]_vars, stops'[t] = 0
  PROVE  /\ stops[t] = 0
         /\ Waiting(t)' => Waiting(t)
         /\ taskWorkerMap'[t] # taskWorkerMap[t] => Waiting(t)
         /\ ~ Stopping(t)'
<1> USE ManagerAssumption
<1>0. /\ OnlyCopy(t)
      /\ taskDb[t] # None => taskDb'[t] # None
      /\ send.pc # "idle" => send.ev \in Event /\ send.ev.task \in Tasks
      /\ pending \in Seq(Event)
      /\ taskWorkerMap \in [Tasks -> Workers \cup {None}]
      /\ send \in [pc : SendPC, ev : Event \cup {None}, worker : Workers \cup {None}]
  BY StoreGrows DEF MInv, FreshInv, TypeOK, SendType, Event
<1>1. stops[t] = 0
  <2>1. ASSUME NEW c \in Clients, NEW u \in Tasks, StopLookup(c, u)
        PROVE  stops[t] = 0
    <3>1. stops \in [Tasks -> Nat] /\ stops' = [stops EXCEPT ![u] = stops[u] + 1]
      BY <2>1 DEF StopLookup, TypeOK
    <3> QED BY <3>1
  <2>2. CASE UNCHANGED stops
    BY <2>2
  <2> QED
    BY <2>1, <2>2
    DEF Next, HealthStep, HealthSnapshot, checkTaskHealth, RestartRoute, beginRestart,
        PostRestart, RequeueRestart, ApiStep, StartTaskHandler, StopEnqueue, client,
        SendStep, nextPendingEvent, RouteToStop, RouteToNowhere, RouteToWorker,
        SelectWorkerFails, assignTask, postTaskEvent, unassignTask, RequeueEvent, RecordTask,
        stopTask, retireTask, UpdateStep, UpdateTick, UpdateGet, UpdateFails,
        applyWorkerReport, vars
<1>2. ~ Stopping(t)
  BY <1>1 DEF Steady
<1> DEFINE Goal == /\ Waiting(t)' => Waiting(t)
                   /\ taskWorkerMap'[t] # taskWorkerMap[t] => Waiting(t)
                   /\ ~ Stopping(t)'
<1>3. ASSUME UNCHANGED <<pending, send, taskWorkerMap, submits>>
      PROVE  Goal
  BY <1>0, <1>2, <1>3 DEF Waiting, Queued, Holds, Stopping
<1>4. ASSUME NEW e \in Event, pending' = Append(pending, e), taskDb[e.task] # None,
             UNCHANGED <<send, taskWorkerMap, submits>>
      PROVE  Goal
  <2>1. taskDb[t] = None => (Queued(t)' <=> Queued(t))
    BY <1>0, <1>4, EnqueueCopies
  <2> QED BY <1>0, <1>2, <1>4, <2>1 DEF Waiting, Holds, Stopping
<1>5. CASE ApiStep
  <2>1. ASSUME NEW u \in Tasks, NEW s \in SubmitStates, StartTaskHandler(u, s)
        PROVE  Goal
    <3> DEFINE e == [task |-> u, rec |-> [state |-> s, count |-> 0, cid |-> None]]
    <3>1. /\ submits[u] < MaxSubmits /\ submits' = [submits EXCEPT ![u] = submits[u] + 1]
          /\ pending' = Append(pending, e)
          /\ UNCHANGED <<taskDb, taskWorkerMap, send>>
      BY <2>1 DEF StartTaskHandler, routing
    <3>2. e \in Event /\ e.task = u
      BY DEF Event, Rec
    <3> HIDE DEF e
    <3>3. submits \in [Tasks -> Nat]
      BY DEF TypeOK
    <3>4. CASE u = t
      <4>1. submits[t] = 0
        BY <3>1, <3>3, <3>4 DEF Fresh
      <4> QED BY <1>2, <3>1, <4>1 DEF Waiting, Stopping
    <3>5. CASE u # t
      <4>1. (Queued(t)' <=> Queued(t)) /\ submits'[t] = submits[t]
        BY <1>0, <3>1, <3>2, <3>3, <3>5, EnqueueCopies
      <4> QED BY <1>2, <3>1, <4>1 DEF Waiting, Holds, Stopping
    <3> QED BY <3>4, <3>5
  <2>2. ASSUME NEW c \in Clients, StopEnqueue(c)
        PROVE  Goal
    <3>1. api[c] \in Event /\ taskDb[api[c].task] # None
      BY <2>2 DEF StopEnqueue, TypeOK, MInv, FreshInv
    <3> QED BY <1>4, <2>2, <3>1 DEF StopEnqueue, routing
  <2> QED BY <1>1, <1>3, <1>5, <2>1, <2>2 DEF ApiStep, StopLookup, routing
<1>6. CASE HealthStep
  <2>1. CASE RequeueRestart
    <3> DEFINE e == [task |-> health.task, rec |-> health.rec]
    <3>1. e \in Event /\ taskDb[e.task] # None
      BY <2>1 DEF RequeueRestart, TypeOK, HealthType, Event
    <3>2. pending' = Append(pending, e) /\ UNCHANGED <<send, taskWorkerMap, submits>>
      BY <2>1 DEF RequeueRestart, routing, client
    <3> HIDE DEF e
    <3> QED BY <1>1, <1>4, <3>1, <3>2
  <2> QED BY <1>3, <1>6, <2>1 DEF HealthStep, HealthSnapshot, checkTaskHealth, RestartRoute,
                                beginRestart, PostRestart, routing, client
<1>7. CASE UpdateStep
  BY <1>3, <1>7 DEF UpdateStep, UpdateTick, UpdateGet, UpdateFails, applyWorkerReport,
                    routing, client
<1>8. CASE SendStep
  <2>1. CASE nextPendingEvent
    <3>1. /\ pending # <<>> /\ pending' = Tail(pending) /\ send.pc = "idle"
          /\ send' = [pc |-> "route", ev |-> Head(pending), worker |-> None]
          /\ UNCHANGED <<taskDb, taskWorkerMap, submits>>
      BY <2>1 DEF nextPendingEvent, routing, client
    <3>2. (Queued(t)' => Queued(t)) /\ (Head(pending).task = t => Queued(t))
      BY <1>0, <3>1, DequeueCopies
    <3> QED BY <1>1, <3>1, <3>2 DEF Waiting, Holds, Stopping
  <2>2. CASE RouteToStop
    <3>1. send.ev.task # t
      BY <1>1, <2>2, NobodyStops
    <3>2. /\ send'.ev = send.ev /\ send.pc = "route" /\ send'.pc = "stop"
          /\ UNCHANGED <<pending, taskDb, taskWorkerMap, submits>>
      BY <1>0, <2>2 DEF RouteToStop, routing, client
    <3> QED BY <1>1, <3>1, <3>2 DEF Waiting, Holds, Queued, Stopping
  <2>3. CASE RouteToNowhere \/ SelectWorkerFails
    BY <2>3 DEF RouteToNowhere, SelectWorkerFails, SendIdle, routing, client, Waiting,
                Holds, Queued, Stopping
  <2>4. CASE RouteToWorker
    BY <1>0, <2>4 DEF RouteToWorker, routing, client, Waiting, Holds, Queued, Stopping
  <2>5. ASSUME NEW w \in Workers, assignTask(w)
        PROVE  Goal
    <3>1. /\ send.pc = "pick" /\ send'.pc = "post" /\ send'.ev = send.ev
          /\ taskWorkerMap' = [taskWorkerMap EXCEPT ![send.ev.task] = w]
          /\ UNCHANGED <<pending, taskDb, submits>>
      BY <1>0, <2>5 DEF assignTask, client
    <3>2. send.ev.task = t => Waiting(t)
      BY <1>1, <3>1, DispatchWaits DEF Dispatching
    <3>3. taskWorkerMap'[t] # taskWorkerMap[t] => send.ev.task = t
      BY <1>0, <3>1
    <3> QED BY <3>1, <3>2, <3>3 DEF Waiting, Holds, Queued, Stopping
  <2>6. ASSUME NEW out \in PostOutcomes, postTaskEvent(out)
        PROVE  Goal
    <3>1. /\ send.pc = "post" /\ send'.pc \in {"idle", "record", "unassign"}
          /\ send'.pc # "idle" => send'.ev = send.ev
          /\ UNCHANGED <<pending, taskDb, taskWorkerMap, submits>>
      BY <1>0, <2>6 DEF postTaskEvent, SendIdle, routing, client, Outcome
    <3> QED BY <3>1 DEF Waiting, Holds, Queued, Stopping
  <2>7. CASE unassignTask
    <3>1. /\ send.pc = "unassign" /\ send'.pc = "requeue" /\ send'.ev = send.ev
          /\ taskWorkerMap' = [taskWorkerMap EXCEPT ![send.ev.task] = None]
          /\ UNCHANGED <<pending, taskDb, submits>>
      BY <1>0, <2>7 DEF unassignTask, client
    <3>2. send.ev.task = t => Waiting(t)
      BY <1>1, <3>1, DispatchWaits DEF Dispatching
    <3>3. taskWorkerMap'[t] # taskWorkerMap[t] => send.ev.task = t
      BY <1>0, <3>1
    <3> QED BY <1>1, <3>1, <3>2, <3>3 DEF Waiting, Holds, Queued, Stopping
  <2>8. CASE RequeueEvent
    <3>1. /\ send.pc = "requeue" /\ send'.pc = "idle" /\ send.ev \in Event
          /\ pending' = Append(pending, send.ev)
          /\ UNCHANGED <<taskDb, taskWorkerMap, submits>>
      BY <1>0, <2>8 DEF RequeueEvent, SendIdle, routing, client
    <3>2. Queued(t)' <=> Queued(t) \/ send.ev.task = t
      BY <1>0, <3>1, EnqueueCopies
    <3> QED BY <1>1, <3>1, <3>2 DEF Waiting, Holds, Stopping
  <2>9. CASE RecordTask
    <3>1. /\ send'.pc = "idle"
          /\ UNCHANGED <<pending, taskWorkerMap, submits>>
      BY <2>9 DEF RecordTask, SendIdle, routing, client
    <3> QED BY <1>1, <1>0, <3>1 DEF Waiting, Holds, Queued, Stopping
  <2>10. ASSUME NEW out \in PostOutcomes, stopTask(out)
         PROVE  Goal
    <3>1. /\ send.pc = "stop" /\ send'.pc \in {"idle", "retire"}
          /\ send'.pc # "idle" => send'.ev = send.ev
          /\ UNCHANGED <<pending, taskDb, taskWorkerMap, submits>>
      BY <1>0, <2>10 DEF stopTask, SendIdle, routing, client
    <3> QED BY <1>2, <3>1 DEF Waiting, Holds, Queued, Stopping
  <2>11. CASE retireTask
    <3>1. /\ send.pc = "retire" /\ send'.pc = "idle"
          /\ taskWorkerMap' = [taskWorkerMap EXCEPT ![send.ev.task] = None]
          /\ UNCHANGED <<pending, submits>>
      BY <2>11 DEF retireTask, SendIdle, client
    <3>2. send.ev.task # t
      BY <1>2, <3>1 DEF Stopping
    <3>3. taskWorkerMap'[t] = taskWorkerMap[t]
      BY <1>0, <3>1, <3>2
    <3> QED BY <1>1, <1>0, <3>1, <3>3 DEF Waiting, Holds, Queued, Stopping
  <2> QED BY <1>1, <1>8, <2>1, <2>2, <2>3, <2>4, <2>5, <2>6, <2>7, <2>8, <2>9, <2>10, <2>11
          DEF SendStep
<1>9. CASE UNCHANGED vars
  BY <1>3, <1>9 DEF vars, routing, client
<1> QED BY <1>1, <1>5, <1>6, <1>7, <1>8, <1>9 DEF Next

(* The health pass's copy of the route is up to date where nobody has      *)
(* asked for a stop: workerForTask and beginRestart take the lock one      *)
(* after the other, and nothing in between can move the task.              *)
LEMMA SteadyKept ==
  ASSUME Fresh, TypeOK, MInv, Steady, [Next]_vars
  PROVE  Steady'
<1> USE ManagerAssumption
<1> SUFFICES ASSUME NEW t \in Tasks, stops'[t] = 0
             PROVE  ~ Stopping(t)' /\ RestartKnowsRoute(t)'
  BY DEF Steady
<1>1. /\ stops[t] = 0
      /\ taskWorkerMap'[t] # taskWorkerMap[t] => Waiting(t)
      /\ ~ Stopping(t)'
  BY RouteStays
<1>2. RestartKnowsRoute(t)
  BY <1>1 DEF Steady
<1>3. health \in [pc : HealthPC, todo : [Tasks -> HealthAction],
                  task : Tasks \cup {None}, worker : Workers \cup {None},
                  rec : Rec \cup {None}]
  BY DEF TypeOK, HealthType
<1>4. CASE UNCHANGED health
  <2>1. health.pc \in {"begin", "post"} /\ health.task = t => taskDb[t] # None
    BY DEF TypeOK, HealthType
  <2> QED BY <1>1, <1>2, <1>4, <2>1 DEF RestartKnowsRoute, Waiting
<1>5. CASE HealthStep
  <2>0. /\ UNCHANGED taskWorkerMap
        /\ \A u \in Tasks : HealthAfter(u).pc \in {"idle", "scan"}
    BY <1>5 DEF HealthStep, HealthSnapshot, checkTaskHealth, RestartRoute, beginRestart,
                PostRestart, RequeueRestart, routing, HealthAfter, HealthIdle
  <2>1. CASE HealthSnapshot
    BY <1>1, <1>3, <2>1 DEF HealthSnapshot, RestartKnowsRoute
  <2>2. ASSUME NEW u \in Tasks, NEW ok \in BOOLEAN, checkTaskHealth(u, ok)
        PROVE  RestartKnowsRoute(t)'
    BY <1>3, <2>0, <2>2 DEF checkTaskHealth, RestartKnowsRoute
  <2>3. ASSUME NEW u \in Tasks, RestartRoute(u)
        PROVE  RestartKnowsRoute(t)'
    BY <1>3, <2>0, <2>3 DEF RestartRoute, RestartKnowsRoute
  <2>4. CASE beginRestart
    <3>1. health.pc = "begin" /\ health.task \in Tasks
      BY <2>4 DEF beginRestart, TypeOK, HealthType
    <3>2. \/ health'.task = health.task /\ health'.worker = health.worker
          \/ health'.pc \in {"idle", "scan"}
      BY <1>3, <2>0, <2>4, <3>1 DEF beginRestart
    <3> QED BY <1>1, <1>2, <2>0, <3>1, <3>2 DEF RestartKnowsRoute
  <2>5. ASSUME NEW out \in PostOutcomes, PostRestart(out)
        PROVE  RestartKnowsRoute(t)'
    <3>1. health.task \in Tasks
      BY <2>5 DEF PostRestart, TypeOK, HealthType
    <3> QED BY <1>3, <2>0, <2>5, <3>1 DEF PostRestart, RestartKnowsRoute
  <2>6. CASE RequeueRestart
    <3>1. health.task \in Tasks
      BY <2>6 DEF RequeueRestart, TypeOK, HealthType
    <3> QED BY <1>1, <2>0, <2>6, <3>1 DEF RequeueRestart, RestartKnowsRoute
  <2> QED BY <1>1, <1>5, <2>1, <2>2, <2>3, <2>4, <2>5, <2>6 DEF HealthStep
<1> QED
  BY <1>1, <1>4, <1>5
  DEF Next, ApiStep, StartTaskHandler, StopLookup, StopEnqueue, SendStep, nextPendingEvent,
      RouteToStop, RouteToNowhere, RouteToWorker, SelectWorkerFails, assignTask,
      postTaskEvent, unassignTask, RequeueEvent, RecordTask, stopTask, retireTask,
      UpdateStep, UpdateTick, UpdateGet, UpdateFails, applyWorkerReport, vars

(* Both facts hold from the start.                                         *)
LEMMA SteadyHolds ==
  ASSUME Fresh
  PROVE  Spec => [](TypeOK /\ MInv /\ Steady)
<1>1. Init => Steady
  BY DEF Init, Steady, Stopping, RestartKnowsRoute, SendIdle, HealthIdle
<1>2. TypeOK /\ MInv /\ Steady /\ [Next]_vars => Steady'
  BY SteadyKept
<1> QED BY <1>1, <1>2, BudgetInvariant, PTL DEF Spec
=============================================================================
