------------------------------ MODULE Manager ------------------------------
(***************************************************************************)
(* The manager process (internal/manager): the state behind Manager.mu and *)
(* the goroutines that share it.                                           *)
(*                                                                         *)
(*   ProcessTasks    one SendWork at a time            variable send       *)
(*   DoHealthChecks  one pass at a time                variable health     *)
(*   UpdateTasks     one fan-out at a time, a goroutine per worker and a   *)
(*                   WaitGroup to join them            variable up         *)
(*   HTTP API        a goroutine per request           variable api        *)
(*                                                                         *)
(* One step is one critical section of m.mu, or one HTTP exchange; between *)
(* two steps of a goroutine any other goroutine may run. The worker's half *)
(* of an HTTP exchange is a parameter of the step (the outcome the client  *)
(* sees, the tasks a poll returns): left open here, it is joined with the  *)
(* worker's handler in Cluster.                                            *)
(***************************************************************************)
EXTENDS TaskState, Naturals, Sequences, FiniteSets

CONSTANTS
  Tasks,            \* task ids
  Workers,          \* names of the registered workers
  Clients,          \* concurrent stop requests to the API
  Cids,             \* container ids
  None,             \* an empty variable, a missing key
  TaskRestartMax,   \* const TaskRestartMax, 3 in the code
  SubmitStates,     \* the states a submitted task file may carry
  MaxSubmits,       \* bound: submissions of one task id (1: ids are fresh)
  MaxStops,         \* bound: accepted stop requests for one task
  WorkerReplies,    \* the task lists a poll may return
  PostOutcomes,     \* what may become of a request to a worker
  StoreFaults,      \* store operations that may fail: "get", "put"
  NoCandidate       \* whether the scheduler may come back empty-handed

Rec == [state : State, count : Nat, cid : Cids \cup {None}]
Event == [task : Tasks, rec : Rec]
Report == [task : Tasks, state : State, cid : Cids \cup {None}]

(* created:     the worker accepted it (201 or 204) and the reply decoded  *)
(* rejected:    any other answer, an undecodable reply included            *)
(* unreachable: the HTTP client returned an error                          *)
Outcome == {"created", "rejected", "unreachable"}

ASSUME ManagerAssumption ==
  /\ None \notin Workers
  /\ None \notin Tasks
  /\ None \notin Rec
  /\ None \notin Event
  /\ SubmitStates \subseteq State
  /\ TaskRestartMax \in Nat
  /\ MaxSubmits \in Nat
  /\ MaxStops \in Nat
  /\ WorkerReplies \subseteq SUBSET Report
  /\ PostOutcomes \subseteq Outcome
  /\ StoreFaults \subseteq {"get", "put"}
  /\ NoCandidate \in BOOLEAN

VARIABLES
  pending,        \* Pending: the FIFO queue of task events
  taskDb,         \* TaskDb: the manager's copy of each task
  eventDb,        \* EventDb: the audit log of assigned events
  workerTaskMap,  \* WorkerTaskMap: how often a worker's slice lists a task
  taskWorkerMap,  \* TaskWorkerMap
  send,           \* locals of SendWork
  health,         \* locals of doHealthChecks and restartTask
  up,             \* locals of updateTasksFromWorker, per worker
  api,            \* the event a StopTaskHandler has built, per request
  submits, stops  \* how much of the client's bounds is used

routing   == <<workerTaskMap, taskWorkerMap, eventDb>>
client    == <<api, submits, stops>>
vars == <<pending, taskDb, routing, send, health, up, client>>

(***************************************************************************)
(* Pure decisions                                                          *)
(***************************************************************************)

(* Definitions ending in an underscored word are variants with a bug, for  *)
(* the runs that show a property to depend on the code it is about.        *)
mergeTaskUpdate_Unguarded(persisted, incoming) ==
  [persisted EXCEPT !.state = incoming.state, !.cid = incoming.cid]

(* The worker owns state and container; the manager owns the count. A      *)
(* report along an edge the state machine does not have is rejected whole. *)
mergeTaskUpdate(persisted, incoming) ==
  IF /\ persisted.state # incoming.state
     /\ ~ IsValidTransition(persisted.state, incoming.state)
  THEN persisted
  ELSE [persisted EXCEPT !.state = incoming.state, !.cid = incoming.cid]

HealthAction == {"skip", "check", "restart"}

decideHealthAction_OffByOne(rec) ==
  CASE rec.state \notin {Running, Failed}                  -> "skip"
    [] rec.state = Running /\ rec.count <= TaskRestartMax  -> "check"
    [] rec.state = Failed /\ rec.count <= TaskRestartMax   -> "restart"
    [] OTHER                                               -> "skip"

decideHealthAction_RunningOnly(rec) ==
  IF rec.state = Running /\ rec.count < TaskRestartMax THEN "check" ELSE "skip"

(* healthSkipNotEligible and healthSkipRestartMax only differ in the log.  *)
decideHealthAction(rec) ==
  CASE rec.state \notin {Running, Failed}  -> "skip"
    [] rec.count >= TaskRestartMax         -> "skip"
    [] rec.state = Running
         /\ rec.count < TaskRestartMax     -> "check"
    [] rec.state = Failed
         /\ rec.count < TaskRestartMax     -> "restart"

(* t.State = s, on a copy of the task.                                     *)
WithState(rec, s) == [rec EXCEPT !.state = s]

Restarted_StateKept(rec) == [state |-> rec.state, count |-> rec.count + 1, cid |-> rec.cid]

(* The copy beginRestart writes and sends.                                 *)
Restarted(rec) == [state |-> Scheduled, count |-> rec.count + 1, cid |-> rec.cid]

(* What assignmentFor reports: a task routed and present in the store.     *)
Assigned(t) == taskWorkerMap[t] # None /\ taskDb[t] # None

(* Removes the first occurrence of t in w's slice, if there is one.        *)
Unlisted(w, t) ==
  [workerTaskMap EXCEPT ![w][t] = IF @ > 0 THEN @ - 1 ELSE @]

(* The outcomes of a Put of rec under t.                                   *)
Put(t, rec) ==
  \/ taskDb' = [taskDb EXCEPT ![t] = rec]
  \/ "put" \in StoreFaults /\ taskDb' = taskDb

(* The outcomes of writing back what a Get of t, under the same lock, was  *)
(* changed into: a failure of either call is logged and changes nothing.   *)
Rewrite(t, rec) ==
  \/ taskDb' = [taskDb EXCEPT ![t] = rec]
  \/ StoreFaults # {} /\ taskDb' = taskDb

-----------------------------------------------------------------------------
SendIdle == [pc |-> "idle", ev |-> None, worker |-> None]

HealthIdle ==
  [pc |-> "idle", todo |-> [t \in Tasks |-> "skip"],
   task |-> None, worker |-> None, rec |-> None]

UpIdle == [pc |-> "idle", reports |-> {}]

Init ==
  /\ pending = <<>>
  /\ taskDb = [t \in Tasks |-> None]
  /\ eventDb = {}
  /\ workerTaskMap = [w \in Workers |-> [t \in Tasks |-> 0]]
  /\ taskWorkerMap = [t \in Tasks |-> None]
  /\ send = SendIdle
  /\ health = HealthIdle
  /\ up = [w \in Workers |-> UpIdle]
  /\ api = [c \in Clients |-> None]
  /\ submits = [t \in Tasks |-> 0]
  /\ stops = [t \in Tasks |-> 0]

(***************************************************************************)
(* HTTP API                                                                *)
(***************************************************************************)

StartTaskHandler(t, s) ==
  /\ submits[t] < MaxSubmits
  /\ submits' = [submits EXCEPT ![t] = @ + 1]
  /\ pending' =
       Append(pending, [task |-> t, rec |-> [state |-> s, count |-> 0, cid |-> None]])
  /\ UNCHANGED <<taskDb, routing, send, health, up, api, stops>>

(* LookupTask, and a copy of the task with State = Completed. An unknown   *)
(* task is answered 404 and changes nothing.                               *)
StopLookup(c, t) ==
  /\ api[c] = None
  /\ stops[t] < MaxStops
  /\ taskDb[t] # None
  /\ api' = [api EXCEPT ![c] = [task |-> t, rec |-> WithState(taskDb[t], Completed)]]
  /\ stops' = [stops EXCEPT ![t] = @ + 1]
  /\ UNCHANGED <<pending, taskDb, routing, send, health, up, submits>>

(* AddTask, a second critical section, and the 204.                        *)
StopEnqueue(c) ==
  /\ api[c] # None
  /\ pending' = Append(pending, api[c])
  /\ api' = [api EXCEPT ![c] = None]
  /\ UNCHANGED <<taskDb, routing, send, health, up, submits, stops>>

(***************************************************************************)
(* ProcessTasks: SendWork                                                  *)
(***************************************************************************)

nextPendingEvent ==
  /\ send.pc = "idle"
  /\ pending # <<>>
  /\ send' = [pc |-> "route", ev |-> Head(pending), worker |-> None]
  /\ pending' = Tail(pending)
  /\ UNCHANGED <<taskDb, routing, health, up, client>>

(* A task that already has an assignment: the event is acted on only when  *)
(* it is a stop the state machine allows from the manager's copy ...       *)
StopIsValid(ev) ==
  /\ ev.rec.state = Completed
  /\ IsValidTransition(taskDb[ev.task].state, ev.rec.state)

RouteToStop ==
  /\ send.pc = "route"
  /\ Assigned(send.ev.task)
  /\ StopIsValid(send.ev)
  /\ send' = [send EXCEPT !.pc = "stop", !.worker = taskWorkerMap[send.ev.task]]
  /\ UNCHANGED <<pending, taskDb, routing, health, up, client>>

(* ... and is dropped with a warning otherwise.                            *)
RouteToNowhere ==
  /\ send.pc = "route"
  /\ Assigned(send.ev.task)
  /\ ~ StopIsValid(send.ev)
  /\ send' = SendIdle
  /\ UNCHANGED <<pending, taskDb, routing, health, up, client>>

(* No assignment, as far as assignmentFor can tell.                        *)
RouteToWorker ==
  /\ send.pc = "route"
  /\ ~ Assigned(send.ev.task) \/ "get" \in StoreFaults
  /\ send' = [send EXCEPT !.pc = "pick"]
  /\ UNCHANGED <<pending, taskDb, routing, health, up, client>>

SelectWorkerFails ==
  /\ send.pc = "pick"
  /\ NoCandidate
  /\ send' = SendIdle
  /\ UNCHANGED <<pending, taskDb, routing, health, up, client>>

(* SelectWorker (any worker, as far as the manager can tell), assignTask.  *)
(* A failed write to the audit log does not stop the assignment.           *)
assignTask(w) ==
  /\ send.pc = "pick"
  /\ LET t == send.ev.task IN
       /\ \/ eventDb' = eventDb \cup {send.ev}
          \/ "put" \in StoreFaults /\ eventDb' = eventDb
       /\ workerTaskMap' = [workerTaskMap EXCEPT ![w][t] = @ + 1]
       /\ taskWorkerMap' = [taskWorkerMap EXCEPT ![t] = w]
  /\ send' = [send EXCEPT !.pc = "post", !.worker = w]
  /\ UNCHANGED <<pending, taskDb, health, up, client>>

postTaskEvent_DropsUnreachable(out) ==
  /\ send.pc = "post"
  /\ send' = IF out = "created" THEN [send EXCEPT !.pc = "record"] ELSE SendIdle
  /\ UNCHANGED <<pending, taskDb, routing, health, up, client>>

postTaskEvent_AlwaysUndone(out) ==
  /\ send.pc = "post"
  /\ send' = [send EXCEPT !.pc = IF out = "created" THEN "record" ELSE "unassign"]
  /\ UNCHANGED <<pending, taskDb, routing, health, up, client>>

postTaskEvent(out) ==
  /\ send.pc = "post"
  /\ send' = CASE out = "created"     -> [send EXCEPT !.pc = "record"]
               [] out = "rejected"    -> SendIdle
               [] out = "unreachable" -> [send EXCEPT !.pc = "unassign"]
  /\ UNCHANGED <<pending, taskDb, routing, health, up, client>>

unassignTask_RouteOnly ==
  /\ send.pc = "unassign"
  /\ taskWorkerMap' = [taskWorkerMap EXCEPT ![send.ev.task] = None]
  /\ send' = [send EXCEPT !.pc = "requeue", !.worker = None]
  /\ UNCHANGED <<pending, taskDb, workerTaskMap, eventDb, health, up, client>>

unassignTask ==
  /\ send.pc = "unassign"
  /\ taskWorkerMap' = [taskWorkerMap EXCEPT ![send.ev.task] = None]
  /\ workerTaskMap' = Unlisted(send.worker, send.ev.task)
  /\ send' = [send EXCEPT !.pc = "requeue", !.worker = None]
  /\ UNCHANGED <<pending, taskDb, eventDb, health, up, client>>

RequeueEvent_Forgets ==
  /\ send.pc = "requeue"
  /\ send' = SendIdle
  /\ UNCHANGED <<pending, taskDb, routing, health, up, client>>

RequeueEvent ==
  /\ send.pc = "requeue"
  /\ pending' = Append(pending, send.ev)
  /\ send' = SendIdle
  /\ UNCHANGED <<taskDb, routing, health, up, client>>

(* The 201 echoes the task that was sent, and that copy is stored.         *)
RecordTask ==
  /\ send.pc = "record"
  /\ Put(send.ev.task, send.ev.rec)
  /\ send' = SendIdle
  /\ UNCHANGED <<pending, routing, health, up, client>>

(* stopTask: the DELETE. Only a 204 retires the task.                      *)
stopTask(out) ==
  /\ send.pc = "stop"
  /\ send' = IF out = "created" THEN [send EXCEPT !.pc = "retire"] ELSE SendIdle
  /\ UNCHANGED <<pending, taskDb, routing, health, up, client>>

retireTask ==
  /\ send.pc = "retire"
  /\ LET t == send.ev.task IN
       /\ IF taskDb[t] = None
          THEN taskDb' = taskDb
          ELSE Rewrite(t, WithState(taskDb[t], Completed))
       /\ taskWorkerMap' = [taskWorkerMap EXCEPT ![t] = None]
       /\ workerTaskMap' = Unlisted(send.worker, t)
  /\ send' = SendIdle
  /\ UNCHANGED <<pending, eventDb, health, up, client>>

(***************************************************************************)
(* DoHealthChecks                                                          *)
(***************************************************************************)

(* On to the rest of the snapshot once t is dealt with.                    *)
HealthAfter(t) ==
  LET todo == [health.todo EXCEPT ![t] = "skip"] IN
  IF \A u \in Tasks : todo[u] = "skip"
  THEN HealthIdle
  ELSE [HealthIdle EXCEPT !.pc = "scan", !.todo = todo]

(* snapshotTasks. What to do with a task is decided on the snapshot's copy.*)
HealthSnapshot ==
  LET todo == [t \in Tasks |-> IF taskDb[t] = None THEN "skip"
                               ELSE decideHealthAction(taskDb[t])]
  IN
  /\ health.pc = "idle"
  /\ \E t \in Tasks : todo[t] # "skip"
  /\ health' = [health EXCEPT !.pc = "scan", !.todo = todo]
  /\ UNCHANGED <<pending, taskDb, routing, send, up, client>>

(* The probe of a task the snapshot calls Running. It cannot pass once the *)
(* task has lost its worker.                                               *)
checkTaskHealth(t, healthy) ==
  /\ health.pc = "scan"
  /\ health.todo[t] = "check"
  /\ healthy => taskWorkerMap[t] # None
  /\ health' = IF healthy THEN HealthAfter(t)
               ELSE [health EXCEPT !.pc = "restart", !.task = t]
  /\ UNCHANGED <<pending, taskDb, routing, send, up, client>>

RestartRoute_Unchecked(t) ==
  /\ \/ health.pc = "scan" /\ health.todo[t] = "restart"
     \/ health.pc = "restart" /\ health.task = t
  /\ health' = [health EXCEPT !.pc = "begin", !.task = t, !.worker = taskWorkerMap[t]]
  /\ UNCHANGED <<pending, taskDb, routing, send, up, client>>

(* restartTask, first critical section: workerForTask.                     *)
RestartRoute(t) ==
  /\ \/ health.pc = "scan" /\ health.todo[t] = "restart"
     \/ health.pc = "restart" /\ health.task = t
  /\ health' = IF taskWorkerMap[t] = None THEN HealthAfter(t)
               ELSE [health EXCEPT !.pc = "begin", !.task = t,
                                   !.worker = taskWorkerMap[t]]
  /\ UNCHANGED <<pending, taskDb, routing, send, up, client>>

(* Second critical section. The restart goes ahead only if the count was   *)
(* stored. The state the task is in by now is not looked at.               *)
beginRestart ==
  /\ health.pc = "begin"
  /\ LET t == health.task
         restarted == Restarted(taskDb[t])
     IN \/ /\ taskDb' = [taskDb EXCEPT ![t] = restarted]
           /\ health' = [health EXCEPT !.pc = "post", !.rec = restarted]
        \/ /\ StoreFaults # {}
           /\ taskDb' = taskDb
           /\ health' = HealthAfter(t)
  /\ UNCHANGED <<pending, routing, send, up, client>>

PostRestart(out) ==
  /\ health.pc = "post"
  /\ health' = IF out = "unreachable" THEN [health EXCEPT !.pc = "requeue"]
               ELSE HealthAfter(health.task)
  /\ UNCHANGED <<pending, taskDb, routing, send, up, client>>

(* Unlike SendWork, restartTask requeues without undoing the assignment.   *)
RequeueRestart ==
  /\ health.pc = "requeue"
  /\ pending' = Append(pending, [task |-> health.task, rec |-> health.rec])
  /\ health' = HealthAfter(health.task)
  /\ UNCHANGED <<taskDb, routing, send, up, client>>

(***************************************************************************)
(* UpdateTasks                                                             *)
(***************************************************************************)

(* The next tick comes after wg.Wait: every goroutine of the last is done. *)
UpdateTick ==
  /\ \A w \in Workers : up[w].pc = "idle"
  /\ up' = [w \in Workers |-> [pc |-> "get", reports |-> {}]]
  /\ UNCHANGED <<pending, taskDb, routing, send, health, client>>

UpdateGet(w, reports) ==
  /\ up[w].pc = "get"
  /\ up' = [up EXCEPT ![w] = IF reports = {} THEN UpIdle
                             ELSE [pc |-> "apply", reports |-> reports]]
  /\ UNCHANGED <<pending, taskDb, routing, send, health, client>>

(* Unreachable, not 200, or undecodable: nothing is applied.               *)
UpdateFails(w) ==
  /\ up[w].pc = "get"
  /\ up' = [up EXCEPT ![w] = UpIdle]
  /\ UNCHANGED <<pending, taskDb, routing, send, health, client>>

(* One lock per reported task, in the order the worker's store listed them.*)
applyWorkerReport(w, r) ==
  /\ up[w].pc = "apply"
  /\ r \in up[w].reports
  /\ up' = [up EXCEPT ![w] = IF up[w].reports = {r} THEN UpIdle
                             ELSE [pc |-> "apply", reports |-> up[w].reports \ {r}]]
  /\ IF taskDb[r.task] = None
     THEN taskDb' = taskDb
     ELSE Rewrite(r.task, mergeTaskUpdate(taskDb[r.task], r))
  /\ UNCHANGED <<pending, routing, send, health, client>>

-----------------------------------------------------------------------------
ApiStep ==
  \/ \E t \in Tasks, s \in SubmitStates : StartTaskHandler(t, s)
  \/ \E c \in Clients, t \in Tasks : StopLookup(c, t)
  \/ \E c \in Clients : StopEnqueue(c)

SendStep ==
  \/ nextPendingEvent
  \/ RouteToStop
  \/ RouteToNowhere
  \/ RouteToWorker
  \/ SelectWorkerFails
  \/ \E w \in Workers : assignTask(w)
  \/ \E out \in PostOutcomes : postTaskEvent(out)
  \/ unassignTask
  \/ RequeueEvent
  \/ RecordTask
  \/ \E out \in PostOutcomes : stopTask(out)
  \/ retireTask

HealthStep ==
  \/ HealthSnapshot
  \/ \E t \in Tasks, healthy \in BOOLEAN : checkTaskHealth(t, healthy)
  \/ \E t \in Tasks : RestartRoute(t)
  \/ beginRestart
  \/ \E out \in PostOutcomes : PostRestart(out)
  \/ RequeueRestart

UpdateStep ==
  \/ UpdateTick
  \/ \E w \in Workers, reports \in WorkerReplies : UpdateGet(w, reports)
  \/ \E w \in Workers : UpdateFails(w)
  \/ \E w \in Workers : \E r \in up[w].reports : applyWorkerReport(w, r)

Next == ApiStep \/ SendStep \/ HealthStep \/ UpdateStep

Spec == Init /\ [][Next]_vars

(* What the code's scheduling gives: ProcessTasks ticks for as long as the *)
(* manager runs, so a SendWork in progress goes on and another follows.    *)
(* That a worker which is asked again and again answers in the end is an   *)
(* assumption about the network. Clients, polls and probes get no fairness.*)
Fairness ==
  /\ WF_vars(SendStep)
  /\ SF_vars(postTaskEvent("created"))

FairSpec == Spec /\ Fairness

-----------------------------------------------------------------------------
(* The variables hold what the code's types allow.                         *)
SendPC == {"idle", "route", "pick", "post", "unassign", "requeue", "record",
           "stop", "retire"}
HealthPC == {"idle", "scan", "restart", "begin", "post", "requeue"}

SendType ==
  /\ send \in [pc : SendPC, ev : Event \cup {None}, worker : Workers \cup {None}]
  /\ send.pc # "idle" => send.ev # None
  /\ send.pc \in {"post", "unassign", "record", "stop", "retire"} => send.worker # None

HealthType ==
  /\ health \in [pc : HealthPC, todo : [Tasks -> HealthAction],
                 task : Tasks \cup {None}, worker : Workers \cup {None},
                 rec : Rec \cup {None}]
  /\ health.pc \notin {"idle", "scan"} => health.task # None /\ taskDb[health.task] # None
  /\ health.pc \in {"begin", "post", "requeue"} => health.worker # None
  /\ health.pc \in {"post", "requeue"} => health.rec # None
  /\ \A t \in Tasks : health.todo[t] # "skip" => taskDb[t] # None

TypeOK ==
  /\ pending \in Seq(Event)
  /\ taskDb \in [Tasks -> Rec \cup {None}]
  /\ eventDb \subseteq Event
  /\ workerTaskMap \in [Workers -> [Tasks -> Nat]]
  /\ taskWorkerMap \in [Tasks -> Workers \cup {None}]
  /\ SendType
  /\ HealthType
  /\ up \in [Workers -> [pc : {"idle", "get", "apply"}, reports : SUBSET Report]]
  /\ api \in [Clients -> Event \cup {None}]
  /\ submits \in [Tasks -> Nat]
  /\ stops \in [Tasks -> Nat]

(* assignTask, unassignTask and retireTask keep the two routing maps each  *)
(* other's inverse: a worker's slice lists a task once when the task is    *)
(* routed to it and not at all otherwise, whatever is requeued, stopped or *)
(* dispatched again.                                                       *)
RoutingConsistent ==
  \A t \in Tasks, w \in Workers :
    workerTaskMap[w][t] = IF taskWorkerMap[t] = w THEN 1 ELSE 0

(* decideHealthAction reads the count on a snapshot and beginRestart bumps *)
(* it later, so the budget is spent on a stale copy; still a task that is  *)
(* stopped once at most is not restarted more than TaskRestartMax times.   *)
(* (Two stops let SendWork dispatch two old copies of the task, and the    *)
(* count stored with the second may be higher than the one the health pass *)
(* has decided on.)                                                        *)
RestartBudget ==
  \A t \in Tasks :
    taskDb[t] # None /\ stops[t] <= 1 => taskDb[t].count <= TaskRestartMax

(* An accepted task is never mislaid: until its first copy is in TaskDb,   *)
(* its event is in the queue or in SendWork's hands, over any number of    *)
(* unreachable workers. Holds where no request is answered with a refusal. *)
InHand(t) ==
  \/ \E i \in 1..Len(pending) : pending[i].task = t
  \/ send.pc # "idle" /\ send.ev.task = t

SubmissionNotLost ==
  \A t \in Tasks : submits[t] > 0 /\ taskDb[t] = None => InHand(t)

(* A worker's report never takes a task out of Completed, however late the *)
(* poll that carries it: only a restart or a new dispatch writes over it.  *)
ReportsNeverResurrect ==
  [][\A t \in Tasks :
       /\ taskDb[t] # None
       /\ taskDb[t].state = Completed
       /\ taskDb'[t].state # Completed
       => health.pc = "begin" \/ send.pc = "record"]_vars

(* A submitted task is dispatched to some worker in the end, however often *)
(* workers were unreachable and its event went back on the queue.          *)
SubmittedIsDispatched ==
  \A t \in Tasks : submits[t] > 0 ~> taskDb[t] # None

-----------------------------------------------------------------------------
(* Claims of the repository's comments, docs and tests that the code does  *)
(* not keep. Each is refuted by a run of its own.                          *)

(* manager_test.go: "once a task has been stopped, the health check loop   *)
(* must leave it alone instead of restarting what was just completed".     *)
(* restartTask looks the worker up in one critical section and begins the  *)
(* restart in the next; a retireTask in between is walked back.            *)
HealthLeavesStoppedAlone ==
  [][\A t \in Tasks :
       /\ health.pc = "begin"
       /\ taskDb[t] # None
       /\ taskDb[t].state = Completed
       => taskDb'[t] = taskDb[t]]_vars

(* errWorkerUnreachable: "the request did not land, so the event is safe   *)
(* to put back on the queue". restartTask puts it back with the task still *)
(* routed, and SendWork drops it.                                          *)
RequeuedWorkIsKept ==
  [][send.pc = "route" /\ send'.pc = "idle" => send.ev.rec.state = Completed]_vars
=============================================================================
