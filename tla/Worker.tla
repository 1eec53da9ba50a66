------------------------------- MODULE Worker -------------------------------
(***************************************************************************)
(* The worker processes (internal/worker) and the Docker daemons they      *)
(* drive (internal/task/docker.go). Every variable is indexed by the       *)
(* worker, or by the container id.                                         *)
(*                                                                         *)
(*   RunTasks     takes one entry of the queue at a time     variable run  *)
(*   UpdateTasks  inspects the containers of running tasks   variable upd  *)
(*   HTTP API     enqueues what the manager sends            variable stop *)
(*                                                                         *)
(* One step is one critical section of w.mu or one call to Docker: the     *)
(* lock is never held across a call, so containers and records may change  *)
(* between a read and the write that follows from it. UpdateTasks exists   *)
(* in the package but cli/worker.go does not start it; the constant        *)
(* UpdaterRuns says whether it is.                                         *)
(***************************************************************************)
EXTENDS TaskState, Naturals, Sequences, FiniteSets

CONSTANTS
  Tasks, Workers, Cids, None,
  Named,         \* the tasks with a Name, which their container inherits
  DockerFaults,  \* Docker calls that may fail: "stop", "remove", "create",
                 \* "start", "logs", "inspect"
  PostStates,    \* the states of the tasks the manager sends
  UpdaterRuns,   \* whether the UpdateTasks goroutine is started
  MaxQueue       \* bound: entries in a worker's queue

Calls == {"stop", "remove", "create", "start", "logs", "inspect"}
WRec == [state : State, cid : Cids \cup {None}]
Entry == [task : Tasks, rec : WRec]

ASSUME WorkerAssumption ==
  /\ None \notin Tasks
  /\ None \notin Cids
  /\ None \notin WRec
  /\ None \notin Entry
  /\ Named \subseteq Tasks
  /\ DockerFaults \subseteq Calls
  /\ PostStates \subseteq State
  /\ UpdaterRuns \in BOOLEAN
  /\ MaxQueue \in Nat

VARIABLES
  wDb,     \* Db: the worker's copy of each task
  wQueue,  \* Queue: entries RunTasks has yet to take
  run,     \* locals of RunTask, StartTask and StopTask
  upd,     \* locals of updateTasks
  stop,    \* the entry a StopTaskHandler has built and not yet enqueued
  docker   \* the containers

wvars == <<wDb, wQueue, run, upd, stop, docker>>

(* A container id names nothing until a create returns it, and nothing     *)
(* again once the container is removed.                                    *)
Live == {"created", "running", "exited"}
Container == [st : Live \cup {"unused", "removed"}, task : Tasks \cup {None},
              node : Workers \cup {None}]

Exists(w, c) == c # None /\ docker[c].st \in Live /\ docker[c].node = w
ContainersOf(w, t) == {c \in Cids : Exists(w, c) /\ docker[c].task = t}

-----------------------------------------------------------------------------
RunIdle == [pc |-> "idle", ent |-> None, cid |-> None]
UpdIdle == [pc |-> "idle", todo |-> [t \in Tasks |-> None], task |-> None, exited |-> FALSE]

WInit ==
  /\ wDb = [w \in Workers |-> [t \in Tasks |-> None]]
  /\ wQueue = [w \in Workers |-> <<>>]
  /\ run = [w \in Workers |-> RunIdle]
  /\ upd = [w \in Workers |-> UpdIdle]
  /\ stop = [w \in Workers |-> None]
  /\ docker = [c \in Cids |-> [st |-> "unused", task |-> None, node |-> None]]

(***************************************************************************)
(* HTTP API                                                                *)
(***************************************************************************)

(* AddTask, and a 201 that echoes the task.                                *)
WStartTaskHandler(w, ent) ==
  /\ Len(wQueue[w]) < MaxQueue
  /\ wQueue' = [wQueue EXCEPT ![w] = Append(@, ent)]
  /\ UNCHANGED <<wDb, run, upd, stop, docker>>

(* LookupTask; a task the worker does not have is answered 404.            *)
WStopLookup(w, t) ==
  /\ stop[w] = None
  /\ wDb[w][t] # None
  /\ stop' = [stop EXCEPT ![w] =
                [task |-> t, rec |-> [state |-> Completed, cid |-> wDb[w][t].cid]]]
  /\ UNCHANGED <<wDb, wQueue, run, upd, docker>>

(* AddTask of the copy, in a second critical section, and the 204.         *)
WStopEnqueue(w) ==
  /\ stop[w] # None
  /\ Len(wQueue[w]) < MaxQueue
  /\ wQueue' = [wQueue EXCEPT ![w] = Append(@, stop[w])]
  /\ stop' = [stop EXCEPT ![w] = None]
  /\ UNCHANGED <<wDb, run, upd, docker>>

(***************************************************************************)
(* RunTasks: RunTask                                                       *)
(***************************************************************************)

(* The copy RunTask checks the transition from: the store's, or the queued *)
(* one if the store has never seen the task.                               *)
Persisted(w, ent) == IF wDb[w][ent.task] = None THEN ent.rec ELSE wDb[w][ent.task]

(* Where RunTask goes from a valid transition.                             *)
FirstCall(ent) ==
  CASE ent.rec.state = Completed                       -> "stop"
    [] ent.rec.state = Scheduled /\ ent.rec.cid # None -> "stop"
    [] ent.rec.state = Scheduled /\ ent.rec.cid = None -> "run"
    [] ent.rec.state \notin {Completed, Scheduled}     -> "idle"

RunTask_NoPut(w) ==
  /\ run[w].pc = "idle"
  /\ wQueue[w] # <<>>
  /\ LET ent == Head(wQueue[w]) IN
       run' = [run EXCEPT ![w] =
            IF /\ IsValidTransition(Persisted(w, ent).state, ent.rec.state)
               /\ FirstCall(ent) # "idle"
            THEN [pc |-> FirstCall(ent), ent |-> ent, cid |-> None]
            ELSE RunIdle]
  /\ wQueue' = [wQueue EXCEPT ![w] = Tail(@)]
  /\ UNCHANGED <<wDb, upd, stop, docker>>

RunTask_Unvalidated(w) ==
  /\ run[w].pc = "idle"
  /\ wQueue[w] # <<>>
  /\ LET ent == Head(wQueue[w]) IN
       /\ wDb' = [wDb EXCEPT ![w][ent.task] = Persisted(w, ent)]
       /\ run' = [run EXCEPT ![w] =
            IF FirstCall(ent) # "idle"
            THEN [pc |-> FirstCall(ent), ent |-> ent, cid |-> None]
            ELSE RunIdle]
  /\ wQueue' = [wQueue EXCEPT ![w] = Tail(@)]
  /\ UNCHANGED <<upd, stop, docker>>

(* dequeueTask, lookupTask and, for a task never seen, putTask. Only this  *)
(* goroutine takes entries and adds records, so the three act as one.      *)
RunTask(w) ==
  /\ run[w].pc = "idle"
  /\ wQueue[w] # <<>>
  /\ LET ent == Head(wQueue[w]) IN
       /\ wDb' = [wDb EXCEPT ![w][ent.task] = Persisted(w, ent)]
       /\ run' = [run EXCEPT ![w] =
            IF /\ IsValidTransition(Persisted(w, ent).state, ent.rec.state)
               /\ FirstCall(ent) # "idle"
            THEN [pc |-> FirstCall(ent), ent |-> ent, cid |-> None]
            ELSE RunIdle]
  /\ wQueue' = [wQueue EXCEPT ![w] = Tail(@)]
  /\ UNCHANGED <<upd, stop, docker>>

(* The goroutine of w goes on to pc; the daemon moves container c to st.   *)
RunAt(w, pc) == [pc |-> pc, ent |-> run[w].ent, cid |-> run[w].cid]
Moved(c, st) == [docker EXCEPT ![c] = [st |-> st, task |-> docker[c].task,
                                       node |-> docker[c].node]]

(* A failed call ends a stop with an error and a start with fail().        *)
CallFailed(w) ==
  IF run[w].ent.rec.state = Completed THEN RunIdle ELSE RunAt(w, "fail")

ContainerStop_NoRemove(w) ==
  /\ run[w].pc = "stop"
  /\ LET c == run[w].ent.rec.cid IN
     \/ /\ Exists(w, c)
        /\ docker' = Moved(c, "exited")
        /\ run' = [run EXCEPT ![w] =
             RunAt(w, IF run[w].ent.rec.state = Completed THEN "completed" ELSE "run")]
     \/ /\ ~ Exists(w, c) \/ "stop" \in DockerFaults
        /\ run' = [run EXCEPT ![w] = CallFailed(w)]
        /\ UNCHANGED docker
  /\ UNCHANGED <<wDb, wQueue, upd, stop>>

(* Docker.Stop, first call. The container is the one the ENTRY names.      *)
ContainerStop(w) ==
  /\ run[w].pc = "stop"
  /\ LET c == run[w].ent.rec.cid IN
     \/ /\ Exists(w, c)
        /\ docker' = Moved(c, "exited")
        /\ run' = [run EXCEPT ![w] = RunAt(w, "remove")]
     \/ /\ ~ Exists(w, c) \/ "stop" \in DockerFaults
        /\ run' = [run EXCEPT ![w] = CallFailed(w)]
        /\ UNCHANGED docker
  /\ UNCHANGED <<wDb, wQueue, upd, stop>>

(* Docker.Stop, second call.                                               *)
ContainerRemove(w) ==
  /\ run[w].pc = "remove"
  /\ LET c == run[w].ent.rec.cid IN
     \/ /\ Exists(w, c)
        /\ docker' = Moved(c, "removed")
        /\ run' = [run EXCEPT ![w] =
             RunAt(w, IF run[w].ent.rec.state = Completed THEN "completed" ELSE "run")]
     \/ /\ ~ Exists(w, c) \/ "remove" \in DockerFaults
        /\ run' = [run EXCEPT ![w] = CallFailed(w)]
        /\ UNCHANGED docker
  /\ UNCHANGED <<wDb, wQueue, upd, stop>>

(* Docker.Run and the Inspect that follows. Nobody else knows the new id   *)
(* before it is recorded, so the calls act as one; a call that fails       *)
(* leaves behind what the calls before it made. A create is refused while  *)
(* another container on the daemon has the task's name.                    *)
NameTaken(w, t) == t \in Named /\ ContainersOf(w, t) # {}

CreateFails(w) ==
  /\ run[w].pc = "run"
  /\ \/ "create" \in DockerFaults
     \/ NameTaken(w, run[w].ent.task)
     \/ \A c \in Cids : docker[c].st # "unused"
  /\ run' = [run EXCEPT ![w] = CallFailed(w)]
  /\ UNCHANGED <<wDb, wQueue, upd, stop, docker>>

Run(w, c) ==
  /\ run[w].pc = "run"
  /\ docker[c].st = "unused"
  /\ ~ NameTaken(w, run[w].ent.task)
  /\ \/ /\ docker' = [docker EXCEPT ![c] =
                        [st |-> "running", task |-> run[w].ent.task, node |-> w]]
        /\ \/ run' = [run EXCEPT ![w] = [pc |-> "started", ent |-> run[w].ent, cid |-> c]]
           \/ /\ DockerFaults \cap {"logs", "inspect"} # {}
              /\ run' = [run EXCEPT ![w] = CallFailed(w)]
     \/ /\ "start" \in DockerFaults
        /\ docker' = [docker EXCEPT ![c] =
                        [st |-> "created", task |-> run[w].ent.task, node |-> w]]
        /\ run' = [run EXCEPT ![w] = CallFailed(w)]
  /\ UNCHANGED <<wDb, wQueue, upd, stop>>

Upsert_WholeEntry(w) ==
  LET t == run[w].ent.task IN
  /\ run[w].pc \in {"started", "fail", "completed"}
  /\ wDb' = [wDb EXCEPT ![w][t] =
       CASE run[w].pc = "started"   -> [state |-> Running, cid |-> run[w].cid]
         [] run[w].pc = "fail"      -> [state |-> Failed, cid |-> run[w].ent.rec.cid]
         [] run[w].pc = "completed" -> [state |-> Completed, cid |-> run[w].ent.rec.cid]]
  /\ run' = [run EXCEPT ![w] = RunIdle]
  /\ UNCHANGED <<wQueue, upd, stop, docker>>

(* The last write of StartTask or StopTask: upsertTask on the CURRENT copy.*)
(* fail() touches the state only, so the old container id stays.           *)
Upsert(w) ==
  LET t == run[w].ent.task IN
  /\ run[w].pc \in {"started", "fail", "completed"}
  /\ wDb' = [wDb EXCEPT ![w][t] =
       CASE run[w].pc = "started"   -> [state |-> Running, cid |-> run[w].cid]
         [] run[w].pc = "fail"      -> [state |-> Failed, cid |-> wDb[w][t].cid]
         [] run[w].pc = "completed" -> [state |-> Completed, cid |-> wDb[w][t].cid]]
  /\ run' = [run EXCEPT ![w] = RunIdle]
  /\ UNCHANGED <<wQueue, upd, stop, docker>>

(***************************************************************************)
(* UpdateTasks: updateTasks                                                *)
(***************************************************************************)

(* listTasks. Only what the snapshot calls Running is looked at.           *)
UpdateSnapshot(w) ==
  LET todo == [t \in Tasks |->
                 IF wDb[w][t] # None /\ wDb[w][t].state = Running
                 THEN wDb[w][t].cid ELSE None]
  IN
  /\ UpdaterRuns
  /\ upd[w].pc = "idle"
  /\ \E t \in Tasks : todo[t] # None
  /\ upd' = [upd EXCEPT ![w] = [pc |-> "scan", todo |-> todo, task |-> None, exited |-> FALSE]]
  /\ UNCHANGED <<wDb, wQueue, run, stop, docker>>

UpdAfter(w, t) ==
  LET todo == [upd[w].todo EXCEPT ![t] = None] IN
  IF \A u \in Tasks : todo[u] = None THEN UpdIdle
  ELSE [pc |-> "scan", todo |-> todo, task |-> None, exited |-> FALSE]

(* InspectTask. A container that cannot be inspected is skipped.           *)
Inspect(w, t) ==
  /\ upd[w].pc = "scan"
  /\ upd[w].todo[t] # None
  /\ LET c == upd[w].todo[t] IN
     \/ /\ Exists(w, c)
        /\ upd' = [upd EXCEPT ![w] = [pc |-> "write", todo |-> upd[w].todo, task |-> t,
                                      exited |-> docker[c].st = "exited"]]
     \/ /\ ~ Exists(w, c) \/ "inspect" \in DockerFaults
        /\ upd' = [upd EXCEPT ![w] = UpdAfter(w, t)]
  /\ UNCHANGED <<wDb, wQueue, run, stop, docker>>

UpdateWrite_Unchecked(w) ==
  LET t == upd[w].task IN
  /\ upd[w].pc = "write"
  /\ wDb' = [wDb EXCEPT ![w][t] =
       [state |-> IF upd[w].exited THEN Failed ELSE Running, cid |-> upd[w].todo[t]]]
  /\ upd' = [upd EXCEPT ![w] = UpdAfter(w, t)]
  /\ UNCHANGED <<wQueue, run, stop, docker>>

(* upsertTask: the state is read again, and left alone unless it is still  *)
(* Running.                                                                *)
UpdateWrite(w) ==
  LET t == upd[w].task IN
  /\ upd[w].pc = "write"
  /\ wDb' = [wDb EXCEPT ![w][t] =
       IF wDb[w][t].state = Running /\ upd[w].exited
       THEN [state |-> Failed, cid |-> wDb[w][t].cid]
       ELSE wDb[w][t]]
  /\ upd' = [upd EXCEPT ![w] = UpdAfter(w, t)]
  /\ UNCHANGED <<wQueue, run, stop, docker>>

-----------------------------------------------------------------------------
(* A container's process ends by itself.                                   *)
ContainerExit(c) ==
  /\ docker[c].st = "running"
  /\ docker' = Moved(c, "exited")
  /\ UNCHANGED <<wDb, wQueue, run, upd, stop>>

RunStep(w) ==
  \/ RunTask(w)
  \/ ContainerStop(w)
  \/ ContainerRemove(w)
  \/ CreateFails(w)
  \/ \E c \in Cids : Run(w, c)
  \/ Upsert(w)

UpdateStepW(w) ==
  \/ UpdateSnapshot(w)
  \/ \E t \in Tasks : Inspect(w, t)
  \/ UpdateWrite(w)

WNextLocal ==
  \/ \E w \in Workers : RunStep(w) \/ UpdateStepW(w) \/ WStopEnqueue(w)
  \/ \E c \in Cids : ContainerExit(c)

(* What a manager may send: a task with a container id it heard of, now or *)
(* long ago, from this worker or another; and stops.                       *)
KnownCids(t) == {None} \cup {c \in Cids : docker[c].task = t}

WNext ==
  \/ WNextLocal
  \/ \E w \in Workers, t \in Tasks, s \in PostStates : \E c \in KnownCids(t) :
       WStartTaskHandler(w, [task |-> t, rec |-> [state |-> s, cid |-> c]])
  \/ \E w \in Workers, t \in Tasks : WStopLookup(w, t)

WSpec == WInit /\ [][WNext]_wvars

(* The loops that were started tick until shutdown, and handlers finish.   *)
(* The worker command starts RunTasks. It does not start UpdateTasks: with *)
(* UpdaterRuns = FALSE no UpdateStepW is ever enabled, and the fairness    *)
(* asks nothing of it.                                                     *)
WFairness ==
  \A w \in Workers :
    /\ WF_wvars(RunStep(w))
    /\ WF_wvars(WStopEnqueue(w))
    /\ WF_wvars(UpdateStepW(w))

WFairSpec == WSpec /\ WFairness

-----------------------------------------------------------------------------
(* The variables hold what the code's types allow, and a goroutine between *)
(* two calls has the entry it works on.                                    *)
RunPC == {"idle", "stop", "remove", "run", "started", "fail", "completed"}

RunType(w) ==
  /\ run[w] \in [pc : RunPC, ent : Entry \cup {None}, cid : Cids \cup {None}]
  /\ run[w].pc # "idle" => run[w].ent # None /\ wDb[w][run[w].ent.task] # None
  /\ run[w].pc = "remove" => run[w].ent.rec.cid \in Cids

UpdType(w) ==
  /\ upd[w] \in [pc : {"idle", "scan", "write"}, todo : [Tasks -> Cids \cup {None}],
                 task : Tasks \cup {None}, exited : BOOLEAN]
  /\ upd[w].pc = "write" => upd[w].task # None /\ wDb[w][upd[w].task] # None
  /\ \A t \in Tasks : upd[w].todo[t] # None => wDb[w][t] # None

WTypeOK ==
  /\ wDb \in [Workers -> [Tasks -> WRec \cup {None}]]
  /\ wQueue \in [Workers -> Seq(Entry)]
  /\ DOMAIN run = Workers /\ DOMAIN upd = Workers
  /\ \A w \in Workers : RunType(w) /\ UpdType(w)
  /\ stop \in [Workers -> Entry \cup {None}]
  /\ docker \in [Cids -> Container]

(* Once a worker has recorded a task as Completed nothing it does changes  *)
(* that record: not a start still in the queue, not an updateTasks pass    *)
(* that inspected the container before it was stopped.                     *)
CompletedIsTerminal ==
  [][\A w \in Workers, t \in Tasks :
       /\ wDb[w][t] # None
       /\ wDb[w][t].state = Completed
       => wDb'[w][t] = wDb[w][t]]_wvars

(* A record says Running only of a container that exists, except while     *)
(* RunTask is at work on the task: no lost update leaves "X Running again  *)
(* with no container behind it".                                           *)
RunningHasContainer ==
  \A w \in Workers, t \in Tasks :
    /\ wDb[w][t] # None
    /\ wDb[w][t].state = Running
    /\ ~ (run[w].pc # "idle" /\ run[w].ent.task = t)
    => Exists(w, wDb[w][t].cid)

(* A task with a name has one container on its worker at most, and none    *)
(* once the worker has it Completed, whichever container id the stop named.*)
NamedIsRemoved ==
  \A w \in Workers, t \in Named :
    /\ \A c, d \in ContainersOf(w, t) : c = d
    /\ wDb[w][t] # None /\ wDb[w][t].state = Completed => ContainersOf(w, t) = {}

(* A container that exited under a task recorded as Running is noticed:    *)
(* the record moves on. It takes UpdateTasks, which the documentation of   *)
(* the guarded state counts among the goroutines of the worker.            *)
ExitIsNoticed ==
  \A w \in Workers, t \in Tasks, c \in Cids :
    /\ wDb[w][t] = [state |-> Running, cid |-> c]
    /\ docker[c].st = "exited"
    ~> wDb[w][t] # [state |-> Running, cid |-> c]
=============================================================================
