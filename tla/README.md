# TLA+ verification of task-orchestrator

A manager process keeps a queue of task events, dispatches tasks to worker
processes over HTTP, polls the workers, probes the tasks' health endpoints and
restarts what failed. A worker keeps a queue of its own and drives a Docker
daemon. This directory models both processes, the schedulers, the life of a
worker process, the daemon as the worker uses it and the protocol between manager
and workers, checks the models with TLC and proves the main safety properties
with TLAPS.

Run a check with `tlc -config MCManager.cfg MCManager` and a proof with
`tlapm ManagerProofs.tla`. `PROJECT.json` lists every run, the source lines each
definition stands for, the hazards, the findings and the theorems.

## 1. Inventory

| Component | State | Operations |
| --- | --- | --- |
| task state machine (`task/task.go`) | none | `IsValidTransition` over five states |
| manager (`manager/manager.go`, `state.go`, `pure.go`) | `Pending`, `TaskDb`, `EventDb`, `WorkerTaskMap`, `TaskWorkerMap` under `Manager.mu`; locals of three loops | `SendWork` (dispatch or stop), `doHealthChecks` / `restartTask`, `updateTasks` (poll and merge) |
| manager API (`manager/api.go`) | locals of one goroutine per request | start, stop, list |
| worker (`worker/worker.go`, `state.go`) | `Db`, `Queue`, `Stats` under `Worker.mu`; locals of the loops | `RunTask` (`StartTask`, `StopTask`), `updateTasks`, `CollectStats`, `Shutdown` |
| worker API (`worker/api.go`) | locals of one goroutine per request | start, stop, list, stats |
| docker handler (`task/docker.go`) | none; the daemon has the containers | `Run` (pull, create, start, logs), `Stop` (stop, remove), `Inspect` |
| scheduler (`scheduler/`), node (`node/`) | round-robin cursor | candidate filter, score, pick; one stats fetch per node |
| HTTP helpers (`httpapi/`) | none | `HTTPWithRetry` |
| store (`store/`), queue (`queue/`) | map or bbolt file; FIFO list | put, get, list, count, close |
| command line (`cli/`) | none | which goroutines run in which process; submit, stop, status |

**Interactions.** Clients call the manager's API. The manager's loops share its
state through critical sections of `Manager.mu` and never hold the lock over an
HTTP request. The manager POSTs tasks to a worker, DELETEs them, GETs its list,
and GETs a container's health endpoint. A worker only answers. Its handlers
put entries on the queue; `RunTasks` takes one at a time and calls Docker without
the lock; `UpdateTasks`, where it runs, inspects containers beside it.

**What is hard.** Each logical operation is several critical sections with I/O
between them: what was read in one is stale in the next. A signal meets loops
that nobody waits for, a crash meets a container that no record names yet, and a
failed write is only logged. A choice among workers is made from answers that
arrive in any order, or not at all. A request that timed
out may have arrived. A 204 to a stop means "queued". Docker calls fail half way.
Reports are read at one moment and merged at another. Three writers of the
manager's copy of a task (dispatch, restart, merge) overwrite each other. The
hazards are listed, each at its line, in `PROJECT.json`.

**What makes each part correct.**

* Manager: the routing maps are each other's inverse; accepted work is not
  mislaid and is dispatched in the end; the restart budget bounds restarts;
  `Completed` is not undone by a late report.
* Worker: `Completed` is terminal; `Running` means there is a container; a
  stopped task leaves no container; an exited container is noticed (refuted).
* Scheduler: a call is answered, with the cheapest of the workers that could be
  scored; a worker is passed over only for a reason of its own; turns are even.
* Life of a worker: a shutdown ends and takes its containers with it; a restart
  finds every container in its records.
* Together: a task runs on one worker (not where the answer to a dispatch comes too late);
  a stopped task stops (refuted); the status the manager shows converges to what
  the worker does, or the task has been given up; the manager stays within what the
  worker is verified for.

## 2. Modules

| Module | Models | Uses |
| --- | --- | --- |
| `TaskState` | the state machine | |
| `Manager` | the manager process and its API | `TaskState` |
| `Worker` | the worker processes and their Docker daemons | `TaskState` |
| `Cluster` | one manager with its workers | `INSTANCE Manager`, `INSTANCE Worker` |
| `Lifecycle` | a worker process: shutdown, crash, restart, failing store | `Worker` |
| `Retry` | `HTTPWithRetry` under its caller's deadline | |
| `Selection` | abstract: what `SelectWorker` promises `SendWork` | |
| `Scheduler` | `SelectWorker`, both schedulers, the stats fetch, the stats of a worker | `INSTANCE Retry`, `INSTANCE Selection` |
| `MCManager`, `MCWorker`, `MCCluster`, `MCLifecycle`, `MCScheduler` | constants for TLC | |
| `ManagerProofs`, `WorkerProofs`, `SchedulerProofs`, `LifecycleProofs` | theorems about one part | the module they are named after |
| `ClusterProofs` | theorems about the parts together | `INSTANCE ManagerProofs`, `INSTANCE WorkerProofs` |

**Grain.** One step is one critical section of a mutex or one request (to Docker,
over HTTP). A goroutine's locals are a record with a program counter: `send` for
`SendWork`, `health` for a health pass, `up[w]` for each goroutine of the poll
fan-out, `api[c]` for a stop request between its two critical sections; on the
worker `run[w]`, `upd[w]` and `stop[w]`. Consecutive sections are merged where
no other goroutine can tell: `RunTask`'s dequeue, lookup and first put (only
`RunTasks` takes entries and adds records) and `Docker.Run` with its `Inspect`
(nobody else knows the new id yet; a failure half way leaves what was made).

**Manager.** `Next` is the four sources of steps `cli/manager.go` starts: the API
and the loops `ProcessTasks`, `DoHealthChecks`, `UpdateTasks`. A worker's slice in
`WorkerTaskMap` is the number of times it lists each task: the order is never
read. A task record keeps state, restart count and container id, which is all
that decides control. What a worker does with a request is an open choice
(`PostOutcomes`: accepted, refused, unreachable; `WorkerReplies`: any list of
tasks). `StoreFaults` lets store calls fail, `NoCandidate` lets the scheduler
come back empty. The scheduler picks any worker.

**Worker.** `docker` maps container ids to containers, each on the daemon of one
worker; `Named` are the tasks whose container name blocks a second one. Every
call may fail (`DockerFaults`); a failing `NewDocker` is a failure of the first
call. The manager is an open choice: any state of `PostStates`, with any
container id that was ever made for that task. The branch of `updateTasks` for an
inspect that returns neither a container nor an error is left out, as
`Docker.Inspect` never does. `UpdaterRuns` says whether `UpdateTasks` was started.
`cli/worker.go` starts `RunTasks` and `CollectStats` only, so it is FALSE in every
run about progress; `worker` and `cluster`, which are about safety, have it TRUE, as
`UpdateTasks` is part of the package and races with `RunTask` wherever it is
started.

**Cluster** shares the variables of both and joins the halves of each exchange:
`SendExchange`, `RestartExchange`, the steps of a stop, `Poll`, `Probe`. With
`LateReplies`, a set of `dispatch`, `restart` and `stop`, such a request may take effect
on the worker and look unreachable to the manager. A worker may also refuse a task
without taking it, or take it and answer 201 with a body that cannot be decoded: the
manager treats both alike (`rejected`) and is left with a route to a task it has not
stored. With `NoCandidate` the scheduler may come back empty. A probe passes if a
container of the task is running on the worker it is routed to; `FalseAlarms` lets it fail all the same (slow answers, the random port
of `getHostPort`, a stale port map). `StopFails` is a stop that does not arrive or
that the worker answers 404: the manager logs either and drops the stop. The 404
needs a task that runs on one worker and is routed to another, which takes a late
answer to a dispatch and two workers, so only where `OneWorker` fails as well; the
passing runs meet the other case.

**Lifecycle** puts the actions of `Worker` into a process that is up, drains its
handlers, stops its containers, has closed its store, and is gone, by returning or
by a crash at any point. `cli/worker.go` waits for the API and for nothing else,
so `RunTask` goes on through all of it, and starts once more if it had left its
`select` for a tick (`tick`). `Shutdown` lists the tasks once and works from that
list (`sd`). `db` is the kind of store: in memory it has no errors and ends with
the process; a file has errors (`StoreFaults`, or any call after `Close`) and is
wiped at the next start or kept. The `Blind` actions are what a failed call makes
of a step: a task that cannot be read counts as never seen, a write that fails is
logged. `quiet` and `torn` are history, and only properties read them. `quiet` says
that every signal so far found `RunTasks` at rest and every `Shutdown` could read
its list.
`torn` are the tasks a read of which failed, or whose container was started and
then not recorded, because the write failed or because the process ended inside
`RunTask`.

**Retry** and **Scheduler.** `ProcessTasks` is the only caller of `SelectWorker`, so
there is one call at a time; in it, the marginal-cost `Score` runs a goroutine per
candidate (`goro`), each in a `HTTPWithRetry` of its own (`att`) under a deadline
of its own. A worker answers with the stats of some reading of its machine, or
with a 503 before the first one. A response is any answer: an error status is not
retried. `Pick` and `Return` end the call. Loads are whole numbers of quanta, and
`powerCost` is a constant operator, assumed strictly increasing and convex over
them (`PowerAssumption`); the run takes the code's powers of LIEB, a quarter of
a load apart and rounded to thousandths. A node's disk is 0, as `NewNode` leaves it.

**Selection** has a call, the offers made while it is open and its answer. It is
`Manager`'s licence to pick any worker or none. The mapping takes a filled slot
for an offer; under round-robin, where the highest score wins, its price is one
minus the score.

## 3. Runs

Runs that pass:

| Run | Question | Distinct states |
| --- | --- | --- |
| `manager` | routing, restart budget and no resurrection, over refusals, dead connections, failing writes, an empty scheduler | 2.0 M |
| `manager_fair` | no accepted task is mislaid; each is dispatched | 513 k |
| `worker` | terminal Completed, Running backed by a container, no container of a stopped named task; every Docker call may fail | 365 k |
| `cluster` | a task is on one worker, over refusals, dead connections, an empty scheduler, all the restarts of the code and late answers to them | 753 k |
| `cluster_status` | the manager's view converges, or the task is given up, with refused requests, Docker stops and creates that fail and stops answered late; the manager drives the worker within `WSpec` (refinement: every step of `Cluster` is a step of `Worker` or leaves it alone) | 373 k |
| `scheduler` | `Scheduler` implements `Selection`; who is passed over, who is picked, whose turn it is; every call returns | 466 k |
| `lifecycle` | containers are not lost over crashes, restarts and store errors; a shutdown ends, gets rid of what it lists, and is clean if `RunTasks` was at rest | 624 k |

Runs that refute what a comment, a doc or a test of the repository says. Each
trace is a schedule of the code:

| Run | What happens |
| --- | --- |
| `health_leaves_stopped_alone` | a stop completes between `workerForTask` and `beginRestart`; the restart walks the task back to Scheduled |
| `requeued_work_is_kept` | a restart requeued with its route intact is dropped as a duplicate; the task stays Scheduled until a poll merges a report of it |
| `exit_is_noticed` | nothing starts `UpdateTasks`: an exited container stays Running for ever |
| `stop_takes_effect` | a restart between the worker's lookup and enqueue of a stop leaves the new container running |
| `shutdown_stops_all` | a start in hand when the signal comes makes its container after `Shutdown` has listed the tasks; the command returns with it running |

More weaknesses follow from the models by changing the constants of a run, or are
ruled out by the condition of a property, and are the reason for the conditions
elsewhere in this document:

* a dispatch that times out after it has arrived counts as unreachable
  (`manager.go:249`), which the code takes for "never reached the worker", and is
  sent to another worker as well: with `dispatch` in `LateReplies`, `OneWorker` fails
  and both workers run the task;
* a stop answered 204 is dropped if the task is Scheduled or Failed when
  `SendWork` takes it (`manager.go:289`);
* a crash between Docker's create and `upsertTask`, a failure of that write, or a
  failed read taken for a task never seen, leaves a container that no record names;
  it blocks its task's name in every later life. No other write that fails does.
  `NoOrphans` says that there is no other way, apart from a Docker start, logs or inspect that fails after the create
  (`RunIsWhole`);
* during a shutdown, `RunTask` and `Shutdown` write the same record: a Completed
  may be overwritten by the Running of a container that was just started, and with
  a duplicate start queued a record may say Completed while a container runs;
* a restart that names a container which is gone fails, because `Docker.Stop`
  fails, and so does every later one;
* under marginal cost a task with a disk request has no candidate, since no node
  has a disk;
* `taskCount` counts Completed tasks too, so a worker's job term only grows;
* a refused dispatch leaves a route without a stored task (`assignmentFor` calls
  that impossible); with an id that is submitted twice as well, `manager`'s
  `RoutingConsistent` fails, so the theorems exclude one or the other;
* a second stop of a retired task is dispatched as new work, and its dispatch
  stores an older restart count; after two stops of a task its count may pass
  `TaskRestartMax`, which is why `RestartBudget` speaks of tasks stopped once at most
  (`stops` counts the stops of each task);
* a Failed report merged after the last restart fixes the manager's copy at
  Failed, because Failed to Running is not an edge, while the worker goes on to run
  the task. `StatusConverges` therefore ends in Running or in `GivenUp`. It takes no
  Docker fault: a restart that names a container already replaced fails by itself.
  It speaks of tasks the manager has a record of: one whose 201 could not be decoded
  runs, is routed, and is shown by nobody;
* a task for which the scheduler finds no worker is dropped; with `NoCandidate`
  or with refusals, `SubmissionNotLost` fails.

**Bounds.** One task is enough for most questions: the loops handle tasks one by
one and tasks share only the queue, so two tasks are used where they compete for
it (`manager_fair`). Two workers are needed to send a task elsewhere. A poll
returns one report at a time in `Manager`'s runs, because reports are merged one
lock at a time; `Cluster` polls return the worker's whole store. `TaskRestartMax` is
3 in `manager`, `cluster` and `cluster_status`, as in the code, and 1 where the number
of restarts does not matter. `cluster_status` has four container ids, one for a first
container and three for its replacements; elsewhere two or three allow a container
and its replacements. When ids are used up a create fails, which the code has to survive anyway. `MaxQueue` bounds a worker's
queue at 2 by delaying the handler: a stop behind a restart, or two starts, is
the longest queue one task meets. `MaxSubmits` and `MaxStops` bound the clients.
`cluster` has no stop: a restart requeued over a stop goes to another worker while
the stop is still queued on the first, so `OneWorker` speaks of tasks nobody has
asked to stop, and those are in the states a run without stops reaches.
`cluster_status` has one stop, so it does not reach a Completed event that is
dispatched again. `lifecycle` has one task
(`Shutdown` handles its list one by one, and tasks share no container), two
container ids (one to be replaced by another, or orphaned), any number of signals,
crashes and restarts, and a Docker daemon whose creates may fail. `scheduler` has
three workers (two to compare and one that fails; a turn that is more than a
swap), two attempts (one that is retried and one that is not), four readings: an
idle machine, one whose CPU cannot be read, a smaller loaded one, one whose memory
cannot be read. Calls follow each other without bound.
Symmetry is used for safety only, over workers and container ids, which no definition orders or names.
`cluster_status` is about progress and has numbers for ids (`NumberedCids`) and a
constraint instead (`IdsInOrder`: no id is given out before the lower ones). It
leaves out behaviours that differ from one it keeps in the names of ids only.

**Fairness.** Each loop ticks until its process is shut down, so each has weak
fairness: a call in progress goes on and another one follows. Clients, container
exits, probes' verdicts and restarts get none. One strong fairness condition is
an assumption about the environment and not about the code: in `manager_fair` a
dispatch tried again and again is accepted in the end. In `exit_is_noticed` the
loops `RunTasks` and `UpdateTasks` are fair as far as they were started, and only
`RunTasks` was. In `Cluster` an exchange ends, because of the
client's timeout. In `scheduler` goroutines run, a deadline passes, and a request
under an expired context returns; that a worker ever answers is not assumed, nor
that an attempt fails by itself. In `lifecycle` the handlers and the main goroutine
run on and Docker calls return; `ShutdownList` has strong fairness because
`Server.Shutdown` takes no new connection, while the model lets requests go on
arriving as long as the server drains. `RunTasks` has none there: a shutdown does
not wait for it.

**Deadlock** is checked in every run. In `scheduler` that is a property of the
code: a channel with a slot fewer than candidates, drained only after `wg.Wait`,
deadlocks the model.

**Mutants.** For every property of a passing run there is a variant of one
definition (named `Definition_Bug`, placed before the definition) with a plausible
bug under which TLC finds the property violated.

## 4. Theorems

All theorems are for any sets of tasks, workers, clients and container ids and
any values of the bounds; they rest on `ManagerAssumption`, `WorkerAssumption`,
`LifecycleAssumption` and `ClusterAssumption`, which TLC evaluates in the runs, and
on the conditions below. `SchedulerProofs` is for any number of workers, any set of
readings and any cost function under `SchedulerAssumption`, `PowerAssumption` and
`LoadAssumption`.

`ManagerProofs`:

* `TypeCorrect`: `TypeOK`, with no further condition. It is inductive because it
  includes what each goroutine relies on between two critical sections, e.g. that
  the task of a health pass is still stored when `beginRestart` reads it.
* `RoutingReliable`, `RoutingFresh`: `RoutingConsistent`, which is not inductive.
  `SendWork` is the only writer of the maps, and the missing part is
  `SendKnowsRoute`: before it assigns, the task in its hands has no route, and
  from then on the route is its own worker. That in turn needs the task to be
  unrouted when `assignmentFor` finds nothing (`RouteClear`), which holds for two
  different reasons. With no refusals and no store faults (`Reliable`) a routed
  task missing from the store is in flight (`MissingOnlyInFlight`). With fresh ids
  and reads that work (`Fresh`) an unstored task exists in one copy only
  (`FreshInv`), so nobody else can meet it. Without either the property is false.
* `SubmissionKept`: `SubmissionNotLost` under `Reliable` and a scheduler that
  finds a worker; strengthened by `StopIsStored`.
* `NoResurrection`: `ReportsNeverResurrect`, because Completed has no outgoing
  edge and a merge goes through `IsValidTransition`.
* `BudgetKept`: `RestartBudget` under `Fresh`. The decision to restart is made on a
  snapshot, and `RecordTask` may store the count of an old copy, so the bound alone
  is far from inductive. `Budget` says, for a task stopped once at most: no copy of
  it anywhere (queue, `SendWork`, a stop request, a restart) has a count above the
  limit (`Bounded`); while the health pass has it on its list the stored count is
  below the limit; it is without a route, or on its way to a new one, only once
  its stop is used up (`Spent`), and there is one stop (`OneStop`); and until that
  dispatch is over no copy has a count above the stored one (`Settled`), so the
  dispatch can lower the count but not raise it between decision and restart.
* `SteadyHolds`, a lemma for `ClusterProofs`: the route of a task nobody has asked to
  stop changes only while the task waits for its first dispatch (`RouteStays`), so
  the worker `restartTask` has looked up is still the right one when it posts.

`WorkerProofs`:

* `WTypeCorrect`: `WTypeOK`.
* `CompletedStays`: `CompletedIsTerminal`. The invariant `Busy` says that the task
  `RunTask` is at work on is not Completed in the store; the check at the start
  stays good because no other goroutine completes a task.
* `IdsAreOwned`: a container id in the store, the queue, a stop request or
  `RunTask`'s hands is of a container made for that task (`Ownership`), so a stale
  id may miss but never hits another task's container. That the manager sends
  such ids only is part of `WNext`; `ContractKept` below proves it of the manager.
* `RunningIsBacked`: `RunningHasContainer`, provided no task arrives as Running
  (a client can submit one; then there is none). From `Ownership` and `Backed`,
  which says when exactly `RunTask` is between containers.
* `NamedIsCleared`: `NamedIsRemoved`, from `Ownership`, `Busy` and `Cleared`. The
  argument is the daemon's: while a container has the name, no other is created.

`SchedulerProofs`:

* `NextIndexInRange`: `nextWorkerIndex` is the successor modulo the number of
  workers for every integer, from Go's remainder, which keeps the sign.
* `OutrankingIsCheaper`: a worker with as much memory, no more of it in use, no
  more tasks and a less busy CPU has a strictly lower `nodeScore`: each of its
  three terms is compared by convexity or by growth.
* `InvHolds`: the inductive invariant `SInv`. `Values` are the types, and that stats
  come from a reading and scores are natural. `CallStages` says which slots are
  filled and who is a candidate at each stage of a call. `GoroutineStages` says
  that a goroutine has its cause before it sends an error, and on its end has
  either that cause and no score or the score of the stats it got. Neither
  property below is inductive without the last: the slots alone do not tell an
  unfinished goroutine from one that failed.
* `TypeCorrect`, `PassedOverForCause`, `ChoiceIsSound`: `TypeOK`,
  `LeftOutForCause` and `PickIsNotOutranked` follow from `SInv`, the last one with
  `OutrankingIsCheaper`.
* `SchedulerImplementsSelection`: `Spec => ImplementsSelection`. Initial states map
  to initial states; every action opens, gathers, answers, returns or stutters,
  one step each. `PickIsBest` carries it: the pick is the earliest of the cheapest
  offers. That such a one exists rests on the well-foundedness of the naturals.

* `TurnsHold`: `TurnsAreEven`, from `Turns`: the last picks are consecutive indices
  that end at the cursor.

`LifecycleProofs`. A step is one action of one process (`Step`), and there are many,
so each is first reduced to what it does to each variable; the invariants are then
proved from these summaries.

* `LTypeCorrect`: the types (`LTypeOK`, defined there and checked by no run), as part
  of `LSound`, with the stages of a shutdown (`SdStage`) and that an id Docker has not
  given out is of no task (`FreshIds`).
* `ListedContainersGo`: `ListedIsGone`, an action property, from `LSound`.
* `NothingIsOrphaned`: `NoOrphans`, from `Recorded`: while no read of a task has failed
  and no started container went unrecorded, the only container of a named task is the one its record names or the one that
  `RunTask` has started and not recorded yet. The daemon's rule on names makes it
  the only one.
* `WorkersOwnWhatTheyHold`: the ownership of `WorkerProofs` again, now with the list of
  a shutdown and over the ends and starts of the process (`LOwned`).
* `QuietShutdownLeavesNothing`: `QuietShutdownIsClean`, from `Quiet`: a container of a
  named task that is not gone is still on the shutdown's list, and a task that is
  Completed has none. It needs all of `Recorded`, `LOwned` and `LSound`.

`ClusterProofs` takes the theorems of the parts by instantiation: the manager with
workers that may answer anything, the worker with the contract of `WNext`.

* `ContractKept`: `Spec => WorkerContract`, a refinement. Every step of the cluster is
  a step of the manager, of a worker, or of both (`ManagerHalf`, `WorkerHalf`); what
  has to be shown is that the container ids the manager sends are the task's own.
  `Held` says so of every place the manager keeps one: the store, the queue, the
  hands of `SendWork` and `restartTask`, stop requests and polls. It is inductive
  together with the `Ownership` of the workers, each leaning on the other.
* `HeldIdsAreTheTasks`: `Held` itself.
* `CompletedInCluster`, `NamedInCluster`, `RunningInCluster` (where no client submits
  a task as Running), `NoResurrectionInCluster`, `RoutingInCluster`,
  `BudgetInCluster`: what is proved of a part alone, carried
  over by `ContractKept` and by `ManagerStays` (the manager of a cluster is the
  manager of `ManagerProofs`).
* `OneWorkerPerTask`: `OneWorker` for fresh ids, reads that succeed and no late
  answers to a dispatch; with them TLC refutes it. `Place` says that whatever
  a worker has of a task nobody has asked to stop (queued, in `RunTask`'s hands, a
  stop request, a container) is on the worker the task is routed to, and that no
  worker has anything of a task that still waits for its first dispatch. With
  `RouteStays` the route cannot change under it.

**Only model-checked.** Liveness (`SubmittedIsDispatched`, `StatusConverges`,
`EveryCallAnswered`, `ShutdownEnds`), because TLAPS has no proof rules for
fairness and `ENABLED` here. Every invariant and every action property of
the passing runs is proved.

## 5. Not modelled

* The end of the manager process. `NewManager` always wipes its store
  (`manager.go:85`), so nothing of it is left for a next life to be wrong about.
* Floating point: rounding, and a load that is not a whole number of quanta. The
  disk and load figures of the stats, which no code reads.
* Encoding of stored values, the bbolt file and its lock; a worker that cannot open
  its store does not start. Parsing, formatting, flags, files.
* The task commands of the command line: each is one request to the manager's API,
  and that request is an action of `Manager`.
* Containers of several tasks in one `Shutdown`: in `lifecycle` there is one task.
* Image pull apart from its failure, which is that of a create. Docker's own
  restart policy: a container that exited stays so.
* A submitted task that carries a container id or a restart count. A handler that
  acts only after the client has given up: in `LateReplies` it acts before.
* Clocks. A timeout is an outcome that may occur at any time.

## 6. Plan

1. An abstract `TaskLifecycle` (a task is submitted, placed, run, ended) and
   `Manager` shown to implement it where no claim above is refuted.
2. `RoutingConsistent` where an id is submitted twice and only writes fail.
