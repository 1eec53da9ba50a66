----------------------------- MODULE Lifecycle -----------------------------
(***************************************************************************)
(* The life of a worker process around the loops of Worker: the shutdown   *)
(* that cli/worker.go runs on a signal, crashes, restarts with or without  *)
(* the store of the last life, and store calls that fail (internal/store,  *)
(* internal/worker/state.go).                                              *)
(*                                                                         *)
(*   "up"        the API serves, RunTasks ticks                            *)
(*   "draining"  done is closed, Server.Shutdown waits for handlers        *)
(*   "stopping"  Worker.Shutdown stops the containers it listed            *)
(*   "closed"    the store is closed, the command is about to return       *)
(*   "exited"    the process is gone, by returning                         *)
(*   "crashed"   the process is gone, at any other point                   *)
(*                                                                         *)
(* Nobody waits for RunTasks: what it has in hand goes on during shutdown. *)
(***************************************************************************)
EXTENDS Worker

CONSTANTS
  StoreFaults   \* store calls that may fail: "get", "put", "list"

ASSUME LifecycleAssumption == StoreFaults \subseteq {"get", "put", "list"}

VARIABLES
  proc,   \* where the process is in its life
  db,     \* IN_MEMORY, or PERSISTENT with and without --fresh-start
  tick,   \* RunTasks had left its select for a tick when done was closed
  sd,     \* locals of Worker.Shutdown
  quiet,  \* history: each signal found RunTasks with nothing in hand, and
          \* each shutdown got its list
  torn    \* history: a read of a task failed, or the write that records a
          \* started container, or RunTask was cut off half way

pvars == <<proc, db, tick, sd, quiet, torn>>
lvars == <<wvars, pvars>>

StoreKinds == {"memory", "fresh", "kept"}

NoTodo == [t \in Tasks |-> None]
SdIdle == [pc |-> "next", todo |-> NoTodo, task |-> None]

LInit ==
  /\ WInit
  /\ proc = [w \in Workers |-> "up"]
  /\ db \in [Workers -> StoreKinds]
  /\ tick = [w \in Workers |-> FALSE]
  /\ sd = [w \in Workers |-> SdIdle]
  /\ quiet = [w \in Workers |-> TRUE]
  /\ torn = [w \in Workers |-> FALSE]

Alive(w) == proc[w] \in {"up", "draining", "stopping", "closed"}

(* A store in memory has neither errors nor a Close; a closed file has     *)
(* nothing but errors.                                                     *)
Works(w) == ~ (proc[w] = "closed" /\ db[w] # "memory")
MayFail(w, f) == db[w] # "memory" /\ (f \in StoreFaults \/ ~ Works(w))

-----------------------------------------------------------------------------
(***************************************************************************)
(* The loops and handlers of Worker in a process that may be going down    *)
(***************************************************************************)

(* The API answers while it is up, and finishes the requests it has when   *)
(* it goes down. MaxQueue counts the entry of a stop that has still to be  *)
(* put on the queue.                                                       *)
Serving(w) == proc[w] \in {"up", "draining"}

StartArrives(w, ent) ==
  /\ Serving(w)
  /\ stop[w] # None => Len(wQueue[w]) + 1 < MaxQueue
  /\ WStartTaskHandler(w, ent)
  /\ UNCHANGED pvars

StopArrives(w, t) ==
  /\ Serving(w)
  /\ Len(wQueue[w]) < MaxQueue
  /\ WStopLookup(w, t)
  /\ UNCHANGED pvars

StopHandled(w) == Serving(w) /\ WStopEnqueue(w) /\ UNCHANGED pvars

(* RunTasks takes an entry while up, and one more if it had just ticked.   *)
Ticks(w) ==
  /\ proc[w] = "up" \/ tick[w]
  /\ tick' = [tick EXCEPT ![w] = FALSE]

TakeEntry(w) ==
  /\ Ticks(w)
  /\ Works(w)
  /\ RunTask(w)
  /\ UNCHANGED <<proc, db, sd, quiet, torn>>

(* lookupTask or putTask fails, which is only logged. A task that cannot   *)
(* be read counts as never seen, and the entry is put in its place.        *)
TakeEntryBlind(w) ==
  /\ Ticks(w)
  /\ run[w].pc = "idle"
  /\ wQueue[w] # <<>>
  /\ LET ent == Head(wQueue[w])
         Goes(from) ==
           IF IsValidTransition(from.state, ent.rec.state) /\ FirstCall(ent) # "idle"
           THEN [pc |-> FirstCall(ent), ent |-> ent, cid |-> None] ELSE RunIdle
     IN
     \/ /\ MayFail(w, "get")
        /\ run' = [run EXCEPT ![w] = Goes(ent.rec)]
        /\ torn' = [torn EXCEPT ![w] = TRUE]
        /\ \/ Works(w) /\ wDb' = [wDb EXCEPT ![w][ent.task] = ent.rec]
           \/ MayFail(w, "put") /\ UNCHANGED wDb
     \/ /\ MayFail(w, "put") /\ Works(w) /\ wDb[w][ent.task] = None
        /\ run' = [run EXCEPT ![w] = Goes(Persisted(w, ent))]
        /\ UNCHANGED <<wDb, torn>>
  /\ wQueue' = [wQueue EXCEPT ![w] = Tail(@)]
  /\ UNCHANGED <<upd, stop, docker, proc, db, sd, quiet>>

(* Docker calls of RunTask.                                                *)
DockerCall(w) ==
  /\ Alive(w)
  /\ \/ ContainerStop(w)
     \/ ContainerRemove(w)
     \/ CreateFails(w)
     \/ \E c \in Cids : Run(w, c)
  /\ UNCHANGED pvars

(* upsertTask, when the store works.                                       *)
Record(w) ==
  /\ Alive(w)
  /\ Works(w)
  /\ run[w].pc # "idle" => wDb[w][run[w].ent.task] # None
  /\ Upsert(w)
  /\ UNCHANGED pvars

(* upsertTask of a task the store does not have or cannot read starts from *)
(* the entry; a put that fails is only logged.                             *)
FromEntry(w) ==
  LET ent == run[w].ent IN
  CASE run[w].pc = "started"   -> [state |-> Running, cid |-> run[w].cid]
    [] run[w].pc = "fail"      -> [state |-> Failed, cid |-> ent.rec.cid]
    [] run[w].pc = "completed" -> [state |-> Completed, cid |-> ent.rec.cid]

RecordBlind(w) ==
  LET t == run[w].ent.task IN
  /\ Alive(w)
  /\ run[w].pc \in {"started", "fail", "completed"}
  /\ \/ /\ Works(w)
        /\ \/ wDb[w][t] = None /\ UNCHANGED torn
           \/ MayFail(w, "get") /\ torn' = [torn EXCEPT ![w] = TRUE]
        /\ wDb' = [wDb EXCEPT ![w][t] = FromEntry(w)]
     \/ /\ MayFail(w, "put")
        /\ torn' = IF run[w].pc = "started" THEN [torn EXCEPT ![w] = TRUE] ELSE torn
        /\ UNCHANGED wDb
  /\ run' = [run EXCEPT ![w] = RunIdle]
  /\ UNCHANGED <<wQueue, upd, stop, docker, proc, db, tick, sd, quiet>>

-----------------------------------------------------------------------------
(***************************************************************************)
(* Shutdown                                                                *)
(***************************************************************************)

(* The signal closes done. A RunTasks between two calls may have left its  *)
(* select already.                                                         *)
Signal(w) ==
  /\ proc[w] = "up"
  /\ proc' = [proc EXCEPT ![w] = "draining"]
  /\ \E b \in BOOLEAN :
       /\ b => run[w].pc = "idle"
       /\ tick' = [tick EXCEPT ![w] = b]
       /\ quiet' = [quiet EXCEPT ![w] = @ /\ run[w].pc = "idle" /\ ~ b]
  /\ UNCHANGED <<wvars, db, sd, torn>>

Owned_RunningOnly(rec) == rec # None /\ rec.state = Running

(* What Shutdown stops: whatever has a container and is not Completed.     *)
Owned(rec) == rec # None /\ rec.cid # None /\ rec.state # Completed

(* Server.Shutdown returns when no handler is at work; then GetTasks. On   *)
(* an error there is nothing to stop.                                      *)
ShutdownList(w) ==
  /\ proc[w] = "draining"
  /\ stop[w] = None
  /\ proc' = [proc EXCEPT ![w] = "stopping"]
  /\ \/ /\ sd' = [sd EXCEPT ![w].todo =
                 [t \in Tasks |-> IF Owned(wDb[w][t]) THEN wDb[w][t].cid ELSE None]]
        /\ UNCHANGED quiet
     \/ /\ MayFail(w, "list")
        /\ quiet' = [quiet EXCEPT ![w] = FALSE]
        /\ UNCHANGED sd
  /\ UNCHANGED <<wvars, db, tick, torn>>

(* StopTask moves on; when it has returned, with an error or without (an   *)
(* error is only logged), the loop goes on to the next task.               *)
SdAt(w, pc, t) == [sd EXCEPT ![w] = [pc |-> pc, todo |-> sd[w].todo, task |-> t]]
SdDone(w, t) ==
  [sd EXCEPT ![w] = [pc |-> "next", todo |-> [sd[w].todo EXCEPT ![t] = None], task |-> None]]

ShutdownStop_NoRemove(w, t) ==
  /\ proc[w] = "stopping"
  /\ sd[w].pc = "next"
  /\ sd[w].todo[t] # None
  /\ LET c == sd[w].todo[t] IN
     \/ Exists(w, c) /\ docker' = Moved(c, "exited") /\ sd' = SdAt(w, "write", t)
     \/ /\ ~ Exists(w, c) \/ "stop" \in DockerFaults
        /\ sd' = SdDone(w, t)
        /\ UNCHANGED docker
  /\ UNCHANGED <<wDb, wQueue, run, upd, stop, proc, db, tick, quiet, torn>>

ShutdownStop(w, t) ==
  /\ proc[w] = "stopping"
  /\ sd[w].pc = "next"
  /\ sd[w].todo[t] # None
  /\ LET c == sd[w].todo[t] IN
     \/ Exists(w, c) /\ docker' = Moved(c, "exited") /\ sd' = SdAt(w, "remove", t)
     \/ /\ ~ Exists(w, c) \/ "stop" \in DockerFaults
        /\ sd' = SdDone(w, t)
        /\ UNCHANGED docker
  /\ UNCHANGED <<wDb, wQueue, run, upd, stop, proc, db, tick, quiet, torn>>

ShutdownRemove_Retries(w) ==
  /\ proc[w] = "stopping"
  /\ sd[w].pc = "remove"
  /\ LET c == sd[w].todo[sd[w].task] IN
       Exists(w, c) /\ docker' = Moved(c, "removed") /\ sd' = SdAt(w, "write", sd[w].task)
  /\ UNCHANGED <<wDb, wQueue, run, upd, stop, proc, db, tick, quiet, torn>>

ShutdownRemove(w) ==
  /\ proc[w] = "stopping"
  /\ sd[w].pc = "remove"
  /\ LET c == sd[w].todo[sd[w].task] IN
     \/ Exists(w, c) /\ docker' = Moved(c, "removed") /\ sd' = SdAt(w, "write", sd[w].task)
     \/ /\ ~ Exists(w, c) \/ "remove" \in DockerFaults
        /\ sd' = SdDone(w, sd[w].task)
        /\ UNCHANGED docker
  /\ UNCHANGED <<wDb, wQueue, run, upd, stop, proc, db, tick, quiet, torn>>

(* The last write of StopTask: the state, on the current copy, or on the   *)
(* listed one if that cannot be read.                                      *)
ShutdownWrite(w) ==
  LET t == sd[w].task IN
  /\ proc[w] = "stopping"
  /\ sd[w].pc = "write"
  /\ sd' = SdDone(w, t)
  /\ \/ /\ wDb' = [wDb EXCEPT ![w][t] = [state |-> Completed,
                     cid |-> IF @ = None THEN sd[w].todo[t] ELSE @.cid]]
        /\ UNCHANGED torn
     \/ /\ MayFail(w, "get")
        /\ wDb' = [wDb EXCEPT ![w][t] = [state |-> Completed, cid |-> sd[w].todo[t]]]
        /\ torn' = [torn EXCEPT ![w] = TRUE]
     \/ MayFail(w, "put") /\ UNCHANGED <<wDb, torn>>
  /\ UNCHANGED <<wQueue, run, upd, stop, docker, proc, db, tick, quiet>>

Close(w) ==
  /\ proc[w] = "stopping"
  /\ sd[w].pc = "next" /\ sd[w].todo = NoTodo
  /\ proc' = [proc EXCEPT ![w] = "closed"]
  /\ UNCHANGED <<wvars, db, tick, sd, quiet, torn>>

-----------------------------------------------------------------------------
(***************************************************************************)
(* The end of a process, and the next one                                  *)
(***************************************************************************)

(* Goroutines and the queue are gone. RunTask may be cut off between a     *)
(* Docker call and the write that records it.                              *)
Gone(w) ==
  /\ wQueue' = [wQueue EXCEPT ![w] = <<>>]
  /\ run' = [run EXCEPT ![w] = RunIdle]
  /\ upd' = [upd EXCEPT ![w] = UpdIdle]
  /\ stop' = [stop EXCEPT ![w] = None]
  /\ tick' = [tick EXCEPT ![w] = FALSE]
  /\ torn' = [torn EXCEPT ![w] = @ \/ run[w].pc # "idle"]
  /\ UNCHANGED <<wDb, docker, db, quiet>>

Exit(w) ==
  /\ proc[w] = "closed"
  /\ proc' = [proc EXCEPT ![w] = "exited"]
  /\ Gone(w)
  /\ UNCHANGED sd

Crash(w) ==
  /\ Alive(w)
  /\ proc' = [proc EXCEPT ![w] = "crashed"]
  /\ sd' = [sd EXCEPT ![w] = SdIdle]
  /\ Gone(w)

(* NewPersistentStore wipes the bucket of the last life on a fresh start.  *)
Reopened(w) == IF db[w] = "kept" THEN wDb[w] ELSE [t \in Tasks |-> None]

(* NewWorker: an empty queue on the store.                                 *)
NewWorker(w) ==
  /\ proc[w] \in {"exited", "crashed"}
  /\ proc' = [proc EXCEPT ![w] = "up"]
  /\ sd' = [sd EXCEPT ![w] = SdIdle]
  /\ wDb' = [wDb EXCEPT ![w] = Reopened(w)]
  /\ UNCHANGED <<wQueue, run, upd, stop, docker, db, tick, quiet, torn>>

-----------------------------------------------------------------------------
RunLoop(w) ==
  \/ TakeEntry(w)
  \/ TakeEntryBlind(w)
  \/ DockerCall(w)
  \/ Record(w)
  \/ RecordBlind(w)

Shutdown(w) ==
  \/ ShutdownList(w)
  \/ \E t \in Tasks : ShutdownStop(w, t)
  \/ ShutdownRemove(w)
  \/ ShutdownWrite(w)
  \/ Close(w)
  \/ Exit(w)

LNext ==
  \/ \E w \in Workers, t \in Tasks, s \in PostStates : \E c \in KnownCids(t) :
       StartArrives(w, [task |-> t, rec |-> [state |-> s, cid |-> c]])
  \/ \E w \in Workers, t \in Tasks : StopArrives(w, t)
  \/ \E w \in Workers : StopHandled(w) \/ RunLoop(w) \/ Shutdown(w)
  \/ \E w \in Workers : Signal(w) \/ Crash(w) \/ NewWorker(w)
  \/ \E c \in Cids : ContainerExit(c) /\ UNCHANGED pvars

LSpec == LInit /\ [][LNext]_lvars

(* Handlers and the main goroutine run on, and Docker calls return. Server.*)
(* Shutdown accepts no new connection, so the handlers it waits for are in *)
(* the end all done. There is no fairness for RunTasks: shutdown does not  *)
(* depend on it.                                                           *)
LFairness ==
  \A w \in Workers :
    /\ WF_lvars(StopHandled(w))
    /\ SF_lvars(ShutdownList(w))
    /\ WF_lvars(Shutdown(w))

LFairSpec == LSpec /\ LFairness

-----------------------------------------------------------------------------
(* Once Docker has created a container, the rest of Run succeeds. A start  *)
(* that fails leaves behind a container that nothing records.              *)
RunIsWhole == DockerFaults \cap {"start", "logs", "inspect"} = {}

(* A container of a named task is the one its record names, whatever was   *)
(* crashed and restarted in between and whichever other writes failed, as  *)
(* long as the store is kept, no read of it failed, no started container   *)
(* went unrecorded, no life ended in the middle of RunTask and no start    *)
(* failed half way: there is no other way to lose a container.             *)
NoOrphans ==
  \A w \in Workers, t \in Named : \A c \in ContainersOf(w, t) :
    /\ RunIsWhole
    /\ db[w] = "kept" /\ ~ torn[w]
    /\ ~ (run[w].pc # "idle" /\ run[w].ent.task = t)
    => wDb[w][t] # None /\ wDb[w][t].cid = c

DockerStops == DockerFaults \cap {"stop", "remove"} = {}

(* A shutdown that found RunTasks with nothing in hand and got its list    *)
(* leaves no container of a named task behind, running or not, although    *)
(* the records it worked from may be old, because a write failed.          *)
QuietShutdownIsClean ==
  \A w \in Workers, t \in Named :
    /\ RunIsWhole /\ DockerStops
    /\ proc[w] = "exited" /\ db[w] = "kept" /\ quiet[w] /\ ~ torn[w]
    => ContainersOf(w, t) = {}

(* Shutdown returns, whatever RunTasks, Docker and the store do meanwhile. *)
ShutdownEnds ==
  \A w \in Workers : proc[w] = "draining" ~> proc[w] \in {"exited", "crashed"}

(* While Docker works, a container Shutdown has listed is gone before the  *)
(* store is closed, even if RunTasks stops and replaces it at the same     *)
(* time.                                                                   *)
ListedIsGone ==
  [][\A w \in Workers, t \in Tasks :
       LET c == sd[w].todo[t] IN
       /\ DockerStops
       /\ c # None /\ sd'[w].todo[t] = None
       /\ proc'[w] # "crashed"
       => ~ (docker'[c].st \in Live /\ docker'[c].node = w)]_lvars

(* On shutdown the worker stops every container it still owns: none of     *)
(* them runs once the command has returned.                                *)
ShutdownStopsAll ==
  \A w \in Workers : proc[w] = "exited" =>
    \A c \in Cids : Exists(w, c) => docker[c].st # "running"
=============================================================================
