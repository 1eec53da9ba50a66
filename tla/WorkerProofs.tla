---------------------------- MODULE WorkerProofs ----------------------------
(***************************************************************************)
(* What holds of Worker for every number of tasks, workers and containers. *)
(***************************************************************************)
EXTENDS Worker, TLAPS

(* The store never forgets a task and holds records only.                  *)
DbStep ==
  /\ wDb' \in [Workers -> [Tasks -> WRec \cup {None}]]
  /\ \A w \in Workers, t \in Tasks : wDb[w][t] # None => wDb'[w][t] # None

(* A write of one record is such a step.                                   *)
LEMMA DbWrite ==
  ASSUME NEW w \in Workers, NEW t \in Tasks, NEW rec \in WRec, WTypeOK,
         wDb' = [wDb EXCEPT ![w][t] = rec]
  PROVE  /\ DbStep
         /\ \A v \in Workers, u \in Tasks :
              wDb'[v][u] = IF v = w /\ u = t THEN rec ELSE wDb[v][u]
<1>1. wDb \in [Workers -> [Tasks -> WRec \cup {None}]]
  BY DEF WTypeOK
<1>2. \A v \in Workers, u \in Tasks :
        wDb'[v][u] = IF v = w /\ u = t THEN rec ELSE wDb[v][u]
  BY <1>1
<1>3. wDb' \in [Workers -> [Tasks -> WRec \cup {None}]]
  BY <1>1
<1>4. rec # None
  BY WorkerAssumption
<1> QED BY <1>2, <1>3, <1>4 DEF DbStep

(* Where RunTask goes is a place it knows.                                 *)
LEMMA FirstCallType ==
  ASSUME NEW ent \in Entry
  PROVE  FirstCall(ent) \in {"stop", "run", "idle"}
  BY DEF FirstCall, Entry, WRec, State, Completed, Scheduled

(* A queued task, or its stored copy, is a record.                         *)
LEMMA PersistedType ==
  ASSUME NEW w \in Workers, NEW ent \in Entry, WTypeOK
  PROVE  Persisted(w, ent) \in WRec
  BY DEF Persisted, WTypeOK, Entry

RunRec == [pc : RunPC, ent : Entry \cup {None}, cid : Cids \cup {None}]

(* The goroutine of one worker moves on.                                   *)
LEMMA RunMoves ==
  ASSUME NEW w \in Workers, NEW r \in RunRec, WTypeOK, DbStep,
         run' = [run EXCEPT ![w] = r],
         r.pc # "idle" => r.ent # None /\ wDb'[w][r.ent.task] # None,
         r.pc = "remove" => r.ent.rec.cid \in Cids
  PROVE  DOMAIN run' = Workers /\ \A v \in Workers : RunType(v)'
<1>1. DOMAIN run' = Workers
  BY DEF WTypeOK
<1>2. RunType(w)'
  BY DEF WTypeOK, RunType, RunRec
<1>3. ASSUME NEW v \in Workers, v # w
      PROVE  RunType(v)'
  <2>1. run'[v] = run[v]
    BY <1>3 DEF WTypeOK
  <2>2. RunType(v)
    BY DEF WTypeOK
  <2>3. run[v].pc # "idle" => run[v].ent.task \in Tasks
    BY <2>2 DEF RunType, Entry
  <2> QED BY <2>1, <2>2, <2>3 DEF RunType, DbStep
<1> QED BY <1>1, <1>2, <1>3

(* Or none does.                                                           *)
LEMMA RunStays ==
  ASSUME WTypeOK, DbStep, run' = run
  PROVE  DOMAIN run' = Workers /\ \A v \in Workers : RunType(v)'
<1>1. ASSUME NEW v \in Workers
      PROVE  RunType(v)'
  <2>1. RunType(v)
    BY DEF WTypeOK
  <2>2. run[v].pc # "idle" => run[v].ent.task \in Tasks
    BY <2>1 DEF RunType, Entry
  <2> QED BY <2>1, <2>2 DEF RunType, DbStep
<1> QED BY <1>1 DEF WTypeOK

UpdRec == [pc : {"idle", "scan", "write"}, todo : [Tasks -> Cids \cup {None}],
           task : Tasks \cup {None}, exited : BOOLEAN]

(* The same for the updater.                                               *)
LEMMA UpdMoves ==
  ASSUME NEW w \in Workers, NEW r \in UpdRec, WTypeOK, DbStep,
         upd' = [upd EXCEPT ![w] = r],
         r.pc = "write" => r.task # None /\ wDb[w][r.task] # None,
         \A t \in Tasks : r.todo[t] # None => wDb[w][t] # None
  PROVE  DOMAIN upd' = Workers /\ \A v \in Workers : UpdType(v)'
<1>1. DOMAIN upd' = Workers
  BY DEF WTypeOK
<1>2. UpdType(w)'
  <2>1. upd'[w] = r
    BY DEF WTypeOK
  <2>2. r.pc = "write" => r.task \in Tasks
    BY DEF UpdRec
  <2>3. r.pc = "write" => r.task # None /\ wDb'[w][r.task] # None
    BY <2>2 DEF DbStep
  <2>4. \A t \in Tasks : r.todo[t] # None => wDb'[w][t] # None
    BY DEF DbStep
  <2> QED BY <2>1, <2>3, <2>4 DEF UpdType, UpdRec
<1>3. ASSUME NEW v \in Workers, v # w
      PROVE  UpdType(v)'
  <2>1. upd'[v] = upd[v]
    BY <1>3 DEF WTypeOK
  <2>2. UpdType(v)
    BY DEF WTypeOK
  <2> QED BY <2>1, <2>2 DEF UpdType, DbStep
<1> QED BY <1>1, <1>2, <1>3

LEMMA UpdStays ==
  ASSUME WTypeOK, DbStep, upd' = upd
  PROVE  DOMAIN upd' = Workers /\ \A v \in Workers : UpdType(v)'
<1>1. ASSUME NEW v \in Workers
      PROVE  UpdType(v)'
  <2>1. UpdType(v)
    BY DEF WTypeOK
  <2> QED BY <2>1 DEF UpdType, DbStep
<1> QED BY <1>1 DEF WTypeOK

LEMMA DbStays ==
  ASSUME WTypeOK, wDb' = wDb
  PROVE  DbStep
  BY DEF WTypeOK, DbStep

(* What a step leaves to show once the goroutines are dealt with.          *)
LEMMA TypeFromParts ==
  ASSUME DbStep,
         wQueue' \in [Workers -> Seq(Entry)],
         DOMAIN run' = Workers /\ \A v \in Workers : RunType(v)',
         DOMAIN upd' = Workers /\ \A v \in Workers : UpdType(v)',
         stop' \in [Workers -> Entry \cup {None}],
         docker' \in [Cids -> Container]
  PROVE  WTypeOK'
  BY DEF WTypeOK, DbStep

LEMMA InitType == WInit => WTypeOK
  BY WorkerAssumption
  DEF WInit, WTypeOK, RunType, UpdType, RunIdle, UpdIdle, RunPC, Container

(* The handlers add well-formed entries.                                   *)
LEMMA PostKeepsType ==
  ASSUME NEW w \in Workers, NEW ent \in Entry, WTypeOK, WStartTaskHandler(w, ent)
  PROVE  WTypeOK'
<1> USE DEF WStartTaskHandler
<1>1. DbStep
  BY DbStays
<1>2. wQueue' \in [Workers -> Seq(Entry)]
  BY DEF WTypeOK
<1>3. stop' \in [Workers -> Entry \cup {None}] /\ docker' \in [Cids -> Container]
  BY DEF WTypeOK
<1> QED BY <1>1, <1>2, <1>3, RunStays, UpdStays, TypeFromParts

LEMMA StopLookupKeepsType ==
  ASSUME NEW w \in Workers, NEW t \in Tasks, WTypeOK, WStopLookup(w, t)
  PROVE  WTypeOK'
<1> USE DEF WStopLookup
<1>1. DbStep
  BY DbStays
<1>2. [task |-> t, rec |-> [state |-> Completed, cid |-> wDb[w][t].cid]] \in Entry
  <2>1. wDb[w][t] \in WRec
    BY DEF WTypeOK
  <2> QED BY <2>1 DEF Entry, WRec, State, Completed
<1>3. stop' \in [Workers -> Entry \cup {None}]
  BY <1>2 DEF WTypeOK
<1>4. wQueue' \in [Workers -> Seq(Entry)] /\ docker' \in [Cids -> Container]
  BY DEF WTypeOK
<1> QED BY <1>1, <1>3, <1>4, RunStays, UpdStays, TypeFromParts

LEMMA StopEnqueueKeepsType ==
  ASSUME NEW w \in Workers, WTypeOK, WStopEnqueue(w)
  PROVE  WTypeOK'
<1> USE DEF WStopEnqueue
<1>1. DbStep
  BY DbStays
<1>2. wQueue' \in [Workers -> Seq(Entry)]
  BY DEF WTypeOK
<1>3. stop' \in [Workers -> Entry \cup {None}] /\ docker' \in [Cids -> Container]
  BY DEF WTypeOK
<1> QED BY <1>1, <1>2, <1>3, RunStays, UpdStays, TypeFromParts

(* The entry RunTask takes, and where it goes with it.                     *)
Taken(w) == Head(wQueue[w])

Begun(w) ==
  IF /\ IsValidTransition(Persisted(w, Taken(w)).state, Taken(w).rec.state)
     /\ FirstCall(Taken(w)) # "idle"
  THEN [pc |-> FirstCall(Taken(w)), ent |-> Taken(w), cid |-> None]
  ELSE RunIdle

LEMMA RunTaskEffect ==
  ASSUME NEW w \in Workers, WTypeOK, RunTask(w)
  PROVE  /\ run[w].pc = "idle"
         /\ wQueue[w] \in Seq(Entry) /\ wQueue[w] # <<>>
         /\ Taken(w) \in Entry
         /\ Taken(w).task \in Tasks
         /\ Persisted(w, Taken(w)) \in WRec
         /\ Begun(w) \in RunRec
         /\ Begun(w).pc \in {"stop", "run", "idle"}
         /\ Begun(w).pc # "idle" => Begun(w).ent = Taken(w)
         /\ run' = [run EXCEPT ![w] = Begun(w)]
         /\ wQueue' = [wQueue EXCEPT ![w] = Tail(wQueue[w])]
         /\ UNCHANGED <<upd, stop, docker>>
         /\ DbStep
         /\ \A v \in Workers, u \in Tasks :
              wDb'[v][u] = IF v = w /\ u = Taken(w).task THEN Persisted(w, Taken(w))
                           ELSE wDb[v][u]
<1>1. wQueue[w] \in Seq(Entry) /\ wQueue[w] # <<>>
  BY DEF WTypeOK, RunTask
<1>2. Taken(w) \in Entry
  BY <1>1 DEF Taken
<1>3. /\ run[w].pc = "idle"
      /\ wDb' = [wDb EXCEPT ![w][Taken(w).task] = Persisted(w, Taken(w))]
      /\ run' = [run EXCEPT ![w] = Begun(w)]
      /\ wQueue' = [wQueue EXCEPT ![w] = Tail(wQueue[w])]
      /\ UNCHANGED <<upd, stop, docker>>
  BY DEF RunTask, WTypeOK, Taken, Begun
<1>4. Taken(w).task \in Tasks
  BY <1>2 DEF Entry
<1>5. Persisted(w, Taken(w)) \in WRec
  BY <1>2, PersistedType
<1>6. PICK rec \in WRec, t \in Tasks : rec = Persisted(w, Taken(w)) /\ t = Taken(w).task
  BY <1>4, <1>5
<1>7. wDb' = [wDb EXCEPT ![w][t] = rec]
  BY <1>3, <1>6
<1>8. /\ DbStep
      /\ \A v \in Workers, u \in Tasks :
            wDb'[v][u] = IF v = w /\ u = t THEN rec ELSE wDb[v][u]
  BY <1>7, DbWrite, ZenonT(60)
<1>9. /\ Begun(w) \in RunRec
      /\ Begun(w).pc \in {"stop", "run", "idle"}
      /\ Begun(w).pc # "idle" => Begun(w).ent = Taken(w)
  BY <1>2, FirstCallType DEF Begun, RunRec, RunPC, RunIdle
<1> QED BY <1>1, <1>2, <1>3, <1>4, <1>5, <1>6, <1>8, <1>9

(* RunTask stores the task before it goes to work on it.                   *)
LEMMA RunTaskKeepsType ==
  ASSUME NEW w \in Workers, WTypeOK, RunTask(w)
  PROVE  WTypeOK'
<1>1. wDb'[w][Taken(w).task] # None
  BY RunTaskEffect, WorkerAssumption
<1>2. PICK r \in RunRec : r = Begun(w)
  BY RunTaskEffect
<1>3. /\ r.pc # "idle" => r.ent # None /\ wDb'[w][r.ent.task] # None
      /\ r.pc # "remove"
  BY <1>1, <1>2, RunTaskEffect, WorkerAssumption
<1>4. DOMAIN run' = Workers /\ \A v \in Workers : RunType(v)'
  BY <1>2, <1>3, RunTaskEffect, RunMoves
<1>5. wQueue' \in [Workers -> Seq(Entry)]
  <2>1. Tail(wQueue[w]) \in Seq(Entry)
    BY RunTaskEffect
  <2>2. wQueue' = [wQueue EXCEPT ![w] = Tail(wQueue[w])]
    BY RunTaskEffect
  <2> QED BY <2>1, <2>2 DEF WTypeOK
<1>6. stop' \in [Workers -> Entry \cup {None}] /\ docker' \in [Cids -> Container]
  BY RunTaskEffect DEF WTypeOK
<1> QED BY <1>4, <1>5, <1>6, RunTaskEffect, UpdStays, TypeFromParts

(* A busy goroutine holds an entry of a stored task.                       *)
LEMMA BusyHolds ==
  ASSUME NEW w \in Workers, WTypeOK, run[w].pc # "idle"
  PROVE  /\ run[w].ent \in Entry
         /\ run[w].ent.task \in Tasks
         /\ run[w].ent.rec.cid \in Cids \cup {None}
         /\ wDb[w][run[w].ent.task] \in WRec
  BY DEF WTypeOK, RunType, Entry, WRec

(* The places a busy goroutine goes to.                                    *)
LEMMA RunAtType ==
  ASSUME NEW w \in Workers, NEW pc \in RunPC, WTypeOK, run[w].pc # "idle"
  PROVE  /\ RunAt(w, pc) \in RunRec
         /\ RunAt(w, pc).ent = run[w].ent
         /\ RunAt(w, pc).pc = pc
  BY DEF RunAt, RunRec, WTypeOK, RunType

LEMMA CallFailedType ==
  ASSUME NEW w \in Workers, WTypeOK, run[w].pc # "idle"
  PROVE  /\ CallFailed(w) \in RunRec
         /\ CallFailed(w).pc \in {"idle", "fail"}
         /\ CallFailed(w).pc # "idle" => CallFailed(w).ent = run[w].ent
<1>1. RunIdle \in RunRec /\ RunIdle.pc = "idle"
  BY DEF RunIdle, RunRec, RunPC
<1>2. "fail" \in RunPC
  BY DEF RunPC
<1> QED BY <1>1, <1>2, RunAtType DEF CallFailed

(* A step of a busy goroutine that writes no record keeps the types.       *)
LEMMA CallKeepsType ==
  ASSUME NEW w \in Workers, NEW r \in RunRec, WTypeOK, run[w].pc # "idle",
         run' = [run EXCEPT ![w] = r],
         r.pc # "idle" => r.ent = run[w].ent,
         r.pc = "remove" => run[w].ent.rec.cid \in Cids,
         docker' \in [Cids -> Container],
         UNCHANGED <<wDb, wQueue, upd, stop>>
  PROVE  WTypeOK'
<1>1. DbStep
  BY DbStays
<1>2. r.pc # "idle" => r.ent # None /\ wDb'[w][r.ent.task] # None
  BY BusyHolds, WorkerAssumption
<1>3. DOMAIN run' = Workers /\ \A v \in Workers : RunType(v)'
  BY <1>1, <1>2, RunMoves
<1>4. wQueue' \in [Workers -> Seq(Entry)] /\ stop' \in [Workers -> Entry \cup {None}]
  BY DEF WTypeOK
<1> QED BY <1>1, <1>3, <1>4, UpdStays, TypeFromParts

LEMMA MovedType ==
  ASSUME NEW c \in Cids, NEW st \in Live \cup {"unused", "removed"}, WTypeOK
  PROVE  /\ Moved(c, st) \in [Cids -> Container]
         /\ \A d \in Cids : /\ Moved(c, st)[d].task = docker[d].task
                            /\ Moved(c, st)[d].node = docker[d].node
                            /\ Moved(c, st)[d].st = IF d = c THEN st ELSE docker[d].st
  BY DEF Moved, WTypeOK, Container

LEMMA ContainerStopKeepsType ==
  ASSUME NEW w \in Workers, WTypeOK, ContainerStop(w)
  PROVE  WTypeOK'
<1> DEFINE c == run[w].ent.rec.cid
<1>1. run[w].pc # "idle" /\ UNCHANGED <<wDb, wQueue, upd, stop>>
  BY DEF ContainerStop
<1>2. CASE /\ Exists(w, c)
           /\ docker' = Moved(c, "exited")
           /\ run' = [run EXCEPT ![w] = RunAt(w, "remove")]
  <2>1. c \in Cids
    BY <1>1, <1>2, BusyHolds DEF Exists
  <2>2. docker' \in [Cids -> Container]
    BY <1>2, <2>1, MovedType DEF Live
  <2>3. RunAt(w, "remove") \in RunRec /\ RunAt(w, "remove").ent = run[w].ent
    BY <1>1, RunAtType DEF RunPC
  <2> QED BY <1>1, <1>2, <2>1, <2>2, <2>3, CallKeepsType
<1>3. CASE run' = [run EXCEPT ![w] = CallFailed(w)] /\ UNCHANGED docker
  <2>1. docker' \in [Cids -> Container]
    BY <1>3 DEF WTypeOK
  <2> QED BY <1>1, <1>3, <2>1, CallFailedType, CallKeepsType
<1> QED BY <1>2, <1>3 DEF ContainerStop

LEMMA ContainerRemoveKeepsType ==
  ASSUME NEW w \in Workers, WTypeOK, ContainerRemove(w)
  PROVE  WTypeOK'
<1> DEFINE c == run[w].ent.rec.cid
           pc == IF run[w].ent.rec.state = Completed THEN "completed" ELSE "run"
<1>1. run[w].pc # "idle" /\ UNCHANGED <<wDb, wQueue, upd, stop>>
  BY DEF ContainerRemove
<1>2. CASE docker' = Moved(c, "removed") /\ run' = [run EXCEPT ![w] = RunAt(w, pc)]
  <2>1. c \in Cids
    BY DEF ContainerRemove, WTypeOK, RunType
  <2>2. docker' \in [Cids -> Container]
    BY <1>2, <2>1, MovedType
  <2>3. pc \in RunPC /\ pc # "remove"
    BY DEF RunPC
  <2>4. RunAt(w, pc) \in RunRec /\ RunAt(w, pc).ent = run[w].ent /\ RunAt(w, pc).pc = pc
    BY <1>1, <2>3, RunAtType
  <2> QED BY <1>1, <1>2, <2>2, <2>3, <2>4, CallKeepsType
<1>3. CASE run' = [run EXCEPT ![w] = CallFailed(w)] /\ UNCHANGED docker
  <2>1. docker' \in [Cids -> Container]
    BY <1>3 DEF WTypeOK
  <2> QED BY <1>1, <1>3, <2>1, CallFailedType, CallKeepsType
<1> QED BY <1>2, <1>3 DEF ContainerRemove

LEMMA CreateFailsKeepsType ==
  ASSUME NEW w \in Workers, WTypeOK, CreateFails(w)
  PROVE  WTypeOK'
<1>1. /\ run[w].pc # "idle"
      /\ run' = [run EXCEPT ![w] = CallFailed(w)]
      /\ UNCHANGED <<wDb, wQueue, upd, stop, docker>>
  BY DEF CreateFails
<1>2. docker' \in [Cids -> Container]
  BY <1>1 DEF WTypeOK
<1> QED BY <1>1, <1>2, CallFailedType, CallKeepsType

(* The daemon's view of a new container.                                   *)
Made(w, c, st) == [docker EXCEPT ![c] = [st |-> st, task |-> run[w].ent.task, node |-> w]]

(* Run makes one container, and either knows it or fails.                  *)
LEMMA RunEffect ==
  ASSUME NEW w \in Workers, NEW c \in Cids, Run(w, c)
  PROVE  /\ run[w].pc = "run"
         /\ docker[c].st = "unused"
         /\ ~ NameTaken(w, run[w].ent.task)
         /\ UNCHANGED <<wDb, wQueue, upd, stop>>
         /\ \/ /\ docker' = Made(w, c, "running")
               /\ run' = [run EXCEPT ![w] = [pc |-> "started", ent |-> run[w].ent, cid |-> c]]
            \/ /\ \E st \in {"running", "created"} : docker' = Made(w, c, st)
               /\ run' = [run EXCEPT ![w] = CallFailed(w)]
  BY DEF Run, Made

LEMMA MadeType ==
  ASSUME NEW w \in Workers, NEW c \in Cids, NEW st \in {"running", "created"}, WTypeOK,
         run[w].pc # "idle"
  PROVE  /\ Made(w, c, st) \in [Cids -> Container]
         /\ \A d \in Cids : Made(w, c, st)[d] =
              IF d = c THEN [st |-> st, task |-> run[w].ent.task, node |-> w] ELSE docker[d]
<1>1. [st |-> st, task |-> run[w].ent.task, node |-> w] \in Container
  BY BusyHolds DEF Container, Live
<1> QED BY <1>1 DEF Made, WTypeOK

LEMMA RunKeepsType ==
  ASSUME NEW w \in Workers, NEW c \in Cids, WTypeOK, Run(w, c)
  PROVE  WTypeOK'
<1>1. run[w].pc # "idle" /\ UNCHANGED <<wDb, wQueue, upd, stop>>
  BY RunEffect
<1>2. docker' \in [Cids -> Container]
  <2>1. PICK st \in {"running", "created"} : docker' = Made(w, c, st)
    BY RunEffect
  <2>2. Made(w, c, st) \in [Cids -> Container]
    BY <1>1, MadeType
  <2> QED BY <2>1, <2>2
<1>3. CASE run' = [run EXCEPT ![w] = [pc |-> "started", ent |-> run[w].ent, cid |-> c]]
  <2>1. PICK r \in RunRec : r = [pc |-> "started", ent |-> run[w].ent, cid |-> c]
    BY <1>1, BusyHolds DEF RunRec, RunPC
  <2>2. r.ent = run[w].ent /\ r.pc = "started"
    BY <2>1
  <2>3. run' = [run EXCEPT ![w] = r]
    BY <1>3, <2>1
  <2> QED BY <1>1, <1>2, <2>2, <2>3, CallKeepsType
<1>4. CASE run' = [run EXCEPT ![w] = CallFailed(w)]
  BY <1>1, <1>2, <1>4, CallFailedType, CallKeepsType
<1> QED BY <1>3, <1>4, RunEffect

(* The record Upsert writes.                                               *)
Upserted(w) ==
  LET t == run[w].ent.task IN
  CASE run[w].pc = "started"   -> [state |-> Running, cid |-> run[w].cid]
    [] run[w].pc = "fail"      -> [state |-> Failed, cid |-> wDb[w][t].cid]
    [] run[w].pc = "completed" -> [state |-> Completed, cid |-> wDb[w][t].cid]

LEMMA UpsertEffect ==
  ASSUME NEW w \in Workers, WTypeOK, Upsert(w)
  PROVE  /\ run[w].pc \in {"started", "fail", "completed"}
         /\ Upserted(w) \in WRec
         /\ run' = [run EXCEPT ![w] = RunIdle]
         /\ UNCHANGED <<wQueue, upd, stop, docker>>
         /\ DbStep
         /\ \A v \in Workers, u \in Tasks :
              wDb'[v][u] = IF v = w /\ u = run[w].ent.task THEN Upserted(w) ELSE wDb[v][u]
<1>1. /\ run[w].pc \in {"started", "fail", "completed"}
      /\ run' = [run EXCEPT ![w] = RunIdle]
      /\ UNCHANGED <<wQueue, upd, stop, docker>>
      /\ wDb' = [wDb EXCEPT ![w][run[w].ent.task] = Upserted(w)]
  BY DEF Upsert, Upserted
<1>2. wDb[w][run[w].ent.task].cid \in Cids \cup {None} /\ run[w].cid \in Cids \cup {None}
  BY <1>1, BusyHolds DEF WRec, WTypeOK, RunType
<1>3. Upserted(w) \in WRec
  BY <1>1, <1>2 DEF Upserted, WRec, State, Running, Failed, Completed
<1>4. PICK rec \in WRec, t \in Tasks : rec = Upserted(w) /\ t = run[w].ent.task
  BY <1>1, <1>3, BusyHolds
<1>5. wDb' = [wDb EXCEPT ![w][t] = rec]
  BY <1>1, <1>4
<1>6. /\ DbStep
      /\ \A v \in Workers, u \in Tasks :
            wDb'[v][u] = IF v = w /\ u = t THEN rec ELSE wDb[v][u]
  BY <1>5, DbWrite, ZenonT(60)
<1> QED BY <1>1, <1>3, <1>4, <1>6

LEMMA UpsertKeepsType ==
  ASSUME NEW w \in Workers, WTypeOK, Upsert(w)
  PROVE  WTypeOK'
<1>1. RunIdle \in RunRec /\ RunIdle.pc = "idle"
  BY DEF RunIdle, RunRec, RunPC
<1>2. DOMAIN run' = Workers /\ \A v \in Workers : RunType(v)'
  BY <1>1, UpsertEffect, RunMoves
<1>3. /\ wQueue' \in [Workers -> Seq(Entry)]
      /\ stop' \in [Workers -> Entry \cup {None}]
      /\ docker' \in [Cids -> Container]
  BY UpsertEffect DEF WTypeOK
<1> QED BY <1>2, <1>3, UpsertEffect, UpdStays, TypeFromParts

(* The rest of an updater's pass is well formed.                           *)
LEMMA UpdAfterType ==
  ASSUME NEW w \in Workers, NEW t \in Tasks, WTypeOK
  PROVE  /\ UpdAfter(w, t) \in UpdRec
         /\ UpdAfter(w, t).pc # "write"
         /\ \A u \in Tasks : UpdAfter(w, t).todo[u] # None => wDb[w][u] # None
<1> DEFINE todo == [upd[w].todo EXCEPT ![t] = None]
<1>1. upd[w].todo \in [Tasks -> Cids \cup {None}]
  BY DEF WTypeOK, UpdType
<1>2. todo \in [Tasks -> Cids \cup {None}]
  BY <1>1
<1>3. \A u \in Tasks : todo[u] # None => wDb[w][u] # None
  BY <1>1 DEF WTypeOK, UpdType
<1>4. UpdAfter(w, t) = IF \A u \in Tasks : todo[u] = None THEN UpdIdle
                       ELSE [pc |-> "scan", todo |-> todo, task |-> None, exited |-> FALSE]
  BY DEF UpdAfter
<1> HIDE DEF todo
<1> QED BY <1>2, <1>3, <1>4 DEF UpdIdle, UpdRec

(* A step of the updater that writes no record keeps the types.            *)
LEMMA LookKeepsType ==
  ASSUME NEW w \in Workers, NEW r \in UpdRec, WTypeOK,
         upd' = [upd EXCEPT ![w] = r],
         r.pc = "write" => r.task # None /\ wDb[w][r.task] # None,
         \A t \in Tasks : r.todo[t] # None => wDb[w][t] # None,
         UNCHANGED <<wDb, wQueue, run, stop, docker>>
  PROVE  WTypeOK'
<1>1. DbStep
  BY DbStays
<1>2. DOMAIN upd' = Workers /\ \A v \in Workers : UpdType(v)'
  BY <1>1, UpdMoves
<1>3. /\ wQueue' \in [Workers -> Seq(Entry)]
      /\ stop' \in [Workers -> Entry \cup {None}]
      /\ docker' \in [Cids -> Container]
  BY DEF WTypeOK
<1> QED BY <1>1, <1>2, <1>3, RunStays, TypeFromParts

LEMMA SnapshotKeepsType ==
  ASSUME NEW w \in Workers, WTypeOK, UpdateSnapshot(w)
  PROVE  WTypeOK'
<1> DEFINE todo == [t \in Tasks |-> IF wDb[w][t] # None /\ wDb[w][t].state = Running
                                    THEN wDb[w][t].cid ELSE None]
<1>1. /\ upd' = [upd EXCEPT ![w] =
                   [pc |-> "scan", todo |-> todo, task |-> None, exited |-> FALSE]]
      /\ UNCHANGED <<wDb, wQueue, run, stop, docker>>
  BY DEF UpdateSnapshot
<1>2. todo \in [Tasks -> Cids \cup {None}]
  BY DEF WTypeOK, WRec
<1>3. \A t \in Tasks : todo[t] # None => wDb[w][t] # None
  OBVIOUS
<1> HIDE DEF todo
<1>4. PICK r \in UpdRec :
        r = [pc |-> "scan", todo |-> todo, task |-> None, exited |-> FALSE]
  BY <1>2 DEF UpdRec
<1>5. r.pc = "write" => r.task # None /\ wDb[w][r.task] # None
  BY <1>4
<1>6. \A t \in Tasks : r.todo[t] # None => wDb[w][t] # None
  BY <1>3, <1>4
<1>7. upd' = [upd EXCEPT ![w] = r] /\ UNCHANGED <<wDb, wQueue, run, stop, docker>>
  BY <1>1, <1>4
<1> QED BY <1>5, <1>6, <1>7, LookKeepsType

LEMMA InspectKeepsType ==
  ASSUME NEW w \in Workers, NEW t \in Tasks, WTypeOK, Inspect(w, t)
  PROVE  WTypeOK'
<1>1. UNCHANGED <<wDb, wQueue, run, stop, docker>> /\ upd[w].todo[t] # None
  BY DEF Inspect
<1>2. ASSUME NEW e \in BOOLEAN,
             upd' = [upd EXCEPT ![w] = [pc |-> "write", todo |-> upd[w].todo, task |-> t,
                                        exited |-> e]]
      PROVE  WTypeOK'
  <2>1. PICK r \in UpdRec :
          r = [pc |-> "write", todo |-> upd[w].todo, task |-> t, exited |-> e]
    BY DEF WTypeOK, UpdType, UpdRec
  <2>2. r.task = t /\ r.todo = upd[w].todo
    BY <2>1
  <2>3. /\ t # None /\ wDb[w][t] # None
        /\ \A u \in Tasks : r.todo[u] # None => wDb[w][u] # None
    BY <1>1, <2>2, WorkerAssumption DEF WTypeOK, UpdType
  <2>4. upd' = [upd EXCEPT ![w] = r]
    BY <1>2, <2>1
  <2> QED BY <1>1, <2>2, <2>3, <2>4, LookKeepsType
<1>3. CASE upd' = [upd EXCEPT ![w] = UpdAfter(w, t)]
  BY <1>1, <1>3, UpdAfterType, LookKeepsType
<1> QED BY <1>2, <1>3 DEF Inspect

(* The record UpdateWrite writes.                                          *)
Refreshed(w) ==
  LET rec == wDb[w][upd[w].task] IN
  IF rec.state = Running /\ upd[w].exited THEN [state |-> Failed, cid |-> rec.cid] ELSE rec

LEMMA UpdateWriteEffect ==
  ASSUME NEW w \in Workers, WTypeOK, UpdateWrite(w)
  PROVE  /\ upd[w].task \in Tasks
         /\ wDb[w][upd[w].task] \in WRec
         /\ Refreshed(w) \in WRec
         /\ upd' = [upd EXCEPT ![w] = UpdAfter(w, upd[w].task)]
         /\ UNCHANGED <<wQueue, run, stop, docker>>
         /\ DbStep
         /\ \A v \in Workers, u \in Tasks :
              wDb'[v][u] = IF v = w /\ u = upd[w].task THEN Refreshed(w) ELSE wDb[v][u]
<1>1. /\ upd[w].pc = "write"
      /\ upd' = [upd EXCEPT ![w] = UpdAfter(w, upd[w].task)]
      /\ UNCHANGED <<wQueue, run, stop, docker>>
      /\ wDb' = [wDb EXCEPT ![w][upd[w].task] = Refreshed(w)]
  BY DEF UpdateWrite, Refreshed
<1>2. upd[w].task \in Tasks /\ wDb[w][upd[w].task] \in WRec
  BY <1>1 DEF WTypeOK, UpdType
<1>3. Refreshed(w) \in WRec
  BY <1>2 DEF Refreshed, WRec, State, Failed
<1>4. PICK rec \in WRec, t \in Tasks : rec = Refreshed(w) /\ t = upd[w].task
  BY <1>2, <1>3
<1>5. wDb' = [wDb EXCEPT ![w][t] = rec]
  BY <1>1, <1>4
<1>6. /\ DbStep
      /\ \A v \in Workers, u \in Tasks :
            wDb'[v][u] = IF v = w /\ u = t THEN rec ELSE wDb[v][u]
  BY <1>5, DbWrite, ZenonT(60)
<1> QED BY <1>1, <1>2, <1>3, <1>4, <1>6

LEMMA UpdateWriteKeepsType ==
  ASSUME NEW w \in Workers, WTypeOK, UpdateWrite(w)
  PROVE  WTypeOK'
<1>1. PICK r \in UpdRec : r = UpdAfter(w, upd[w].task)
  BY UpdateWriteEffect, UpdAfterType
<1>2. r.pc # "write" /\ \A u \in Tasks : r.todo[u] # None => wDb[w][u] # None
  BY <1>1, UpdateWriteEffect, UpdAfterType
<1>3. DOMAIN upd' = Workers /\ \A v \in Workers : UpdType(v)'
  BY <1>1, <1>2, UpdateWriteEffect, UpdMoves
<1>4. /\ wQueue' \in [Workers -> Seq(Entry)]
      /\ stop' \in [Workers -> Entry \cup {None}]
      /\ docker' \in [Cids -> Container]
  BY UpdateWriteEffect DEF WTypeOK
<1> QED BY <1>3, <1>4, UpdateWriteEffect, RunStays, TypeFromParts

LEMMA ExitKeepsType ==
  ASSUME NEW c \in Cids, WTypeOK, ContainerExit(c)
  PROVE  WTypeOK'
<1>1. docker' \in [Cids -> Container]
  BY MovedType DEF ContainerExit, Live
<1>2. DbStep
  BY DbStays DEF ContainerExit
<1>3. wQueue' \in [Workers -> Seq(Entry)] /\ stop' \in [Workers -> Entry \cup {None}]
  BY DEF WTypeOK, ContainerExit
<1>4. run' = run /\ upd' = upd
  BY DEF ContainerExit
<1> QED BY <1>1, <1>2, <1>3, <1>4, RunStays, UpdStays, TypeFromParts

(* The manager sends well-formed entries.                                  *)
LEMMA SentType ==
  ASSUME NEW t \in Tasks, NEW s \in PostStates, NEW c \in KnownCids(t)
  PROVE  [task |-> t, rec |-> [state |-> s, cid |-> c]] \in Entry
  BY WorkerAssumption DEF KnownCids, Entry, WRec

LEMMA NextType == WTypeOK /\ [WNext]_wvars => WTypeOK'
<1> SUFFICES ASSUME WTypeOK, [WNext]_wvars
             PROVE  WTypeOK'
  OBVIOUS
<1>1. CASE UNCHANGED wvars
  BY <1>1 DEF wvars, WTypeOK, RunType, UpdType
<1>2. ASSUME NEW w \in Workers, RunStep(w)
      PROVE  WTypeOK'
  BY <1>2, RunTaskKeepsType, ContainerStopKeepsType, ContainerRemoveKeepsType,
     CreateFailsKeepsType, RunKeepsType, UpsertKeepsType DEF RunStep
<1>3. ASSUME NEW w \in Workers, UpdateStepW(w)
      PROVE  WTypeOK'
  BY <1>3, SnapshotKeepsType, InspectKeepsType, UpdateWriteKeepsType DEF UpdateStepW
<1>4. ASSUME NEW w \in Workers, NEW t \in Tasks, NEW s \in PostStates,
             NEW c \in KnownCids(t),
             WStartTaskHandler(w, [task |-> t, rec |-> [state |-> s, cid |-> c]])
      PROVE  WTypeOK'
  BY <1>4, SentType, PostKeepsType
<1> QED BY <1>1, <1>2, <1>3, <1>4, StopLookupKeepsType, StopEnqueueKeepsType,
           ExitKeepsType DEF WNext, WNextLocal

(* The worker's variables keep their types, and each goroutine between two *)
(* calls the entry and the record it works on, for every number of tasks,  *)
(* workers and containers and any Docker faults.                           *)
THEOREM WTypeCorrect == WSpec => []WTypeOK
<1>1. WInit => WTypeOK
  BY InitType
<1>2. WTypeOK /\ [WNext]_wvars => WTypeOK'
  BY NextType
<1> QED BY <1>1, <1>2, PTL DEF WSpec

-----------------------------------------------------------------------------
(* RunTask never works on a task the store has as Completed: the check at  *)
(* the start stays good, because no other goroutine completes a task.      *)
Busy ==
  \A w \in Workers :
    run[w].pc # "idle" => wDb[w][run[w].ent.task].state # Completed

(* A call to Docker: the goroutine of w keeps its entry or gives up.       *)
CallStep(w) ==
  /\ run[w].pc # "idle"
  /\ UNCHANGED <<wDb, wQueue, upd, stop>>
  /\ DOMAIN run' = Workers
  /\ run'[w].pc # "idle" => run'[w].ent = run[w].ent
  /\ \A v \in Workers \ {w} : run'[v] = run[v]

LEMMA CallsAreCalls ==
  ASSUME NEW w \in Workers, WTypeOK,
         ContainerStop(w) \/ ContainerRemove(w) \/ CreateFails(w)
           \/ \E c \in Cids : Run(w, c)
  PROVE  CallStep(w)
<1>1. ASSUME NEW r, run[w].pc # "idle", r.pc # "idle" => r.ent = run[w].ent,
             run' = [run EXCEPT ![w] = r], UNCHANGED <<wDb, wQueue, upd, stop>>
      PROVE  CallStep(w)
  BY <1>1 DEF CallStep, WTypeOK
<1>2. run[w].pc # "idle" => (CallFailed(w).pc # "idle" => CallFailed(w).ent = run[w].ent)
  BY CallFailedType
<1>3. \A pc : RunAt(w, pc).ent = run[w].ent
  BY DEF RunAt
<1>4. CASE ContainerStop(w)
  BY <1>1, <1>2, <1>3, <1>4 DEF ContainerStop
<1>5. CASE ContainerRemove(w)
  BY <1>1, <1>2, <1>3, <1>5 DEF ContainerRemove
<1>6. CASE CreateFails(w)
  BY <1>1, <1>2, <1>6 DEF CreateFails
<1>7. ASSUME NEW c \in Cids, Run(w, c)
      PROVE  CallStep(w)
  BY <1>1, <1>2, <1>7, RunEffect
<1> QED BY <1>4, <1>5, <1>6, <1>7

(* No edge of the state machine leaves Completed.                          *)
LEMMA CompletedHasNoEdge ==
  ASSUME NEW s
  PROVE  ~ IsValidTransition(Completed, s)
  BY DEF IsValidTransition, machine, State, Pending, Scheduled, Running, Completed, Failed

LEMMA RefreshedState ==
  ASSUME NEW w \in Workers
  PROVE  Refreshed(w).state = Completed => Refreshed(w) = wDb[w][upd[w].task]
  BY DEF Refreshed, Running, Failed, Completed

LEMMA RefreshedKeeps ==
  ASSUME NEW w \in Workers, wDb[w][upd[w].task].state = Completed
  PROVE  Refreshed(w) = wDb[w][upd[w].task]
  BY DEF Refreshed, Running, Failed, Completed

LEMMA BusyKept ==
  ASSUME WTypeOK, Busy, [WNext]_wvars
  PROVE  Busy'
<1>1. CASE UNCHANGED <<wDb, run>>
  BY <1>1 DEF Busy
<1>2. ASSUME NEW w \in Workers, CallStep(w)
      PROVE  Busy'
  BY <1>2 DEF Busy, CallStep
<1>3. ASSUME NEW w \in Workers, RunTask(w)
      PROVE  Busy'
  <2>1. Begun(w).pc # "idle" => Persisted(w, Taken(w)).state # Completed
    BY CompletedHasNoEdge DEF Begun, RunIdle
  <2>2. run'[w] = Begun(w) /\ \A v \in Workers \ {w} : run'[v] = run[v]
    <3>1. run' = [run EXCEPT ![w] = Begun(w)]
      BY <1>3, RunTaskEffect
    <3> QED BY <3>1 DEF WTypeOK
  <2>3. run'[w].pc # "idle" => wDb'[w][run'[w].ent.task].state # Completed
    BY <1>3, <2>1, <2>2, RunTaskEffect
  <2>4. ASSUME NEW v \in Workers, v # w, run[v].pc # "idle"
        PROVE  wDb'[v][run[v].ent.task] = wDb[v][run[v].ent.task]
    BY <1>3, <2>4, RunTaskEffect, BusyHolds
  <2> QED BY <2>2, <2>3, <2>4 DEF Busy
<1>4. ASSUME NEW w \in Workers, Upsert(w)
      PROVE  Busy'
  <2>1. run'[w].pc = "idle" /\ \A v \in Workers \ {w} : run'[v] = run[v]
    <3>1. run' = [run EXCEPT ![w] = RunIdle]
      BY <1>4, UpsertEffect
    <3> QED BY <3>1 DEF WTypeOK, RunIdle
  <2>2. ASSUME NEW v \in Workers, v # w, run[v].pc # "idle"
        PROVE  wDb'[v][run[v].ent.task] = wDb[v][run[v].ent.task]
    BY <1>4, <2>2, UpsertEffect, BusyHolds
  <2> QED BY <2>1, <2>2 DEF Busy
<1>5. ASSUME NEW w \in Workers, UpdateWrite(w)
      PROVE  Busy'
  <2>1. run' = run
    BY <1>5, UpdateWriteEffect
  <2>2. ASSUME NEW v \in Workers, run[v].pc # "idle"
        PROVE  wDb'[v][run[v].ent.task].state # Completed
    <3>1. run[v].ent.task \in Tasks /\ wDb[v][run[v].ent.task].state # Completed
      BY <2>2, BusyHolds DEF Busy
    <3> QED BY <1>5, <3>1, UpdateWriteEffect, RefreshedState
  <2> QED BY <2>1, <2>2 DEF Busy
<1> QED BY <1>1, <1>2, <1>3, <1>4, <1>5, CallsAreCalls
     DEF WNext, WNextLocal, RunStep, UpdateStepW, WStartTaskHandler, WStopLookup,
         WStopEnqueue, UpdateSnapshot, Inspect, ContainerExit, wvars

(* A record that is Completed survives each step.                          *)
LEMMA CompletedKept ==
  ASSUME WTypeOK, Busy, [WNext]_wvars, NEW v \in Workers, NEW u \in Tasks,
         wDb[v][u] # None, wDb[v][u].state = Completed
  PROVE  wDb'[v][u] = wDb[v][u]
<1>1. ASSUME NEW w \in Workers, RunTask(w)
      PROVE  wDb'[v][u] = wDb[v][u]
  BY <1>1, RunTaskEffect DEF Persisted
<1>2. ASSUME NEW w \in Workers, Upsert(w)
      PROVE  wDb'[v][u] = wDb[v][u]
  <2>1. wDb[w][run[w].ent.task].state # Completed
    BY <1>2, UpsertEffect DEF Busy
  <2> QED BY <1>2, <2>1, UpsertEffect
<1>3. ASSUME NEW w \in Workers, UpdateWrite(w)
      PROVE  wDb'[v][u] = wDb[v][u]
  BY <1>3, UpdateWriteEffect, RefreshedKeeps
<1>4. ASSUME NEW w \in Workers, CallStep(w)
      PROVE  wDb'[v][u] = wDb[v][u]
  BY <1>4 DEF CallStep
<1> QED BY <1>1, <1>2, <1>3, <1>4, CallsAreCalls
     DEF WNext, WNextLocal, RunStep, UpdateStepW, WStartTaskHandler, WStopLookup,
         WStopEnqueue, UpdateSnapshot, Inspect, ContainerExit, wvars

(* Completed is terminal on a worker: neither an entry that was already    *)
(* queued nor an updateTasks pass that began earlier writes over it.       *)
THEOREM CompletedStays == WSpec => CompletedIsTerminal
<1> DEFINE A == \A w \in Workers, t \in Tasks :
       /\ wDb[w][t] # None
       /\ wDb[w][t].state = Completed
       => wDb'[w][t] = wDb[w][t]
<1>1. WInit => WTypeOK /\ Busy
  BY InitType DEF WInit, RunIdle, Busy
<1>2. WTypeOK /\ Busy /\ [WNext]_wvars => WTypeOK' /\ Busy'
  BY NextType, BusyKept
<1>3. WTypeOK /\ Busy /\ [WNext]_wvars => [A]_wvars
  BY CompletedKept
<1>4. WSpec => [][A]_wvars
  <2> HIDE DEF A
  <2> QED BY <1>1, <1>2, <1>3, PTL DEF WSpec
<1> QED BY <1>4 DEF CompletedIsTerminal

-----------------------------------------------------------------------------
(* A container id, wherever it is kept, is of a container made for the     *)
(* task it is kept with: that is why a stop sent with a stale id may miss, *)
(* but never hits the container of another task.                           *)
OwnedBy(c, t) == c # None => docker[c].task = t

FreshIds == \A c \in Cids : docker[c].st = "unused" => docker[c].task = None

DbOwned ==
  \A w \in Workers, t \in Tasks : wDb[w][t] # None => OwnedBy(wDb[w][t].cid, t)

QueueOwned ==
  \A w \in Workers : \A i \in 1..Len(wQueue[w]) :
    OwnedBy(wQueue[w][i].rec.cid, wQueue[w][i].task)

StopOwned ==
  \A w \in Workers : stop[w] # None => OwnedBy(stop[w].rec.cid, stop[w].task)

RunOwned ==
  \A w \in Workers :
    run[w].pc # "idle" => OwnedBy(run[w].ent.rec.cid, run[w].ent.task)

(* What StartTask and StopTask know of Docker between two calls.           *)
RunStage ==
  \A w \in Workers :
    /\ run[w].pc = "started" => Exists(w, run[w].cid)
                                /\ docker[run[w].cid].task = run[w].ent.task
    /\ run[w].pc = "remove" => Exists(w, run[w].ent.rec.cid)
    /\ run[w].pc = "run" => run[w].ent.rec.state # Completed

Ownership == FreshIds /\ DbOwned /\ QueueOwned /\ StopOwned /\ RunOwned /\ RunStage

(* A record that says Running has its container until RunTask, working on  *)
(* the task, has removed it.                                               *)
Replacing(w, t) ==
  run[w].pc \in {"run", "started", "fail", "completed"} /\ run[w].ent.task = t

Backed ==
  \A w \in Workers, t \in Tasks :
    wDb[w][t] # None /\ wDb[w][t].state = Running /\ ~ Replacing(w, t)
    => Exists(w, wDb[w][t].cid)

(* Nothing the worker is asked to do arrives as Running.                   *)
NoneSentRunning ==
  /\ \A w \in Workers : \A i \in 1..Len(wQueue[w]) : wQueue[w][i].rec.state # Running
  /\ \A w \in Workers : stop[w] # None => stop[w].rec.state # Running

(* A task with a name has no container its worker has never seen, and none *)
(* once it is stopped.                                                     *)
Cleared ==
  /\ \A w \in Workers, t \in Tasks : wDb[w][t] = None => ContainersOf(w, t) = {}
  /\ \A w \in Workers :
       run[w].pc = "completed" /\ run[w].ent.task \in Named
       => ContainersOf(w, run[w].ent.task) = {}

(* Exists in the next state, of a container id taken from either state.    *)
ExistsNext(w, c) == c # None /\ docker'[c].st \in Live /\ docker'[c].node = w

(* A container keeps its task for good.                                    *)
TasksKept == \A c \in Cids : docker[c].task # None => docker'[c].task = docker[c].task

(* Containers other than those in S go on existing where they are.         *)
KeptBut(S) == \A v \in Workers, c \in Cids \ S : Exists(v, c) => ExistsNext(v, c)

(* What each call does to the containers.                                  *)
LEMMA MoveKeeps ==
  ASSUME NEW c \in Cids, NEW st \in Live \cup {"removed"}, WTypeOK,
         docker[c].st # "unused", docker' = Moved(c, st)
  PROVE  /\ TasksKept
         /\ FreshIds => FreshIds'
         /\ KeptBut(IF st = "removed" THEN {c} ELSE {})
         /\ \A d \in Cids : docker'[d].task = docker[d].task /\ docker'[d].node = docker[d].node
         /\ \A d \in Cids \ {c} : docker'[d] = docker[d]
         /\ docker'[c].st = st
<1>1. \A d \in Cids : /\ docker'[d].task = docker[d].task
                      /\ docker'[d].node = docker[d].node
                      /\ docker'[d].st = IF d = c THEN st ELSE docker[d].st
  BY MovedType
<1>2. st # "unused"
  BY DEF Live
<1>3. FreshIds => FreshIds'
  BY <1>1, <1>2 DEF FreshIds
<1>4. KeptBut(IF st = "removed" THEN {c} ELSE {})
  BY <1>1, <1>2 DEF KeptBut, Exists, ExistsNext, Live
<1>5. \A d \in Cids \ {c} : docker'[d] = docker[d]
  BY DEF Moved, WTypeOK
<1> QED BY <1>1, <1>3, <1>4, <1>5 DEF TasksKept

LEMMA MakeKeeps ==
  ASSUME NEW w \in Workers, NEW c \in Cids, NEW st \in {"running", "created"}, WTypeOK,
         FreshIds, run[w].pc # "idle", docker[c].st = "unused", docker' = Made(w, c, st)
  PROVE  TasksKept /\ FreshIds' /\ KeptBut({}) /\ ExistsNext(w, c)
         /\ docker'[c].task = run[w].ent.task
<1>1. \A d \in Cids : docker'[d] =
         IF d = c THEN [st |-> st, task |-> run[w].ent.task, node |-> w] ELSE docker[d]
  BY DEF Made, WTypeOK
<1>2. c # None
  BY WorkerAssumption
<1>3. ExistsNext(w, c) /\ docker'[c].task = run[w].ent.task
  BY <1>1, <1>2 DEF Exists, ExistsNext, Live
<1>4. TasksKept /\ FreshIds'
  <2>1. docker[c].task = None
    BY DEF FreshIds
  <2>2. TasksKept
    BY <1>1, <2>1 DEF TasksKept
  <2>3. docker'[c].st # "unused"
    BY <1>1
  <2>4. ASSUME NEW d \in Cids, docker'[d].st = "unused"
        PROVE  docker'[d].task = None
    BY <1>1, <2>3, <2>4 DEF FreshIds
  <2> QED BY <2>2, <2>4 DEF FreshIds
<1>5. KeptBut({})
  BY <1>1 DEF KeptBut, Exists, ExistsNext, Live
<1> QED BY <1>3, <1>4, <1>5

LEMMA SameKeeps ==
  ASSUME docker' = docker
  PROVE  TasksKept /\ (FreshIds => FreshIds') /\ KeptBut({})
  BY DEF TasksKept, FreshIds, KeptBut, Exists, ExistsNext

(* No step but ContainerRemove takes a container away.                     *)
LEMMA DockerStep ==
  ASSUME WTypeOK, Ownership, [WNext]_wvars
  PROVE  /\ TasksKept
         /\ FreshIds'
         /\ KeptBut({}) \/ \E w \in Workers : ContainerRemove(w)
<1> USE DEF Ownership
<1>1. CASE docker' = docker
  BY <1>1, SameKeeps
<1>2. ASSUME NEW w \in Workers, ContainerStop(w), docker' # docker
      PROVE  TasksKept /\ FreshIds' /\ KeptBut({})
  <2>1. PICK c \in Cids : Exists(w, c) /\ docker' = Moved(c, "exited")
    BY <1>2, BusyHolds DEF ContainerStop, Exists, ExistsNext
  <2>2. docker[c].st # "unused" /\ "exited" \in Live \cup {"removed"}
    BY <2>1 DEF Exists, ExistsNext, Live
  <2> QED BY <2>1, <2>2, MoveKeeps
<1>3. ASSUME NEW w \in Workers, ContainerRemove(w), docker' # docker
      PROVE  TasksKept /\ FreshIds'
  <2>1. PICK c \in Cids : c = run[w].ent.rec.cid /\ docker' = Moved(c, "removed")
    BY <1>3 DEF ContainerRemove, WTypeOK, RunType
  <2>2. docker[c].st # "unused"
    BY <1>3, <2>1 DEF ContainerRemove, RunStage, Exists, ExistsNext, Live
  <2> QED BY <2>1, <2>2, MoveKeeps
<1>4. ASSUME NEW w \in Workers, NEW c \in Cids, Run(w, c)
      PROVE  TasksKept /\ FreshIds' /\ KeptBut({})
  <2>1. PICK st \in {"running", "created"} : docker' = Made(w, c, st)
    BY <1>4, RunEffect
  <2>2. run[w].pc # "idle" /\ docker[c].st = "unused"
    BY <1>4, RunEffect
  <2> QED BY <2>1, <2>2, MakeKeeps
<1>5. ASSUME NEW c \in Cids, ContainerExit(c)
      PROVE  TasksKept /\ FreshIds' /\ KeptBut({})
  <2>1. docker[c].st # "unused" /\ docker' = Moved(c, "exited")
        /\ "exited" \in Live \cup {"removed"}
    BY <1>5 DEF ContainerExit, Live
  <2> QED BY <2>1, MoveKeeps
<1> QED BY <1>1, <1>2, <1>3, <1>4, <1>5
     DEF WNext, WNextLocal, RunStep, UpdateStepW, WStartTaskHandler, WStopLookup,
         WStopEnqueue, UpdateSnapshot, Inspect, RunTask, CreateFails, Upsert,
         UpdateWrite, wvars

(* An owned id stays owned.                                                *)
OwnedNext(c, t) == c # None => docker'[c].task = t

LEMMA OwnedStill ==
  ASSUME TasksKept, NEW c \in Cids \cup {None}, NEW t \in Tasks, OwnedBy(c, t)
  PROVE  OwnedNext(c, t)
  BY WorkerAssumption DEF TasksKept, OwnedBy, OwnedNext

(* The handlers and RunTask move owned ids around.                         *)
LEMMA QueueOwnedKept ==
  ASSUME WTypeOK, Ownership, [WNext]_wvars, TasksKept
  PROVE  QueueOwned'
<1> SUFFICES ASSUME NEW v \in Workers, NEW i \in 1..Len(wQueue'[v])
             PROVE  OwnedNext(wQueue'[v][i].rec.cid, wQueue'[v][i].task)
  BY DEF QueueOwned, OwnedBy, OwnedNext
<1>1. ASSUME NEW j \in 1..Len(wQueue[v])
      PROVE  OwnedNext(wQueue[v][j].rec.cid, wQueue[v][j].task)
  <2>1. wQueue[v][j] \in Entry
    BY DEF WTypeOK
  <2>2. wQueue[v][j].task \in Tasks /\ wQueue[v][j].rec.cid \in Cids \cup {None}
    BY <2>1 DEF Entry, WRec
  <2>3. OwnedBy(wQueue[v][j].rec.cid, wQueue[v][j].task)
    BY DEF Ownership, QueueOwned
  <2> QED BY <2>2, <2>3, OwnedStill
<1>2. CASE wQueue' = wQueue
  BY <1>1, <1>2
<1>3. ASSUME NEW w \in Workers, NEW ent \in Entry, OwnedBy(ent.rec.cid, ent.task),
             wQueue' = [wQueue EXCEPT ![w] = Append(wQueue[w], ent)]
      PROVE  OwnedNext(wQueue'[v][i].rec.cid, wQueue'[v][i].task)
  <2>1. ent.task \in Tasks /\ ent.rec.cid \in Cids \cup {None}
    BY DEF Entry, WRec
  <2>2. OwnedNext(ent.rec.cid, ent.task)
    BY <1>3, <2>1, OwnedStill
  <2>3. wQueue[v] \in Seq(Entry) /\ wQueue'[v] \in {wQueue[v], Append(wQueue[v], ent)}
    BY <1>3 DEF WTypeOK
  <2>4. (i \in 1..Len(wQueue[v]) /\ wQueue'[v][i] = wQueue[v][i]) \/ wQueue'[v][i] = ent
    BY <2>3
  <2> QED BY <1>1, <2>2, <2>4
<1>4. ASSUME NEW w \in Workers, NEW t \in Tasks, NEW s \in PostStates,
             NEW c \in KnownCids(t),
             WStartTaskHandler(w, [task |-> t, rec |-> [state |-> s, cid |-> c]])
      PROVE  OwnedNext(wQueue'[v][i].rec.cid, wQueue'[v][i].task)
  <2>1. PICK ent \in Entry : ent = [task |-> t, rec |-> [state |-> s, cid |-> c]]
    BY SentType
  <2>2. OwnedBy(ent.rec.cid, ent.task)
    BY <2>1 DEF KnownCids, OwnedBy
  <2>3. wQueue' = [wQueue EXCEPT ![w] = Append(wQueue[w], ent)]
    BY <1>4, <2>1 DEF WStartTaskHandler, WTypeOK
  <2> QED BY <1>3, <2>2, <2>3
<1>5. ASSUME NEW w \in Workers, WStopEnqueue(w)
      PROVE  OwnedNext(wQueue'[v][i].rec.cid, wQueue'[v][i].task)
  <2>1. PICK ent \in Entry : ent = stop[w]
    BY <1>5 DEF WStopEnqueue, WTypeOK
  <2>2. OwnedBy(ent.rec.cid, ent.task)
    BY <1>5, <2>1 DEF WStopEnqueue, Ownership, StopOwned
  <2>3. wQueue' = [wQueue EXCEPT ![w] = Append(wQueue[w], ent)]
    BY <1>5, <2>1 DEF WStopEnqueue, WTypeOK
  <2> QED BY <1>3, <2>2, <2>3
<1>6. ASSUME NEW w \in Workers, RunTask(w)
      PROVE  OwnedNext(wQueue'[v][i].rec.cid, wQueue'[v][i].task)
  <2>1. wQueue' = [wQueue EXCEPT ![w] = Tail(wQueue[w])] /\ wQueue[w] # <<>>
    BY <1>6, RunTaskEffect
  <2>2. /\ wQueue[v] \in Seq(Entry)
        /\ wQueue'[v] = wQueue[v] \/ (wQueue'[v] = Tail(wQueue[v]) /\ wQueue[v] # <<>>)
    BY <2>1 DEF WTypeOK
  <2>3. \E j \in 1..Len(wQueue[v]) : wQueue'[v][i] = wQueue[v][j]
    <3>1. CASE wQueue'[v] = wQueue[v]
      BY <3>1
    <3>2. CASE wQueue'[v] = Tail(wQueue[v]) /\ wQueue[v] # <<>>
      <4>1. i + 1 \in 1..Len(wQueue[v]) /\ wQueue'[v][i] = wQueue[v][i + 1]
        BY <2>2, <3>2
      <4> QED BY <4>1
    <3> QED BY <2>2, <3>1, <3>2
  <2> QED BY <1>1, <2>3
<1> QED BY <1>2, <1>4, <1>5, <1>6
     DEF WNext, WNextLocal, RunStep, UpdateStepW, ContainerStop, ContainerRemove, Run,
         CreateFails, Upsert, UpdateSnapshot, Inspect, UpdateWrite, WStopLookup,
         ContainerExit, wvars

LEMMA StopOwnedKept ==
  ASSUME WTypeOK, Ownership, [WNext]_wvars, TasksKept
  PROVE  StopOwned'
<1> SUFFICES ASSUME NEW v \in Workers, stop'[v] # None
             PROVE  OwnedNext(stop'[v].rec.cid, stop'[v].task)
  BY DEF StopOwned, OwnedBy, OwnedNext
<1>1. CASE stop'[v] = stop[v]
  <2>1. stop[v] \in Entry /\ OwnedBy(stop[v].rec.cid, stop[v].task)
    BY <1>1 DEF WTypeOK, Ownership, StopOwned
  <2>2. stop[v].task \in Tasks /\ stop[v].rec.cid \in Cids \cup {None}
    BY <2>1 DEF Entry, WRec
  <2> QED BY <1>1, <2>1, <2>2, OwnedStill
<1>2. ASSUME NEW w \in Workers, NEW t \in Tasks, WStopLookup(w, t), stop'[v] # stop[v]
      PROVE  OwnedNext(stop'[v].rec.cid, stop'[v].task)
  <2>1. wDb[w][t] \in WRec /\ OwnedBy(wDb[w][t].cid, t)
    BY <1>2 DEF WStopLookup, WTypeOK, Ownership, DbOwned
  <2>2. OwnedNext(wDb[w][t].cid, t)
    BY <2>1, OwnedStill DEF WRec
  <2>3. stop'[v] = [task |-> t, rec |-> [state |-> Completed, cid |-> wDb[w][t].cid]]
    BY <1>2 DEF WStopLookup, WTypeOK
  <2> QED BY <2>2, <2>3
<1>3. ASSUME NEW w \in Workers, WStopEnqueue(w), stop'[v] # stop[v]
      PROVE  FALSE
  BY <1>3 DEF WStopEnqueue, WTypeOK
<1> QED BY <1>1, <1>2, <1>3
     DEF WNext, WNextLocal, RunStep, UpdateStepW, ContainerStop, ContainerRemove, Run,
         CreateFails, Upsert, UpdateSnapshot, Inspect, UpdateWrite, WStartTaskHandler,
         RunTask, ContainerExit, wvars

(* Only its own RunTasks moves the goroutine of a worker.                  *)
LEMMA OwnStep ==
  ASSUME WTypeOK, [WNext]_wvars, NEW v \in Workers, run'[v] # run[v]
  PROVE  RunStep(v)
<1>1. ASSUME NEW w \in Workers, w # v, RunStep(w)
      PROVE  FALSE
  <2>1. \E r : run' = [run EXCEPT ![w] = r]
    BY <1>1 DEF RunStep, RunTask, ContainerStop, ContainerRemove, CreateFails, Run, Upsert
  <2> QED BY <1>1, <2>1 DEF WTypeOK
<1> QED BY <1>1
     DEF WNext, WNextLocal, UpdateStepW, UpdateSnapshot, Inspect, UpdateWrite,
         WStartTaskHandler, WStopLookup, WStopEnqueue, ContainerExit, wvars

(* RunTask's new place, call by call.                                      *)
LEMMA OwnMove ==
  ASSUME WTypeOK, NEW v \in Workers, RunStep(v)
  PROVE  \/ RunTask(v) /\ run'[v] = Begun(v)
         \/ Upsert(v) /\ run'[v] = RunIdle
         \/ /\ ContainerStop(v) \/ ContainerRemove(v) \/ CreateFails(v)
               \/ \E c \in Cids : Run(v, c)
            /\ CallStep(v)
<1>1. CASE RunTask(v)
  <2>1. run' = [run EXCEPT ![v] = Begun(v)]
    BY <1>1, RunTaskEffect
  <2> QED BY <1>1, <2>1 DEF WTypeOK
<1>2. CASE Upsert(v)
  <2>1. run' = [run EXCEPT ![v] = RunIdle]
    BY <1>2, UpsertEffect
  <2> QED BY <1>2, <2>1 DEF WTypeOK
<1> QED BY <1>1, <1>2, CallsAreCalls DEF RunStep

LEMMA DbOwnedKept ==
  ASSUME WTypeOK, Ownership, [WNext]_wvars, TasksKept
  PROVE  DbOwned'
<1> SUFFICES ASSUME NEW v \in Workers, NEW t \in Tasks, wDb'[v][t] # None
             PROVE  OwnedNext(wDb'[v][t].cid, t)
  BY DEF DbOwned, OwnedBy, OwnedNext
<1>1. ASSUME wDb[v][t] # None
      PROVE  OwnedNext(wDb[v][t].cid, t)
  <2>1. wDb[v][t] \in WRec /\ OwnedBy(wDb[v][t].cid, t)
    BY <1>1 DEF WTypeOK, Ownership, DbOwned
  <2> QED BY <2>1, OwnedStill DEF WRec
<1>2. CASE wDb'[v][t] = wDb[v][t]
  BY <1>1, <1>2
<1>3. ASSUME NEW w \in Workers, RunTask(w), wDb'[v][t] # wDb[v][t]
      PROVE  OwnedNext(wDb'[v][t].cid, t)
  <2>1. v = w /\ t = Taken(w).task /\ wDb'[v][t] = Persisted(w, Taken(w))
    BY <1>3, RunTaskEffect
  <2>2. wDb'[v][t] = Taken(w).rec
    BY <1>3, <2>1 DEF Persisted
  <2>3. wQueue[w] \in Seq(Entry) /\ wQueue[w] # <<>> /\ Taken(w) \in Entry
    BY <1>3, RunTaskEffect
  <2>4. 1 \in 1..Len(wQueue[w]) /\ wQueue[w][1] = Taken(w)
    BY <2>3 DEF Taken
  <2>5. OwnedBy(Taken(w).rec.cid, t)
    BY <2>1, <2>4 DEF Ownership, QueueOwned
  <2>6. Taken(w).rec.cid \in Cids \cup {None}
    BY <2>3 DEF Entry, WRec
  <2> QED BY <2>2, <2>5, <2>6, OwnedStill
<1>4. ASSUME NEW w \in Workers, Upsert(w), wDb'[v][t] # wDb[v][t]
      PROVE  OwnedNext(wDb'[v][t].cid, t)
  <2>1. v = w /\ t = run[w].ent.task /\ wDb'[v][t] = Upserted(w)
    BY <1>4, UpsertEffect
  <2>2. run[w].pc \in {"started", "fail", "completed"} /\ docker' = docker
    BY <1>4, UpsertEffect
  <2>3. CASE run[w].pc = "started"
    <3>1. Upserted(w).cid = run[w].cid /\ docker[run[w].cid].task = t
      BY <2>1, <2>3 DEF Upserted, Ownership, RunStage
    <3> QED BY <2>1, <2>2, <3>1 DEF OwnedNext
  <2>4. CASE run[w].pc # "started"
    <3>1. wDb[v][t] # None
      BY <2>1, <2>2, BusyHolds, WorkerAssumption
    <3>2. Upserted(w).cid = wDb[v][t].cid
      BY <2>1, <2>2, <2>4 DEF Upserted
    <3> QED BY <1>1, <2>1, <3>1, <3>2
  <2> QED BY <2>3, <2>4
<1>5. ASSUME NEW w \in Workers, UpdateWrite(w), wDb'[v][t] # wDb[v][t]
      PROVE  OwnedNext(wDb'[v][t].cid, t)
  <2>1. v = w /\ t = upd[w].task /\ wDb'[v][t] = Refreshed(w) /\ wDb[v][t] # None
    BY <1>5, UpdateWriteEffect, WorkerAssumption
  <2>2. Refreshed(w).cid = wDb[v][t].cid
    BY <2>1 DEF Refreshed
  <2> QED BY <1>1, <2>1, <2>2
<1> QED BY <1>2, <1>3, <1>4, <1>5
     DEF WNext, WNextLocal, RunStep, UpdateStepW, ContainerStop, ContainerRemove, Run,
         CreateFails, UpdateSnapshot, Inspect, WStartTaskHandler, WStopLookup,
         WStopEnqueue, ContainerExit, wvars

LEMMA RunOwnedKept ==
  ASSUME WTypeOK, Ownership, [WNext]_wvars, TasksKept
  PROVE  RunOwned'
<1> SUFFICES ASSUME NEW v \in Workers, run'[v].pc # "idle"
             PROVE  OwnedNext(run'[v].ent.rec.cid, run'[v].ent.task)
  BY DEF RunOwned, OwnedBy, OwnedNext
<1>1. ASSUME run[v].pc # "idle"
      PROVE  OwnedNext(run[v].ent.rec.cid, run[v].ent.task)
  <2>1. OwnedBy(run[v].ent.rec.cid, run[v].ent.task)
    BY <1>1 DEF Ownership, RunOwned
  <2> QED BY <1>1, <2>1, BusyHolds, OwnedStill
<1>2. CASE run'[v] = run[v]
  BY <1>1, <1>2
<1>3. CASE CallStep(v)
  BY <1>1, <1>3 DEF CallStep
<1>4. CASE RunTask(v) /\ run'[v] = Begun(v)
  <2>1. wQueue[v] \in Seq(Entry) /\ wQueue[v] # <<>> /\ Taken(v) \in Entry
    BY <1>4, RunTaskEffect
  <2>2. 1 \in 1..Len(wQueue[v]) /\ wQueue[v][1] = Taken(v)
    BY <2>1 DEF Taken
  <2>3. OwnedBy(Taken(v).rec.cid, Taken(v).task)
    BY <2>2 DEF Ownership, QueueOwned
  <2>4. Taken(v).rec.cid \in Cids \cup {None} /\ Taken(v).task \in Tasks
    BY <2>1 DEF Entry, WRec
  <2>5. run'[v].ent = Taken(v)
    BY <1>4, RunTaskEffect
  <2> QED BY <2>3, <2>4, <2>5, OwnedStill
<1>5. CASE run'[v] = RunIdle
  BY <1>5 DEF RunIdle
<1> QED BY <1>2, <1>3, <1>4, <1>5, OwnStep, OwnMove

(* A container is lost only to the ContainerRemove of its own worker.      *)
LEMMA ExistsKept ==
  ASSUME WTypeOK, Ownership, [WNext]_wvars, NEW v \in Workers, NEW d \in Cids, Exists(v, d)
  PROVE  ExistsNext(v, d) \/ (ContainerRemove(v) /\ d = run[v].ent.rec.cid)
<1>1. CASE KeptBut({})
  BY <1>1 DEF KeptBut
<1>2. ASSUME NEW w \in Workers, ContainerRemove(w)
      PROVE  ExistsNext(v, d) \/ (ContainerRemove(v) /\ d = run[v].ent.rec.cid)
  <2>1. CASE docker' = docker
    BY <2>1 DEF Exists, ExistsNext
  <2>2. CASE docker' # docker
    <3>1. PICK c \in Cids : c = run[w].ent.rec.cid /\ docker' = Moved(c, "removed")
      BY <1>2, <2>2 DEF ContainerRemove, WTypeOK, RunType
    <3>2. Exists(w, c)
      BY <1>2, <3>1 DEF ContainerRemove, Ownership, RunStage
    <3>3. CASE d = c
      BY <1>2, <3>1, <3>2, <3>3 DEF Exists, ExistsNext
    <3>4. CASE d # c
      <4>1. docker'[d] = docker[d]
        BY <3>1, <3>4 DEF Moved, WTypeOK
      <4> QED BY <4>1 DEF Exists, ExistsNext
    <3> QED BY <3>3, <3>4
  <2> QED BY <2>1, <2>2
<1> QED BY <1>1, <1>2, DockerStep

(* What a failed call leads to.                                            *)
LEMMA CallFailedPlace ==
  ASSUME NEW w \in Workers
  PROVE  \/ run[w].ent.rec.state = Completed /\ CallFailed(w).pc = "idle"
         \/ run[w].ent.rec.state # Completed /\ CallFailed(w).pc = "fail"
  BY DEF CallFailed, RunIdle, RunAt

(* The places a call leads to.                                             *)
LEMMA StopPlace ==
  ASSUME NEW w \in Workers, WTypeOK, ContainerStop(w)
  PROVE  \/ /\ run'[w].pc = "remove" /\ run'[w].ent = run[w].ent
            /\ Exists(w, run[w].ent.rec.cid)
         \/ run'[w].pc = "fail" /\ run'[w].ent = run[w].ent
         \/ run'[w].pc = "idle"
<1>1. run[w].pc # "idle"
  BY DEF ContainerStop
<1>2. CASE Exists(w, run[w].ent.rec.cid) /\ run' = [run EXCEPT ![w] = RunAt(w, "remove")]
  BY <1>2 DEF RunAt, WTypeOK
<1>3. CASE run' = [run EXCEPT ![w] = CallFailed(w)]
  <2>1. run'[w] = CallFailed(w)
    BY <1>3 DEF WTypeOK
  <2> QED BY <1>1, <2>1, CallFailedType
<1> QED BY <1>2, <1>3 DEF ContainerStop

LEMMA RemovePlace ==
  ASSUME NEW w \in Workers, WTypeOK, ContainerRemove(w)
  PROVE  /\ run[w].pc = "remove"
         /\ \/ run'[w].pc = "completed" /\ run[w].ent.rec.state = Completed
               /\ docker' = Moved(run[w].ent.rec.cid, "removed")
            \/ run'[w].pc = "run" /\ run[w].ent.rec.state # Completed
               /\ docker' = Moved(run[w].ent.rec.cid, "removed")
            \/ run'[w].pc \in {"fail", "idle"} /\ docker' = docker
         /\ run'[w].pc # "idle" => run'[w].ent = run[w].ent
<1> DEFINE pc == IF run[w].ent.rec.state = Completed THEN "completed" ELSE "run"
<1>1. run[w].pc = "remove"
  BY DEF ContainerRemove
<1>2. CASE /\ docker' = Moved(run[w].ent.rec.cid, "removed")
           /\ run' = [run EXCEPT ![w] = RunAt(w, pc)]
  <2>1. run'[w].pc = pc /\ run'[w].ent = run[w].ent
    BY <1>2 DEF RunAt, WTypeOK
  <2> QED BY <1>1, <1>2, <2>1
<1>3. CASE run' = [run EXCEPT ![w] = CallFailed(w)] /\ docker' = docker
  <2>1. run'[w] = CallFailed(w)
    BY <1>3 DEF WTypeOK
  <2> QED BY <1>1, <1>3, <2>1, CallFailedType
<1> QED BY <1>2, <1>3 DEF ContainerRemove

LEMMA CreatePlace ==
  ASSUME NEW w \in Workers, WTypeOK, Ownership,
         CreateFails(w) \/ \E c \in Cids : Run(w, c)
  PROVE  /\ run[w].pc = "run"
         /\ run'[w].ent = run[w].ent
         /\ \/ run'[w].pc = "fail"
            \/ /\ run'[w].pc = "started" /\ ExistsNext(w, run'[w].cid)
               /\ docker'[run'[w].cid].task = run[w].ent.task
<1>1. run[w].pc = "run"
  BY RunEffect DEF CreateFails
<1>2. run[w].ent.rec.state # Completed
  BY <1>1 DEF Ownership, RunStage
<1>3. CallFailed(w).pc = "fail" /\ CallFailed(w).ent = run[w].ent
  BY <1>1, <1>2, CallFailedPlace, CallFailedType
<1>4. ASSUME run' = [run EXCEPT ![w] = CallFailed(w)]
      PROVE  run'[w].pc = "fail" /\ run'[w].ent = run[w].ent
  BY <1>3, <1>4 DEF WTypeOK
<1>5. CASE CreateFails(w)
  BY <1>1, <1>4, <1>5 DEF CreateFails
<1>6. ASSUME NEW c \in Cids, Run(w, c)
      PROVE  /\ run'[w].ent = run[w].ent
             /\ \/ run'[w].pc = "fail"
                \/ /\ run'[w].pc = "started" /\ ExistsNext(w, run'[w].cid)
                   /\ docker'[run'[w].cid].task = run[w].ent.task
  <2>1. CASE run' = [run EXCEPT ![w] = CallFailed(w)]
    BY <1>4, <2>1
  <2>2. CASE /\ docker' = Made(w, c, "running")
             /\ run' = [run EXCEPT ![w] = [pc |-> "started", ent |-> run[w].ent, cid |-> c]]
    <3>1. run'[w].pc = "started" /\ run'[w].ent = run[w].ent /\ run'[w].cid = c
      BY <2>2 DEF WTypeOK
    <3>2. docker[c].st = "unused"
      BY <1>6, RunEffect
    <3>3. docker'[c] = [st |-> "running", task |-> run[w].ent.task, node |-> w] /\ c # None
      BY <2>2, WorkerAssumption DEF Made, WTypeOK
    <3> QED BY <3>1, <3>3 DEF Exists, ExistsNext, Live
  <2> QED BY <1>6, <2>1, <2>2, RunEffect
<1> QED BY <1>1, <1>5, <1>6

LEMMA RunStageKept ==
  ASSUME WTypeOK, WTypeOK', Ownership, [WNext]_wvars, TasksKept
  PROVE  RunStage'
<1> DEFINE Stage(v) ==
      /\ run'[v].pc = "started" => ExistsNext(v, run'[v].cid)
                                   /\ docker'[run'[v].cid].task = run'[v].ent.task
      /\ run'[v].pc = "remove" => ExistsNext(v, run'[v].ent.rec.cid)
      /\ run'[v].pc = "run" => run'[v].ent.rec.state # Completed
<1> SUFFICES ASSUME NEW v \in Workers
             PROVE  Stage(v)
  BY DEF RunStage, Exists, ExistsNext
<1>1. CASE run'[v] = run[v]
  <2>1. ~ ContainerRemove(v)
    BY <1>1, RemovePlace
  <2>2. ASSUME run[v].pc = "started"
        PROVE  ExistsNext(v, run[v].cid) /\ docker'[run[v].cid].task = run[v].ent.task
    <3>1. PICK c \in Cids : c = run[v].cid
      BY <2>2 DEF Ownership, RunStage, WTypeOK, RunType, Exists, ExistsNext
    <3>2. Exists(v, c) /\ docker[c].task = run[v].ent.task
      BY <2>2, <3>1 DEF Ownership, RunStage
    <3>3. ExistsNext(v, c)
      BY <2>1, <3>2, ExistsKept
    <3>4. docker[c].task # None
      BY <2>2, <3>2, BusyHolds, WorkerAssumption
    <3> QED BY <1>1, <3>1, <3>2, <3>3, <3>4 DEF TasksKept, Exists, ExistsNext
  <2>3. ASSUME run[v].pc = "remove"
        PROVE  ExistsNext(v, run[v].ent.rec.cid)
    <3>1. PICK c \in Cids : c = run[v].ent.rec.cid
      BY <2>3 DEF WTypeOK, RunType
    <3>2. Exists(v, c)
      BY <2>3, <3>1 DEF Ownership, RunStage
    <3>3. ExistsNext(v, c)
      BY <2>1, <3>2, ExistsKept
    <3> QED BY <1>1, <3>1, <3>3 DEF Exists, ExistsNext
  <2> QED BY <1>1, <2>2, <2>3 DEF Ownership, RunStage, Exists, ExistsNext
<1>2. CASE RunTask(v) /\ run'[v] = Begun(v)
  <2>1. Begun(v).pc \in {"stop", "run", "idle"}
    BY <1>2, RunTaskEffect
  <2>2. Begun(v).pc = "run" => Begun(v).ent.rec.state # Completed
    BY <1>2, RunTaskEffect DEF Begun, FirstCall, RunIdle, Entry, WRec, State, Completed,
                               Scheduled
  <2> QED BY <1>2, <2>1, <2>2
<1>3. CASE run'[v] = RunIdle
  BY <1>3 DEF RunIdle
<1>4. CASE ContainerStop(v)
  <2>1. CASE run'[v].pc = "remove" /\ run'[v].ent = run[v].ent
             /\ Exists(v, run[v].ent.rec.cid)
    <3>1. run[v].pc = "stop"
      BY <1>4 DEF ContainerStop
    <3>2. PICK c \in Cids : c = run[v].ent.rec.cid
      BY <2>1, <3>1, BusyHolds DEF Exists, ExistsNext
    <3>3. ExistsNext(v, c)
      BY <2>1, <3>1, <3>2, ExistsKept DEF ContainerRemove
    <3> QED BY <2>1, <3>2, <3>3 DEF Exists, ExistsNext
  <2> QED BY <1>4, <2>1, StopPlace
<1>5. CASE ContainerRemove(v)
  BY <1>5, RemovePlace
<1>6. CASE CreateFails(v) \/ \E c \in Cids : Run(v, c)
  BY <1>6, CreatePlace
<1> QED BY <1>1, <1>2, <1>3, <1>4, <1>5, <1>6, OwnStep, OwnMove

LEMMA OwnershipKept ==
  ASSUME WTypeOK, WTypeOK', Ownership, [WNext]_wvars
  PROVE  Ownership'
<1>1. TasksKept /\ FreshIds'
  BY DockerStep
<1> QED BY <1>1, DbOwnedKept, QueueOwnedKept, StopOwnedKept, RunOwnedKept, RunStageKept
     DEF Ownership

LEMMA InitOwnership == WInit => Ownership
  BY DEF WInit, Ownership, FreshIds, DbOwned, QueueOwned, StopOwned, RunOwned, RunStage,
         RunIdle

(* Nothing a worker is sent, queues or records names a container of        *)
(* another task.                                                           *)
THEOREM IdsAreOwned == WSpec => []Ownership
<1>1. WInit => WTypeOK /\ Ownership
  BY InitType, InitOwnership
<1>2. WTypeOK /\ Ownership /\ [WNext]_wvars => WTypeOK' /\ Ownership'
  BY NextType, OwnershipKept
<1> QED BY <1>1, <1>2, PTL DEF WSpec

-----------------------------------------------------------------------------
(* The manager's own writes are Scheduled and Completed; only a client can *)
(* submit a task as Running.                                               *)
NoRunningSent == Running \notin PostStates

LEMMA NoneSentKept ==
  ASSUME NoRunningSent, WTypeOK, NoneSentRunning, [WNext]_wvars
  PROVE  NoneSentRunning'
<1>1. \A v \in Workers : stop'[v] # None => stop'[v].rec.state # Running
  <2> SUFFICES ASSUME NEW v \in Workers, stop'[v] # None
               PROVE  stop'[v].rec.state # Running
    OBVIOUS
  <2>1. CASE stop'[v] = stop[v]
    BY <2>1 DEF NoneSentRunning
  <2>2. ASSUME NEW w \in Workers, NEW t \in Tasks, WStopLookup(w, t), stop'[v] # stop[v]
        PROVE  stop'[v].rec.state # Running
    <3>1. stop'[v] = [task |-> t, rec |-> [state |-> Completed, cid |-> wDb[w][t].cid]]
      BY <2>2 DEF WStopLookup, WTypeOK
    <3> QED BY <3>1 DEF Running, Completed
  <2>3. ASSUME NEW w \in Workers, WStopEnqueue(w), stop'[v] # stop[v]
        PROVE  FALSE
    BY <2>3 DEF WStopEnqueue, WTypeOK
  <2> QED BY <2>1, <2>2, <2>3
       DEF WNext, WNextLocal, RunStep, UpdateStepW, ContainerStop, ContainerRemove, Run,
           CreateFails, Upsert, UpdateSnapshot, Inspect, UpdateWrite, WStartTaskHandler,
           RunTask, ContainerExit, wvars
<1>2. ASSUME NEW v \in Workers, NEW i \in 1..Len(wQueue'[v])
      PROVE  wQueue'[v][i].rec.state # Running
  <2>1. \A j \in 1..Len(wQueue[v]) : wQueue[v][j].rec.state # Running
    BY DEF NoneSentRunning
  <2>2. CASE wQueue' = wQueue
    BY <2>1, <2>2
  <2>3. ASSUME NEW w \in Workers, NEW ent \in Entry, ent.rec.state # Running,
               wQueue' = [wQueue EXCEPT ![w] = Append(wQueue[w], ent)]
        PROVE  wQueue'[v][i].rec.state # Running
    <3>1. wQueue[v] \in Seq(Entry) /\ wQueue'[v] \in {wQueue[v], Append(wQueue[v], ent)}
      BY <2>3 DEF WTypeOK
    <3>2. (i \in 1..Len(wQueue[v]) /\ wQueue'[v][i] = wQueue[v][i]) \/ wQueue'[v][i] = ent
      BY <3>1
    <3> QED BY <2>1, <2>3, <3>2
  <2>4. ASSUME NEW w \in Workers, NEW t \in Tasks, NEW s \in PostStates,
               NEW c \in KnownCids(t),
               WStartTaskHandler(w, [task |-> t, rec |-> [state |-> s, cid |-> c]])
        PROVE  wQueue'[v][i].rec.state # Running
    <3>1. PICK ent \in Entry : ent = [task |-> t, rec |-> [state |-> s, cid |-> c]]
      BY SentType
    <3>2. ent.rec.state # Running
      BY <3>1 DEF NoRunningSent
    <3>3. wQueue' = [wQueue EXCEPT ![w] = Append(wQueue[w], ent)]
      BY <2>4, <3>1 DEF WStartTaskHandler, WTypeOK
    <3> QED BY <2>3, <3>2, <3>3
  <2>5. ASSUME NEW w \in Workers, WStopEnqueue(w)
        PROVE  wQueue'[v][i].rec.state # Running
    <3>1. PICK ent \in Entry : ent = stop[w]
      BY <2>5 DEF WStopEnqueue, WTypeOK
    <3>2. ent.rec.state # Running
      BY <2>5, <3>1 DEF WStopEnqueue, NoneSentRunning
    <3>3. wQueue' = [wQueue EXCEPT ![w] = Append(wQueue[w], ent)]
      BY <2>5, <3>1 DEF WStopEnqueue, WTypeOK
    <3> QED BY <2>3, <3>2, <3>3
  <2>6. ASSUME NEW w \in Workers, RunTask(w)
        PROVE  wQueue'[v][i].rec.state # Running
    <3>1. wQueue' = [wQueue EXCEPT ![w] = Tail(wQueue[w])] /\ wQueue[w] # <<>>
      BY <2>6, RunTaskEffect
    <3>2. /\ wQueue[v] \in Seq(Entry)
          /\ wQueue'[v] = wQueue[v] \/ (wQueue'[v] = Tail(wQueue[v]) /\ wQueue[v] # <<>>)
      BY <3>1 DEF WTypeOK
    <3>3. CASE wQueue'[v] = wQueue[v]
      BY <2>1, <3>3
    <3>4. CASE wQueue'[v] = Tail(wQueue[v]) /\ wQueue[v] # <<>>
      <4>1. i + 1 \in 1..Len(wQueue[v]) /\ wQueue'[v][i] = wQueue[v][i + 1]
        BY <3>2, <3>4
      <4> QED BY <2>1, <4>1
    <3> QED BY <3>2, <3>3, <3>4
  <2> QED BY <2>2, <2>4, <2>5, <2>6
       DEF WNext, WNextLocal, RunStep, UpdateStepW, ContainerStop, ContainerRemove, Run,
           CreateFails, Upsert, UpdateSnapshot, Inspect, UpdateWrite, WStopLookup,
           ContainerExit, wvars
<1> QED BY <1>1, <1>2 DEF NoneSentRunning

(* A goroutine that replaces a container keeps at it until Upsert.         *)
LEMMA ReplacingKept ==
  ASSUME WTypeOK, Ownership, [WNext]_wvars, NEW v \in Workers, NEW t \in Tasks,
         Replacing(v, t), ~ Upsert(v)
  PROVE  Replacing(v, t)'
<1>1. CASE run'[v] = run[v]
  BY <1>1 DEF Replacing
<1>2. CASE RunTask(v) \/ ContainerStop(v) \/ ContainerRemove(v)
  BY <1>2 DEF RunTask, ContainerStop, ContainerRemove, Replacing
<1>3. CASE CreateFails(v) \/ \E c \in Cids : Run(v, c)
  BY <1>3, CreatePlace DEF Replacing
<1> QED BY <1>1, <1>2, <1>3, OwnStep DEF RunStep

LEMMA BackedKept ==
  ASSUME WTypeOK, Ownership, NoneSentRunning, Backed, [WNext]_wvars
  PROVE  Backed'
<1> SUFFICES ASSUME NEW v \in Workers, NEW t \in Tasks, wDb'[v][t] # None,
                    wDb'[v][t].state = Running, ~ Replacing(v, t)'
             PROVE  ExistsNext(v, wDb'[v][t].cid)
  BY DEF Backed, Exists, ExistsNext
<1>1. ASSUME NEW w \in Workers, Upsert(w), wDb'[v][t] # wDb[v][t]
      PROVE  ExistsNext(v, wDb'[v][t].cid)
  <2>1. v = w /\ t = run[w].ent.task /\ wDb'[v][t] = Upserted(w) /\ docker' = docker
        /\ run[w].pc \in {"started", "fail", "completed"}
    BY <1>1, UpsertEffect
  <2>2. run[w].pc = "started"
    BY <2>1 DEF Upserted, Running, Failed, Completed
  <2>3. Upserted(w).cid = run[w].cid /\ Exists(w, run[w].cid)
    BY <2>2 DEF Upserted, Ownership, RunStage
  <2> QED BY <2>1, <2>3 DEF Exists, ExistsNext
<1>2. ASSUME NEW w \in Workers, RunTask(w), wDb'[v][t] # wDb[v][t]
      PROVE  FALSE
  <2>1. v = w /\ t = Taken(w).task /\ wDb'[v][t] = Persisted(w, Taken(w))
    BY <1>2, RunTaskEffect
  <2>2. wDb'[v][t] = Taken(w).rec
    BY <1>2, <2>1 DEF Persisted
  <2>3. wQueue[w] \in Seq(Entry) /\ wQueue[w] # <<>>
    BY <1>2, RunTaskEffect
  <2>4. 1 \in 1..Len(wQueue[w]) /\ wQueue[w][1] = Taken(w)
    BY <2>3 DEF Taken
  <2> QED BY <2>2, <2>4 DEF NoneSentRunning
<1>3. ASSUME NEW w \in Workers, UpdateWrite(w), wDb'[v][t] # wDb[v][t]
      PROVE  FALSE
  <2>1. wDb'[v][t] = Refreshed(w) /\ v = w /\ t = upd[w].task
    BY <1>3, UpdateWriteEffect
  <2> QED BY <1>3, <2>1 DEF Refreshed, Running, Failed
<1>4. CASE wDb'[v][t] = wDb[v][t]
  <2>1. CASE Replacing(v, t)
    <3>1. Upsert(v)
      BY <2>1, ReplacingKept
    <3>2. t = run[v].ent.task /\ wDb'[v][t] = Upserted(v) /\ docker' = docker
          /\ run[v].pc \in {"started", "fail", "completed"}
      BY <2>1, <3>1, UpsertEffect DEF Replacing
    <3>3. run[v].pc = "started"
      BY <3>2 DEF Upserted, Running, Failed, Completed
    <3>4. Upserted(v).cid = run[v].cid /\ Exists(v, run[v].cid)
      BY <3>3 DEF Upserted, Ownership, RunStage
    <3> QED BY <3>2, <3>4 DEF Exists, ExistsNext
  <2>2. CASE ~ Replacing(v, t)
    <3>1. PICK c \in Cids : c = wDb[v][t].cid /\ Exists(v, c)
      BY <1>4, <2>2 DEF Backed, WTypeOK, WRec, Exists
    <3>2. CASE ExistsNext(v, c)
      BY <1>4, <3>1, <3>2
    <3>3. CASE ContainerRemove(v) /\ c = run[v].ent.rec.cid /\ ~ ExistsNext(v, c)
      <4>1. docker' # docker
        BY <3>1, <3>3 DEF Exists, ExistsNext
      <4>2. run'[v].pc \in {"completed", "run"} /\ run'[v].ent = run[v].ent
            /\ run[v].pc = "remove"
        BY <3>3, <4>1, RemovePlace
      <4>3. docker[c].task = t
        BY <1>4, <3>1 DEF Ownership, DbOwned, OwnedBy, Exists
      <4>4. docker[c].task = run[v].ent.task
        BY <3>1, <3>3, <4>2 DEF Ownership, RunOwned, OwnedBy, Exists
      <4> QED BY <4>2, <4>3, <4>4 DEF Replacing
    <3> QED BY <3>1, <3>2, <3>3, ExistsKept
  <2> QED BY <2>1, <2>2
<1> QED BY <1>1, <1>2, <1>3, <1>4
     DEF WNext, WNextLocal, RunStep, UpdateStepW, ContainerStop, ContainerRemove, Run,
         CreateFails, UpdateSnapshot, Inspect, WStartTaskHandler, WStopLookup,
         WStopEnqueue, ContainerExit, wvars

(* A worker that is never sent a task as Running shows none as Running     *)
(* without a container, whatever calls fail and however updateTasks and    *)
(* RunTask interleave.                                                     *)
THEOREM RunningIsBacked ==
  ASSUME NoRunningSent
  PROVE  WSpec => []RunningHasContainer
<1> DEFINE IInv == WTypeOK /\ Ownership /\ NoneSentRunning /\ Backed
<1>1. WInit => IInv
  <2>1. WInit => NoneSentRunning /\ Backed
    BY DEF WInit, NoneSentRunning, Backed
  <2> QED BY <2>1, InitType, InitOwnership
<1>2. IInv /\ [WNext]_wvars => IInv'
  BY NextType, OwnershipKept, NoneSentKept, BackedKept
<1>3. IInv => RunningHasContainer
  BY DEF Backed, Replacing, RunningHasContainer
<1> QED BY <1>1, <1>2, <1>3, PTL DEF WSpec

-----------------------------------------------------------------------------
(* The containers of t on v in the next state.                             *)
ContainersNext(v, t) == {c \in Cids : ExistsNext(v, c) /\ docker'[c].task = t}

(* A container appears only when RunTask makes one for its task.           *)
LEMMA ContainersGrow ==
  ASSUME WTypeOK, Ownership, [WNext]_wvars
  PROVE  \/ \A v \in Workers, t \in Tasks : ContainersNext(v, t) \subseteq ContainersOf(v, t)
         \/ \E w \in Workers, c \in Cids :
              /\ Run(w, c)
              /\ \A v \in Workers, t \in Tasks :
                   ContainersNext(v, t) \subseteq
                     IF v = w /\ t = run[w].ent.task THEN ContainersOf(v, t) \cup {c}
                     ELSE ContainersOf(v, t)
<1> DEFINE Shrink == \A v \in Workers, t \in Tasks :
                       ContainersNext(v, t) \subseteq ContainersOf(v, t)
<1>1. ASSUME docker' = docker
      PROVE  Shrink
  BY <1>1 DEF ContainersNext, ContainersOf, Exists, ExistsNext
<1>2. ASSUME NEW c \in Cids, NEW st \in {"exited", "removed"}, docker[c].st \in Live,
             docker' = Moved(c, st)
      PROVE  Shrink
  <2>1. \A d \in Cids : /\ docker'[d].task = docker[d].task
                        /\ docker'[d].node = docker[d].node
                        /\ docker'[d].st = IF d = c THEN st ELSE docker[d].st
    BY <1>2, MovedType DEF Live
  <2> QED BY <1>2, <2>1 DEF ContainersNext, ContainersOf, Exists, ExistsNext
<1>3. ASSUME NEW w \in Workers, ContainerStop(w)
      PROVE  Shrink
  <2>1. CASE docker' # docker
    <3>1. PICK c \in Cids : Exists(w, c) /\ docker' = Moved(c, "exited")
      BY <1>3, <2>1, BusyHolds DEF ContainerStop, Exists
    <3> QED BY <1>2, <3>1 DEF Exists
  <2> QED BY <1>1, <2>1
<1>4. ASSUME NEW w \in Workers, ContainerRemove(w)
      PROVE  Shrink
  <2>1. CASE docker' # docker
    <3>1. PICK c \in Cids : c = run[w].ent.rec.cid /\ docker' = Moved(c, "removed")
      BY <1>4, <2>1 DEF ContainerRemove, WTypeOK, RunType
    <3>2. docker[c].st \in Live
      BY <1>4, <3>1 DEF ContainerRemove, Ownership, RunStage, Exists
    <3> QED BY <1>2, <3>1, <3>2
  <2> QED BY <1>1, <2>1
<1>5. ASSUME NEW c \in Cids, ContainerExit(c)
      PROVE  Shrink
  BY <1>2, <1>5 DEF ContainerExit, Live
<1>6. ASSUME NEW w \in Workers, NEW c \in Cids, Run(w, c)
      PROVE  \A v \in Workers, t \in Tasks :
               ContainersNext(v, t) \subseteq
                 IF v = w /\ t = run[w].ent.task THEN ContainersOf(v, t) \cup {c}
                 ELSE ContainersOf(v, t)
  <2>1. PICK st \in {"running", "created"} : docker' = Made(w, c, st)
    BY <1>6, RunEffect
  <2>2. \A d \in Cids : docker'[d] =
           IF d = c THEN [st |-> st, task |-> run[w].ent.task, node |-> w] ELSE docker[d]
    BY <2>1 DEF Made, WTypeOK
  <2> QED BY <2>2 DEF ContainersNext, ContainersOf, Exists, ExistsNext
<1>7. docker' = docker \/ Shrink \/ \E w \in Workers, c \in Cids : Run(w, c)
  <2> HIDE DEF Shrink
  <2> QED BY <1>3, <1>4, <1>5
       DEF WNext, WNextLocal, RunStep, UpdateStepW, WStartTaskHandler, WStopLookup,
           WStopEnqueue, UpdateSnapshot, Inspect, RunTask, CreateFails, Upsert,
           UpdateWrite, wvars
<1>8. CASE \E w \in Workers, c \in Cids : Run(w, c)
  BY <1>6, <1>8
<1> QED BY <1>1, <1>7, <1>8

(* Unless RunTask is about to make a container of t, there is no new one.  *)
LEMMA NoNewContainer ==
  ASSUME WTypeOK, Ownership, [WNext]_wvars, NEW v \in Workers, NEW t \in Tasks,
         ~ (run[v].pc = "run" /\ run[v].ent.task = t)
  PROVE  ContainersNext(v, t) \subseteq ContainersOf(v, t)
<1>1. ASSUME NEW w \in Workers, NEW c \in Cids, Run(w, c)
      PROVE  run[w].pc = "run"
  BY <1>1, RunEffect
<1> QED BY <1>1, ContainersGrow

LEMMA ClearedKept ==
  ASSUME WTypeOK, Ownership, Busy, Cleared, NamedIsRemoved, [WNext]_wvars, WTypeOK'
  PROVE  Cleared' /\ NamedIsRemoved'
<1>1. ASSUME NEW v \in Workers, NEW t \in Tasks, wDb[v][t] = None
      PROVE  ContainersNext(v, t) = {}
  <2>1. ~ (run[v].pc = "run" /\ run[v].ent.task = t)
    BY <1>1 DEF WTypeOK, RunType
  <2>2. ContainersOf(v, t) = {}
    BY <1>1 DEF Cleared
  <2> QED BY <2>1, <2>2, NoNewContainer
<1>2. ASSUME NEW v \in Workers, NEW t \in Named, NEW c \in ContainersNext(v, t),
             NEW d \in ContainersNext(v, t)
      PROVE  c = d
  <2>1. t \in Tasks /\ \A a, b \in ContainersOf(v, t) : a = b
    BY WorkerAssumption DEF NamedIsRemoved
  <2>2. CASE ContainersNext(v, t) \subseteq ContainersOf(v, t)
    BY <2>1, <2>2
  <2>3. ASSUME NEW w \in Workers, NEW e \in Cids, Run(w, e), v = w, t = run[w].ent.task,
               ContainersNext(v, t) \subseteq ContainersOf(v, t) \cup {e}
        PROVE  c = d
    <3>1. ContainersOf(v, t) = {}
      BY <2>3, RunEffect DEF NameTaken
    <3> QED BY <2>3, <3>1
  <2>4. \/ ContainersNext(v, t) \subseteq ContainersOf(v, t)
        \/ \E w \in Workers, e \in Cids :
             /\ Run(w, e) /\ v = w /\ t = run[w].ent.task
             /\ ContainersNext(v, t) \subseteq ContainersOf(v, t) \cup {e}
    BY <2>1, ContainersGrow
  <2> QED BY <2>2, <2>3, <2>4
<1>3. ASSUME NEW v \in Workers, run'[v].pc = "completed", run'[v].ent.task \in Named
      PROVE  ContainersNext(v, run'[v].ent.task) = {}
  <2>1. CASE run'[v] = run[v]
    <3>1. ContainersOf(v, run[v].ent.task) = {}
      BY <1>3, <2>1 DEF Cleared
    <3>2. run[v].ent.task \in Tasks
      BY <1>3, <2>1, WorkerAssumption
    <3>3. ContainersNext(v, run[v].ent.task) \subseteq ContainersOf(v, run[v].ent.task)
      BY <1>3, <2>1, <3>2, NoNewContainer
    <3> QED BY <2>1, <3>1, <3>3
  <2>2. CASE ContainerRemove(v)
    <3>1. PICK t \in Named : t = run[v].ent.task /\ run'[v].ent = run[v].ent
      BY <1>3, <2>2, RemovePlace
    <3>2. PICK c \in Cids : c = run[v].ent.rec.cid /\ docker' = Moved(c, "removed")
      BY <1>3, <2>2, RemovePlace DEF WTypeOK, RunType
    <3>3. Exists(v, c) /\ docker[c].task = t
      BY <2>2, <3>1, <3>2, RemovePlace DEF Ownership, RunStage, RunOwned, OwnedBy, Exists
    <3>4. \A d \in ContainersOf(v, t) : d = c
      BY <3>3 DEF ContainersOf, NamedIsRemoved
    <3>5. docker'[c].st = "removed"
      BY <3>2, MovedType
    <3>6. ContainersNext(v, t) \subseteq ContainersOf(v, t)
      BY <2>2, <3>1, NoNewContainer, RemovePlace, WorkerAssumption
    <3>7. c \notin ContainersNext(v, t)
      BY <3>5 DEF ContainersNext, ExistsNext, Live
    <3> QED BY <3>1, <3>4, <3>6, <3>7
  <2>3. CASE ContainerStop(v) \/ CreateFails(v) \/ \E c \in Cids : Run(v, c)
    BY <1>3, <2>3, StopPlace, CreatePlace
  <2>4. CASE RunTask(v) /\ run'[v] = Begun(v)
    BY <1>3, <2>4, RunTaskEffect
  <2>5. CASE run'[v] = RunIdle
    BY <1>3, <2>5 DEF RunIdle
  <2> QED BY <2>1, <2>2, <2>3, <2>4, <2>5, OwnStep, OwnMove
<1>4. ASSUME NEW v \in Workers, NEW t \in Named, wDb'[v][t] # None,
             wDb'[v][t].state = Completed
      PROVE  ContainersNext(v, t) = {}
  <2>0. t \in Tasks
    BY WorkerAssumption
  <2>1. CASE wDb[v][t] = None
    BY <1>1, <2>0, <2>1
  <2>2. CASE wDb[v][t] # None /\ wDb[v][t].state = Completed
    <3>1. ContainersOf(v, t) = {}
      BY <2>2 DEF NamedIsRemoved
    <3>2. ~ (run[v].pc = "run" /\ run[v].ent.task = t)
      BY <2>2 DEF Busy
    <3> QED BY <2>0, <3>1, <3>2, NoNewContainer
  <2>3. CASE wDb[v][t] # None /\ wDb[v][t].state # Completed
    <3>1. wDb'[v][t] # wDb[v][t]
      BY <1>4, <2>3
    <3>2. ASSUME NEW w \in Workers, RunTask(w)
          PROVE  FALSE
      BY <2>0, <2>3, <3>1, <3>2, RunTaskEffect DEF Persisted
    <3>3. ASSUME NEW w \in Workers, UpdateWrite(w)
          PROVE  FALSE
      BY <1>4, <2>0, <3>1, <3>3, UpdateWriteEffect, RefreshedState
    <3>4. ASSUME NEW w \in Workers, Upsert(w)
          PROVE  ContainersNext(v, t) = {}
      <4>1. v = w /\ t = run[w].ent.task /\ wDb'[v][t] = Upserted(w) /\ docker' = docker
            /\ run[w].pc \in {"started", "fail", "completed"}
        BY <2>0, <3>1, <3>4, UpsertEffect
      <4>2. run[w].pc = "completed"
        BY <1>4, <4>1 DEF Upserted, Running, Failed, Completed
      <4>3. ContainersOf(v, t) = {}
        BY <4>1, <4>2 DEF Cleared
      <4> QED BY <4>1, <4>3 DEF ContainersNext, ContainersOf, Exists, ExistsNext
    <3> QED BY <3>1, <3>2, <3>3, <3>4
         DEF WNext, WNextLocal, RunStep, UpdateStepW, ContainerStop, ContainerRemove, Run,
             CreateFails, UpdateSnapshot, Inspect, WStartTaskHandler, WStopLookup,
             WStopEnqueue, ContainerExit, wvars
  <2> QED BY <2>1, <2>2, <2>3
<1>5. \A v \in Workers, t \in Tasks : wDb'[v][t] = None => wDb[v][t] = None
  <2>1. ASSUME NEW v \in Workers, NEW t \in Tasks, wDb[v][t] # None, wDb'[v][t] = None
        PROVE  FALSE
    <3>1. ASSUME NEW w \in Workers, RunTask(w) \/ Upsert(w) \/ UpdateWrite(w)
          PROVE  FALSE
      BY <2>1, <3>1, RunTaskEffect, UpsertEffect, UpdateWriteEffect DEF DbStep
    <3> QED BY <2>1, <3>1
         DEF WNext, WNextLocal, RunStep, UpdateStepW, ContainerStop, ContainerRemove, Run,
             CreateFails, UpdateSnapshot, Inspect, WStartTaskHandler, WStopLookup,
             WStopEnqueue, ContainerExit, wvars
  <2> QED BY <2>1
<1>6. Cleared'
  BY <1>1, <1>3, <1>5 DEF Cleared, ContainersOf, ContainersNext, Exists, ExistsNext
<1>7. NamedIsRemoved'
  BY <1>2, <1>4 DEF NamedIsRemoved, ContainersOf, ContainersNext, Exists, ExistsNext
<1> QED BY <1>6, <1>7

(* A task with a name has one container on its worker at most, and none    *)
(* once it is Completed, whichever ids the manager sent and whichever      *)
(* calls failed on the way.                                                *)
THEOREM NamedIsCleared == WSpec => []NamedIsRemoved
<1> DEFINE IInv == WTypeOK /\ Ownership /\ Busy /\ Cleared /\ NamedIsRemoved
<1>1. WInit => IInv
  <2>1. WInit => \A w \in Workers, t \in Tasks : ContainersOf(w, t) = {}
    BY DEF WInit, ContainersOf, Exists, Live
  <2>2. WInit => Cleared /\ Busy
    BY <2>1 DEF WInit, Cleared, Busy, RunIdle
  <2>3. WInit => NamedIsRemoved
    BY <2>1, WorkerAssumption DEF WInit, NamedIsRemoved
  <2> QED BY <2>2, <2>3, InitType, InitOwnership
<1>2. IInv /\ [WNext]_wvars => IInv'
  BY NextType, OwnershipKept, BusyKept, ClearedKept
<1> QED BY <1>1, <1>2, PTL DEF WSpec
=============================================================================
