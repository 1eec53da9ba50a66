-------------------------- MODULE LifecycleProofs --------------------------
(***************************************************************************)
(* What holds of Lifecycle for every number of tasks, workers, containers  *)
(* and lives, with store calls that fail and crashes at any point.         *)
(***************************************************************************)
EXTENDS Lifecycle, WorkerProofs

(***************************************************************************)
(* Types. A RunTask between two calls has an entry; unlike in Worker there *)
(* need not be a record of the task, because the put of it may have failed.*)
(***************************************************************************)
(* The variables hold what the code's types allow, and Shutdown has the    *)
(* container of the task it is at.                                         *)
LTypeOK ==
  /\ wDb \in [Workers -> [Tasks -> WRec \cup {None}]]
  /\ wQueue \in [Workers -> Seq(Entry)]
  /\ stop \in [Workers -> Entry \cup {None}]
  /\ docker \in [Cids -> Container]
  /\ proc \in [Workers -> {"up", "draining", "stopping", "closed", "exited", "crashed"}]
  /\ sd \in [Workers -> [pc : {"next", "remove", "write"},
                         todo : [Tasks -> Cids \cup {None}], task : Tasks \cup {None}]]
  /\ \A w \in Workers : sd[w].pc # "next" =>
       sd[w].task \in Tasks /\ sd[w].todo[sd[w].task] # None
  /\ db \in [Workers -> StoreKinds] /\ tick \in [Workers -> BOOLEAN]
  /\ quiet \in [Workers -> BOOLEAN] /\ torn \in [Workers -> BOOLEAN]

LRunType ==
  /\ run \in [Workers -> RunRec]
  /\ \A w \in Workers :
       /\ run[w].pc # "idle" => run[w].ent # None
       /\ run[w].pc = "remove" => run[w].ent.rec.cid \in Cids

LTyped == LTypeOK /\ LRunType

SdRec == [pc : {"next", "remove", "write"}, todo : [Tasks -> Cids \cup {None}],
          task : Tasks \cup {None}]

(* Writes of one goroutine and one shutdown, point by point.               *)
LEMMA LRunWrite ==
  ASSUME LTyped, NEW w \in Workers, NEW r \in RunRec, run' = [run EXCEPT ![w] = r],
         r.pc # "idle" => r.ent # None,
         r.pc = "remove" => r.ent.rec.cid \in Cids
  PROVE  /\ LRunType'
         /\ \A v \in Workers : run'[v] = IF v = w THEN r ELSE run[v]
<1>1. run \in [Workers -> RunRec]
  BY DEF LTyped, LRunType
<1>2. /\ run' \in [Workers -> RunRec]
      /\ \A v \in Workers : run'[v] = IF v = w THEN r ELSE run[v]
  BY <1>1
<1>3. \A v \in Workers : /\ run'[v].pc # "idle" => run'[v].ent # None
                         /\ run'[v].pc = "remove" => run'[v].ent.rec.cid \in Cids
  BY <1>2 DEF LTyped, LRunType
<1> QED BY <1>2, <1>3 DEF LRunType

SdWell(r) == r.pc # "next" => r.task \in Tasks /\ r.todo[r.task] # None

LEMMA SdWrite ==
  ASSUME LTyped, NEW w \in Workers, NEW r \in SdRec, sd' = [sd EXCEPT ![w] = r], SdWell(r)
  PROVE  /\ sd' \in [Workers -> SdRec]
         /\ \A v \in Workers : SdWell(sd'[v])
         /\ \A v \in Workers : sd'[v] = IF v = w THEN r ELSE sd[v]
<1>1. sd \in [Workers -> SdRec] /\ \A v \in Workers : SdWell(sd[v])
  BY DEF LTyped, LTypeOK, SdRec, SdWell
<1>2. /\ sd' \in [Workers -> SdRec]
      /\ \A v \in Workers : sd'[v] = IF v = w THEN r ELSE sd[v]
  BY <1>1
<1> QED BY <1>1, <1>2

(* What a busy RunTask holds.                                              *)
LEMMA LBusyHolds ==
  ASSUME LTyped, NEW w \in Workers, run[w].pc # "idle"
  PROVE  /\ run[w] \in RunRec
         /\ run[w].ent \in Entry
         /\ run[w].ent.task \in Tasks
         /\ run[w].ent.rec \in WRec
         /\ run[w].ent.rec.cid \in Cids \cup {None}
         /\ run[w].cid \in Cids \cup {None}
<1>1. run[w] \in RunRec /\ run[w].ent # None
  BY DEF LTyped, LRunType
<1>2. run[w].ent \in Entry /\ run[w].cid \in Cids \cup {None}
  BY <1>1 DEF RunRec
<1> QED BY <1>1, <1>2 DEF Entry, WRec

LEMMA IdleType == RunIdle \in RunRec /\ RunIdle.pc = "idle"
  BY DEF RunIdle, RunRec, RunPC

LEMMA LRunAtType ==
  ASSUME LTyped, NEW w \in Workers, NEW pc \in RunPC, run[w].pc # "idle"
  PROVE  /\ RunAt(w, pc) \in RunRec
         /\ RunAt(w, pc).ent = run[w].ent
         /\ RunAt(w, pc).cid = run[w].cid
         /\ RunAt(w, pc).pc = pc
  BY LBusyHolds DEF RunAt, RunRec

LEMMA LCallFailedType ==
  ASSUME LTyped, NEW w \in Workers, run[w].pc # "idle"
  PROVE  /\ CallFailed(w) \in RunRec
         /\ CallFailed(w).pc \in {"idle", "fail"}
         /\ CallFailed(w).pc # "idle" => CallFailed(w).ent = run[w].ent
<1>1. "fail" \in RunPC
  BY DEF RunPC
<1> QED BY <1>1, IdleType, LRunAtType DEF CallFailed

LEMMA LMovedType ==
  ASSUME LTyped, NEW c \in Cids, NEW st \in Live \cup {"removed"}
  PROVE  /\ Moved(c, st) \in [Cids -> Container]
         /\ \A d \in Cids : /\ Moved(c, st)[d].task = docker[d].task
                            /\ Moved(c, st)[d].node = docker[d].node
                            /\ Moved(c, st)[d].st = IF d = c THEN st ELSE docker[d].st
<1>1. docker \in [Cids -> Container]
  BY DEF LTyped, LTypeOK
<1> QED BY <1>1 DEF Moved, Container

LEMMA LMadeType ==
  ASSUME LTyped, NEW w \in Workers, NEW c \in Cids, NEW st \in {"running", "created"},
         run[w].pc # "idle"
  PROVE  /\ Made(w, c, st) \in [Cids -> Container]
         /\ \A d \in Cids : Made(w, c, st)[d] =
              IF d = c THEN [st |-> st, task |-> run[w].ent.task, node |-> w] ELSE docker[d]
<1>1. docker \in [Cids -> Container]
  BY DEF LTyped, LTypeOK
<1>2. [st |-> st, task |-> run[w].ent.task, node |-> w] \in Container
  BY LBusyHolds DEF Container, Live
<1> QED BY <1>1, <1>2 DEF Made

(***************************************************************************)
(* What each step of a worker does, point by point.                        *)
(***************************************************************************)

(* The entry RunTask takes, and the places it goes to with it.             *)
LEMMA LTaken ==
  ASSUME LTyped, NEW w \in Workers, wQueue[w] # <<>>
  PROVE  /\ Taken(w) \in Entry /\ Taken(w).task \in Tasks
         /\ Taken(w).rec \in WRec /\ Taken(w).rec.cid \in Cids \cup {None}
         /\ Persisted(w, Taken(w)) \in WRec
         /\ Tail(wQueue[w]) \in Seq(Entry)
         /\ FirstCall(Taken(w)) \in {"stop", "run", "idle"}
         /\ [pc |-> FirstCall(Taken(w)), ent |-> Taken(w), cid |-> None] \in RunRec
<1>1. wQueue[w] \in Seq(Entry) /\ wDb \in [Workers -> [Tasks -> WRec \cup {None}]]
  BY DEF LTyped, LTypeOK
<1>2. Taken(w) \in Entry /\ Tail(wQueue[w]) \in Seq(Entry)
  BY <1>1 DEF Taken
<1>3. /\ Taken(w).task \in Tasks /\ Taken(w).rec \in WRec
      /\ Taken(w).rec.cid \in Cids \cup {None}
  BY <1>2 DEF Entry, WRec
<1>4. Persisted(w, Taken(w)) \in WRec
  BY <1>1, <1>3 DEF Persisted
<1>5. FirstCall(Taken(w)) \in {"stop", "run", "idle"}
  BY <1>2, FirstCallType
<1>6. [pc |-> FirstCall(Taken(w)), ent |-> Taken(w), cid |-> None] \in RunRec
  BY <1>2, <1>5 DEF RunRec, RunPC
<1> QED BY <1>2, <1>3, <1>4, <1>5, <1>6

(* One record, one goroutine changes.                                      *)
DbAt(w, t, rec) ==
  \A v \in Workers, u \in Tasks :
    wDb'[v][u] = IF v = w /\ u = t THEN rec ELSE wDb[v][u]

RunBecomes(w, r) == \A v \in Workers : run'[v] = IF v = w THEN r ELSE run[v]

(* RunTask takes an entry. A store that works has the task afterwards; one *)
(* that fails leaves its mark.                                             *)
TakesEntry(w, r) ==
  /\ run[w].pc = "idle" /\ wQueue[w] # <<>>
  /\ proc[w] = "up" \/ tick[w]
  /\ r.pc \in {"stop", "run", "idle"}
  /\ r.pc # "idle" => r.ent = Taken(w)
  /\ RunBecomes(w, r)
  /\ wQueue' = [wQueue EXCEPT ![w] = Tail(wQueue[w])]
  /\ tick' = [tick EXCEPT ![w] = FALSE]
  /\ UNCHANGED <<stop, docker, proc, db, sd, quiet>>

LEMMA TakeType ==
  ASSUME LTyped, NEW w \in Workers, NEW r \in RunRec, TakesEntry(w, r), LRunType',
         wDb' \in [Workers -> [Tasks -> WRec \cup {None}]],
         torn' \in [Workers -> BOOLEAN]
  PROVE  LTyped'
<1>1. Tail(wQueue[w]) \in Seq(Entry)
  BY LTaken DEF TakesEntry
<1>2. wQueue' \in [Workers -> Seq(Entry)] /\ tick' \in [Workers -> BOOLEAN]
  BY <1>1 DEF TakesEntry, LTyped, LTypeOK
<1> QED BY <1>2 DEF TakesEntry, LTyped, LTypeOK

LEMMA TakeEntryEffect ==
  ASSUME LTyped, NEW w \in Workers, TakeEntry(w)
  PROVE  /\ LTyped'
         /\ torn' = torn
         /\ DbAt(w, Taken(w).task, Persisted(w, Taken(w)))
         /\ \E r \in RunRec :
              /\ TakesEntry(w, r)
              /\ r.pc # "idle" =>
                   IsValidTransition(Persisted(w, Taken(w)).state, Taken(w).rec.state)
<1>1. /\ run[w].pc = "idle" /\ wQueue[w] # <<>>
      /\ proc[w] = "up" \/ tick[w]
      /\ tick' = [tick EXCEPT ![w] = FALSE]
      /\ wDb' = [wDb EXCEPT ![w][Taken(w).task] = Persisted(w, Taken(w))]
      /\ run' = [run EXCEPT ![w] = Begun(w)]
      /\ wQueue' = [wQueue EXCEPT ![w] = Tail(wQueue[w])]
      /\ UNCHANGED <<upd, stop, docker, proc, db, sd, quiet, torn>>
  BY DEF TakeEntry, Ticks, RunTask, Taken, Begun, LTyped, LTypeOK
<1>2. PICK r \in RunRec : /\ r = Begun(w) /\ r.pc \in {"stop", "run", "idle"}
                          /\ r.pc # "idle" => r.ent = Taken(w)
                          /\ r.pc # "idle" => IsValidTransition(
                                 Persisted(w, Taken(w)).state, Taken(w).rec.state)
  BY <1>1, LTaken, IdleType DEF Begun
<1>3. r.pc # "idle" => r.ent # None
  BY <1>1, <1>2, LTaken, WorkerAssumption
<1>4. LRunType' /\ RunBecomes(w, r)
  BY <1>1, <1>2, <1>3, LRunWrite DEF RunBecomes
<1>5. PICK rec \in WRec, t \in Tasks : rec = Persisted(w, Taken(w)) /\ t = Taken(w).task
  BY <1>1, LTaken
<1>6. wDb' \in [Workers -> [Tasks -> WRec \cup {None}]] /\ DbAt(w, t, rec)
  <2>1. wDb' = [wDb EXCEPT ![w][t] = rec]
    BY <1>1, <1>5
  <2>2. wDb \in [Workers -> [Tasks -> WRec \cup {None}]]
    BY DEF LTyped, LTypeOK
  <2> QED BY <2>1, <2>2 DEF DbAt
<1>7. TakesEntry(w, r)
  BY <1>1, <1>2, <1>4 DEF TakesEntry
<1>8. LTyped'
  BY <1>1, <1>4, <1>6, <1>7, TakeType DEF LTyped, LTypeOK
<1> QED BY <1>1, <1>2, <1>5, <1>6, <1>7, <1>8

LEMMA TakeEntryBlindEffect ==
  ASSUME LTyped, NEW w \in Workers, TakeEntryBlind(w)
  PROVE  /\ LTyped'
         /\ \/ torn' = [torn EXCEPT ![w] = TRUE]
            \/ torn' = torn /\ wDb' = wDb /\ wDb[w][Taken(w).task] = None
         /\ wDb' = wDb \/ DbAt(w, Taken(w).task, Taken(w).rec)
         /\ \E r \in RunRec : TakesEntry(w, r)
<1> DEFINE Goes(from) ==
             IF IsValidTransition(from.state, Taken(w).rec.state)
                /\ FirstCall(Taken(w)) # "idle"
             THEN [pc |-> FirstCall(Taken(w)), ent |-> Taken(w), cid |-> None]
             ELSE RunIdle
<1>1. /\ run[w].pc = "idle" /\ wQueue[w] # <<>>
      /\ proc[w] = "up" \/ tick[w]
      /\ tick' = [tick EXCEPT ![w] = FALSE]
      /\ wQueue' = [wQueue EXCEPT ![w] = Tail(wQueue[w])]
      /\ \/ torn' = [torn EXCEPT ![w] = TRUE]
         \/ torn' = torn /\ wDb' = wDb /\ wDb[w][Taken(w).task] = None
      /\ UNCHANGED <<upd, stop, docker, proc, db, sd, quiet>>
  BY DEF TakeEntryBlind, Ticks, Taken, LTyped, LTypeOK
<1>2. wDb' = wDb \/ wDb' = [wDb EXCEPT ![w][Taken(w).task] = Taken(w).rec]
  BY DEF TakeEntryBlind, Taken
<1>3. \E from : run' = [run EXCEPT ![w] = Goes(from)]
  BY DEF TakeEntryBlind, Taken
<1>4. PICK r \in RunRec : /\ run' = [run EXCEPT ![w] = r]
                          /\ r.pc \in {"stop", "run", "idle"}
                          /\ r.pc # "idle" => r.ent = Taken(w)
  BY <1>1, <1>3, LTaken, IdleType
<1>5. r.pc # "idle" => r.ent # None
  BY <1>1, <1>4, LTaken, WorkerAssumption
<1>6. LRunType' /\ RunBecomes(w, r)
  BY <1>4, <1>5, LRunWrite DEF RunBecomes
<1>7. PICK rec \in WRec, t \in Tasks : rec = Taken(w).rec /\ t = Taken(w).task
  BY <1>1, LTaken
<1>8. CASE wDb' = wDb
  <2>1. wDb' \in [Workers -> [Tasks -> WRec \cup {None}]]
    BY <1>8 DEF LTyped, LTypeOK
  <2>2. TakesEntry(w, r)
    BY <1>1, <1>4, <1>6 DEF TakesEntry
  <2>3. torn' \in [Workers -> BOOLEAN]
    BY <1>1 DEF LTyped, LTypeOK
  <2> QED BY <1>1, <1>6, <1>8, <2>1, <2>2, <2>3, TakeType
<1>9. CASE wDb' = [wDb EXCEPT ![w][t] = rec]
  <2>1. wDb' \in [Workers -> [Tasks -> WRec \cup {None}]] /\ DbAt(w, t, rec)
    <3>1. wDb \in [Workers -> [Tasks -> WRec \cup {None}]]
      BY DEF LTyped, LTypeOK
    <3> QED BY <1>9, <3>1 DEF DbAt
  <2>2. TakesEntry(w, r)
    BY <1>1, <1>4, <1>6 DEF TakesEntry
  <2>3. torn' \in [Workers -> BOOLEAN]
    BY <1>1 DEF LTyped, LTypeOK
  <2> QED BY <1>1, <1>6, <1>7, <2>1, <2>2, <2>3, TakeType
<1> QED BY <1>2, <1>7, <1>8, <1>9

(* The HTTP handlers.                                                      *)
LEMMA StartArrivesType ==
  ASSUME LTyped, NEW w \in Workers, NEW ent \in Entry, StartArrives(w, ent)
  PROVE  LTyped'
<1>1. /\ wQueue' = [wQueue EXCEPT ![w] = Append(wQueue[w], ent)]
      /\ UNCHANGED <<wDb, run, stop, docker, proc, db, tick, sd, quiet, torn>>
  BY DEF StartArrives, WStartTaskHandler, pvars
<1>2. wQueue \in [Workers -> Seq(Entry)]
  BY DEF LTyped, LTypeOK
<1>3. Append(wQueue[w], ent) \in Seq(Entry)
  BY <1>2
<1>4. wQueue' \in [Workers -> Seq(Entry)]
  BY <1>1, <1>2, <1>3
<1> QED BY <1>1, <1>4 DEF LTyped, LTypeOK, LRunType

LEMMA StopArrivesType ==
  ASSUME LTyped, NEW w \in Workers, NEW t \in Tasks, StopArrives(w, t)
  PROVE  LTyped'
<1> DEFINE ent == [task |-> t, rec |-> [state |-> Completed, cid |-> wDb[w][t].cid]]
<1>1. /\ stop' = [stop EXCEPT ![w] = ent] /\ wDb[w][t] # None
      /\ UNCHANGED <<wDb, wQueue, run, docker, proc, db, tick, sd, quiet, torn>>
  BY DEF StopArrives, WStopLookup, pvars
<1>2. ent \in Entry
  BY <1>1 DEF LTyped, LTypeOK, Entry, WRec, State
<1> HIDE DEF ent
<1>3. stop' \in [Workers -> Entry \cup {None}]
  BY <1>1, <1>2 DEF LTyped, LTypeOK
<1> QED BY <1>1, <1>3 DEF LTyped, LTypeOK, LRunType

LEMMA StopHandledType ==
  ASSUME LTyped, NEW w \in Workers, StopHandled(w)
  PROVE  LTyped'
<1>1. /\ wQueue' = [wQueue EXCEPT ![w] = Append(wQueue[w], stop[w])]
      /\ stop' = [stop EXCEPT ![w] = None] /\ stop[w] # None
      /\ UNCHANGED <<wDb, run, docker, proc, db, tick, sd, quiet, torn>>
  BY DEF StopHandled, WStopEnqueue, pvars
<1>2. wQueue \in [Workers -> Seq(Entry)] /\ stop[w] \in Entry
  BY <1>1 DEF LTyped, LTypeOK
<1>3. Append(wQueue[w], stop[w]) \in Seq(Entry)
  BY <1>2
<1>4. wQueue' \in [Workers -> Seq(Entry)] /\ stop' \in [Workers -> Entry \cup {None}]
  BY <1>1, <1>2, <1>3 DEF LTyped, LTypeOK
<1> QED BY <1>1, <1>4 DEF LTyped, LTypeOK, LRunType

(* A call to Docker: RunTask keeps its entry or gives up.                  *)
CallMade(w, r) ==
  /\ run[w].pc # "idle"
  /\ r.pc # "idle" => r.ent = run[w].ent
  /\ RunBecomes(w, r)
  /\ UNCHANGED <<wDb, wQueue, stop, proc, db, tick, sd, quiet, torn>>

LEMMA CallType ==
  ASSUME LTyped, NEW w \in Workers, NEW r \in RunRec, run[w].pc # "idle",
         run' = [run EXCEPT ![w] = r],
         r.pc # "idle" => r.ent = run[w].ent,
         r.pc = "remove" => run[w].ent.rec.cid \in Cids,
         docker' \in [Cids -> Container],
         UNCHANGED <<wDb, wQueue, upd, stop>>, UNCHANGED pvars
  PROVE  LTyped' /\ CallMade(w, r)
<1>1. r.pc # "idle" => r.ent # None
  BY LBusyHolds, WorkerAssumption
<1>2. LRunType' /\ RunBecomes(w, r)
  BY <1>1, LRunWrite DEF RunBecomes
<1> QED BY <1>2 DEF LTyped, LTypeOK, CallMade, pvars

LEMMA StopCallEffect ==
  ASSUME LTyped, NEW w \in Workers, ContainerStop(w), UNCHANGED pvars
  PROVE  /\ LTyped'
         /\ run[w].pc = "stop"
         /\ \E r \in RunRec : CallMade(w, r) /\ r.pc \in {"remove", "idle", "fail"}
         /\ \/ docker' = docker
            \/ \E c \in Cids : docker[c].st \in Live /\ docker' = Moved(c, "exited")
<1> DEFINE c == run[w].ent.rec.cid
<1>1. run[w].pc = "stop" /\ run[w].pc # "idle" /\ UNCHANGED <<wDb, wQueue, upd, stop>>
  BY DEF ContainerStop
<1>2. CASE /\ Exists(w, c)
           /\ docker' = Moved(c, "exited")
           /\ run' = [run EXCEPT ![w] = RunAt(w, "remove")]
  <2>1. c \in Cids /\ docker[c].st \in Live
    BY <1>1, <1>2, LBusyHolds DEF Exists
  <2>2. docker' \in [Cids -> Container]
    BY <1>2, <2>1, LMovedType DEF Live
  <2>3. PICK r \in RunRec : r = RunAt(w, "remove") /\ r.ent = run[w].ent /\ r.pc = "remove"
    BY <1>1, LRunAtType DEF RunPC
  <2>4. LTyped' /\ CallMade(w, r)
    BY <1>1, <1>2, <2>1, <2>2, <2>3, CallType
  <2> QED BY <1>1, <1>2, <2>1, <2>3, <2>4
<1>3. CASE run' = [run EXCEPT ![w] = CallFailed(w)] /\ UNCHANGED docker
  <2>1. docker' \in [Cids -> Container]
    BY <1>3 DEF LTyped, LTypeOK
  <2>2. PICK r \in RunRec : /\ r = CallFailed(w) /\ r.pc \in {"idle", "fail"}
                            /\ r.pc # "idle" => r.ent = run[w].ent
    BY <1>1, LCallFailedType
  <2>3. LTyped' /\ CallMade(w, r)
    BY <1>1, <1>3, <2>1, <2>2, CallType
  <2> QED BY <1>1, <1>3, <2>2, <2>3
<1> QED BY <1>2, <1>3 DEF ContainerStop

LEMMA RemoveCallEffect ==
  ASSUME LTyped, NEW w \in Workers, ContainerRemove(w), UNCHANGED pvars
  PROVE  /\ LTyped'
         /\ run[w].pc = "remove"
         /\ \E r \in RunRec :
              /\ CallMade(w, r)
              /\ \/ docker' = docker /\ r.pc \in {"idle", "fail"}
                 \/ \E c \in Cids :
                      /\ c = run[w].ent.rec.cid /\ Exists(w, c)
                      /\ docker' = Moved(c, "removed")
                      /\ r.pc \in {"completed", "run"}
<1> DEFINE c == run[w].ent.rec.cid
           next == IF run[w].ent.rec.state = Completed THEN "completed" ELSE "run"
<1>1. run[w].pc = "remove" /\ run[w].pc # "idle" /\ UNCHANGED <<wDb, wQueue, upd, stop>>
  BY DEF ContainerRemove
<1>2. CASE /\ Exists(w, c)
           /\ docker' = Moved(c, "removed")
           /\ run' = [run EXCEPT ![w] = RunAt(w, next)]
  <2>1. c \in Cids
    BY <1>1, <1>2, LBusyHolds DEF Exists
  <2>2. docker' \in [Cids -> Container]
    BY <1>2, <2>1, LMovedType
  <2>3. PICK r \in RunRec : /\ r = RunAt(w, next) /\ r.ent = run[w].ent
                            /\ r.pc \in {"completed", "run"}
    BY <1>1, LRunAtType DEF RunPC
  <2>4. LTyped' /\ CallMade(w, r)
    BY <1>1, <1>2, <2>1, <2>2, <2>3, CallType
  <2> QED BY <1>1, <1>2, <2>1, <2>3, <2>4
<1>3. CASE run' = [run EXCEPT ![w] = CallFailed(w)] /\ UNCHANGED docker
  <2>1. docker' \in [Cids -> Container]
    BY <1>3 DEF LTyped, LTypeOK
  <2>2. PICK r \in RunRec : /\ r = CallFailed(w) /\ r.pc \in {"idle", "fail"}
                            /\ r.pc # "idle" => r.ent = run[w].ent
    BY <1>1, LCallFailedType
  <2>3. LTyped' /\ CallMade(w, r)
    BY <1>1, <1>3, <2>1, <2>2, CallType
  <2> QED BY <1>1, <1>3, <2>2, <2>3
<1> QED BY <1>2, <1>3 DEF ContainerRemove

LEMMA CreateFailsEffect ==
  ASSUME LTyped, NEW w \in Workers, CreateFails(w), UNCHANGED pvars
  PROVE  /\ LTyped'
         /\ run[w].pc = "run" /\ docker' = docker
         /\ \E r \in RunRec : CallMade(w, r) /\ r.pc \in {"idle", "fail"}
<1>1. /\ run[w].pc = "run" /\ run[w].pc # "idle" /\ UNCHANGED <<wDb, wQueue, upd, stop>>
      /\ docker' = docker /\ run' = [run EXCEPT ![w] = CallFailed(w)]
  BY DEF CreateFails
<1>2. docker' \in [Cids -> Container]
  BY <1>1 DEF LTyped, LTypeOK
<1>3. PICK r \in RunRec : /\ r = CallFailed(w) /\ r.pc \in {"idle", "fail"}
                          /\ r.pc # "idle" => r.ent = run[w].ent
  BY <1>1, LCallFailedType
<1>4. LTyped' /\ CallMade(w, r)
  BY <1>1, <1>2, <1>3, CallType
<1> QED BY <1>1, <1>3, <1>4

(* A container that Run makes is known to RunTask, unless a later call of  *)
(* Run fails.                                                              *)
LEMMA RunCallEffect ==
  ASSUME LTyped, NEW w \in Workers, NEW c \in Cids, Run(w, c), UNCHANGED pvars
  PROVE  /\ LTyped'
         /\ run[w].pc = "run" /\ docker[c].st = "unused"
         /\ ~ NameTaken(w, run[w].ent.task)
         /\ \E st \in {"running", "created"} : docker' = Made(w, c, st)
         /\ \E r \in RunRec :
              /\ CallMade(w, r)
              /\ \/ r.pc = "started" /\ r.cid = c
                 \/ r.pc \in {"idle", "fail"} /\ ~ RunIsWhole
<1>1. /\ run[w].pc = "run" /\ run[w].pc # "idle" /\ docker[c].st = "unused"
      /\ ~ NameTaken(w, run[w].ent.task)
      /\ UNCHANGED <<wDb, wQueue, upd, stop>>
  BY DEF Run
<1>2. PICK st \in {"running", "created"} : docker' = Made(w, c, st)
  BY RunEffect
<1>3. docker' \in [Cids -> Container]
  BY <1>1, <1>2, LMadeType
<1>4. CASE run' = [run EXCEPT ![w] = [pc |-> "started", ent |-> run[w].ent, cid |-> c]]
  <2>1. PICK r \in RunRec : r = [pc |-> "started", ent |-> run[w].ent, cid |-> c]
    BY <1>1, LBusyHolds DEF RunRec, RunPC
  <2>2. r.ent = run[w].ent /\ r.pc = "started" /\ r.cid = c
    BY <2>1
  <2>3. run' = [run EXCEPT ![w] = r]
    BY <1>4, <2>1
  <2>4. LTyped' /\ CallMade(w, r)
    BY <1>1, <1>3, <2>2, <2>3, CallType
  <2> QED BY <1>1, <1>2, <2>2, <2>4
<1>5. CASE run' = [run EXCEPT ![w] = CallFailed(w)] /\ ~ RunIsWhole
  <2>1. PICK r \in RunRec : /\ r = CallFailed(w) /\ r.pc \in {"idle", "fail"}
                            /\ r.pc # "idle" => r.ent = run[w].ent
    BY <1>1, LCallFailedType
  <2>2. LTyped' /\ CallMade(w, r)
    BY <1>1, <1>3, <1>5, <2>1, CallType
  <2> QED BY <1>1, <1>2, <1>5, <2>1, <2>2
<1>6. \/ run' = [run EXCEPT ![w] = [pc |-> "started", ent |-> run[w].ent, cid |-> c]]
      \/ run' = [run EXCEPT ![w] = CallFailed(w)] /\ ~ RunIsWhole
  BY DEF Run, RunIsWhole
<1> QED BY <1>4, <1>5, <1>6

(* The write that ends a RunTask.                                          *)
LEMMA RecordEffect ==
  ASSUME LTyped, NEW w \in Workers, Record(w)
  PROVE  /\ LTyped'
         /\ run[w].pc \in {"started", "fail", "completed"}
         /\ wDb[w][run[w].ent.task] # None
         /\ DbAt(w, run[w].ent.task, Upserted(w))
         /\ RunBecomes(w, RunIdle)
         /\ UNCHANGED <<wQueue, stop, docker, proc, db, tick, sd, quiet, torn>>
<1>1. /\ run[w].pc \in {"started", "fail", "completed"}
      /\ wDb[w][run[w].ent.task] # None
      /\ run' = [run EXCEPT ![w] = RunIdle]
      /\ wDb' = [wDb EXCEPT ![w][run[w].ent.task] = Upserted(w)]
      /\ UNCHANGED <<wQueue, stop, docker, proc, db, tick, sd, quiet, torn>>
  BY DEF Record, Upsert, Upserted, pvars
<1>2. run[w].ent.task \in Tasks /\ run[w].cid \in Cids \cup {None}
  BY <1>1, LBusyHolds
<1>3. wDb[w][run[w].ent.task].cid \in Cids \cup {None}
  BY <1>1, <1>2 DEF LTyped, LTypeOK, WRec
<1>4. Upserted(w) \in WRec
  BY <1>1, <1>2, <1>3 DEF Upserted, WRec, State
<1>5. PICK rec \in WRec, t \in Tasks : rec = Upserted(w) /\ t = run[w].ent.task
  BY <1>2, <1>4
<1>6. wDb' \in [Workers -> [Tasks -> WRec \cup {None}]] /\ DbAt(w, t, rec)
  <2>1. wDb' = [wDb EXCEPT ![w][t] = rec]
    BY <1>1, <1>5
  <2>2. wDb \in [Workers -> [Tasks -> WRec \cup {None}]]
    BY DEF LTyped, LTypeOK
  <2> QED BY <2>1, <2>2 DEF DbAt
<1>7. LRunType' /\ RunBecomes(w, RunIdle)
  BY <1>1, IdleType, LRunWrite DEF RunBecomes
<1>8. LTyped'
  BY <1>1, <1>6, <1>7 DEF LTyped, LTypeOK
<1> QED BY <1>1, <1>5, <1>6, <1>7, <1>8

LEMMA RecordBlindEffect ==
  ASSUME LTyped, NEW w \in Workers, RecordBlind(w)
  PROVE  /\ LTyped'
         /\ run[w].pc \in {"started", "fail", "completed"}
         /\ wDb' = wDb \/ DbAt(w, run[w].ent.task, FromEntry(w))
         /\ \/ torn' = [torn EXCEPT ![w] = TRUE]
            \/ torn' = torn /\ wDb' = wDb /\ run[w].pc # "started"
            \/ torn' = torn /\ wDb[w][run[w].ent.task] = None
         /\ RunBecomes(w, RunIdle)
         /\ UNCHANGED <<wQueue, stop, docker, proc, db, tick, sd, quiet>>
<1>1. /\ run[w].pc \in {"started", "fail", "completed"}
      /\ run' = [run EXCEPT ![w] = RunIdle]
      /\ \/ torn' = [torn EXCEPT ![w] = TRUE]
         \/ torn' = torn /\ wDb' = wDb /\ run[w].pc # "started"
         \/ torn' = torn /\ wDb[w][run[w].ent.task] = None
      /\ wDb' = wDb \/ wDb' = [wDb EXCEPT ![w][run[w].ent.task] = FromEntry(w)]
      /\ UNCHANGED <<wQueue, stop, docker, proc, db, tick, sd, quiet>>
  BY DEF RecordBlind
<1>2. /\ run[w].ent.task \in Tasks /\ run[w].cid \in Cids \cup {None}
      /\ run[w].ent.rec.cid \in Cids \cup {None}
  BY <1>1, LBusyHolds
<1>3. FromEntry(w) \in WRec
  BY <1>1, <1>2 DEF FromEntry, WRec, State
<1>4. PICK rec \in WRec, t \in Tasks : rec = FromEntry(w) /\ t = run[w].ent.task
  BY <1>2, <1>3
<1>5. LRunType' /\ RunBecomes(w, RunIdle)
  BY <1>1, IdleType, LRunWrite DEF RunBecomes
<1>6. torn' \in [Workers -> BOOLEAN]
  BY <1>1 DEF LTyped, LTypeOK
<1>7. CASE wDb' = wDb
  BY <1>1, <1>5, <1>6, <1>7 DEF LTyped, LTypeOK
<1>8. CASE wDb' = [wDb EXCEPT ![w][t] = rec]
  <2>1. wDb' \in [Workers -> [Tasks -> WRec \cup {None}]] /\ DbAt(w, t, rec)
    <3>1. wDb \in [Workers -> [Tasks -> WRec \cup {None}]]
      BY DEF LTyped, LTypeOK
    <3> QED BY <1>8, <3>1 DEF DbAt
  <2>2. LTyped'
    BY <1>1, <1>5, <1>6, <2>1 DEF LTyped, LTypeOK
  <2> QED BY <1>1, <1>4, <1>5, <2>1, <2>2
<1> QED BY <1>1, <1>4, <1>7, <1>8

-----------------------------------------------------------------------------
(* The shutdown of one worker moves on.                                    *)
SdBecomes(w, r) == \A v \in Workers : sd'[v] = IF v = w THEN r ELSE sd[v]

LEMMA SdType ==
  ASSUME LTyped, NEW w \in Workers, NEW r \in SdRec, sd' = [sd EXCEPT ![w] = r], SdWell(r),
         UNCHANGED <<run, wQueue, stop, db, tick>>,
         wDb' \in [Workers -> [Tasks -> WRec \cup {None}]],
         docker' \in [Cids -> Container],
         proc' \in [Workers -> {"up", "draining", "stopping", "closed", "exited", "crashed"}],
         torn' \in [Workers -> BOOLEAN], quiet' \in [Workers -> BOOLEAN]
  PROVE  LTyped' /\ SdBecomes(w, r)
<1>1. /\ sd' \in [Workers -> SdRec] /\ SdBecomes(w, r)
      /\ \A v \in Workers : SdWell(sd'[v])
  BY SdWrite DEF SdBecomes
<1>2. LRunType'
  BY DEF LTyped, LRunType
<1> QED BY <1>1, <1>2 DEF LTyped, LTypeOK, SdWell, SdRec

LEMMA SdHolds ==
  ASSUME LTyped, NEW w \in Workers
  PROVE  /\ sd[w] \in SdRec
         /\ sd[w].pc # "next" => /\ sd[w].task \in Tasks
                                 /\ sd[w].todo[sd[w].task] \in Cids
<1>1. sd[w] \in SdRec /\ SdWell(sd[w])
  BY DEF LTyped, LTypeOK, SdRec, SdWell
<1> QED BY <1>1 DEF SdRec, SdWell

(* The locals of Shutdown after SdAt and after SdDone.                     *)
SdMoved(w, pc, t) == [pc |-> pc, todo |-> sd[w].todo, task |-> t]
SdCleared(w, t) == [pc |-> "next", todo |-> [sd[w].todo EXCEPT ![t] = None], task |-> None]

LEMMA SdAtIs ==
  ASSUME LTyped, NEW w \in Workers, NEW t \in Tasks, NEW pc \in {"next", "remove", "write"}
  PROVE  /\ SdAt(w, pc, t) = [sd EXCEPT ![w] = SdMoved(w, pc, t)]
         /\ SdMoved(w, pc, t) \in SdRec
  BY SdHolds DEF SdAt, SdMoved, SdRec

LEMMA SdDoneIs ==
  ASSUME LTyped, NEW w \in Workers, NEW t \in Tasks
  PROVE  /\ SdDone(w, t) = [sd EXCEPT ![w] = SdCleared(w, t)]
         /\ SdCleared(w, t) \in SdRec
         /\ SdWell(SdCleared(w, t))
<1>1. sd[w].todo \in [Tasks -> Cids \cup {None}]
  BY SdHolds DEF SdRec
<1>2. [sd[w].todo EXCEPT ![t] = None] \in [Tasks -> Cids \cup {None}]
  BY <1>1
<1> QED BY <1>2 DEF SdDone, SdCleared, SdRec, SdWell

LEMMA SignalEffect ==
  ASSUME LTyped, NEW w \in Workers, Signal(w)
  PROVE  /\ LTyped'
         /\ proc[w] = "up" /\ proc' = [proc EXCEPT ![w] = "draining"]
         /\ \E b, q \in BOOLEAN :
              /\ tick' = [tick EXCEPT ![w] = b] /\ quiet' = [quiet EXCEPT ![w] = q]
              /\ q => quiet[w] /\ run[w].pc = "idle" /\ ~ b
         /\ UNCHANGED <<wDb, wQueue, run, stop, docker, db, sd, torn>>
<1>1. PICK b \in BOOLEAN :
        /\ tick' = [tick EXCEPT ![w] = b]
        /\ quiet' = [quiet EXCEPT ![w] = quiet[w] /\ run[w].pc = "idle" /\ ~ b]
  BY DEF Signal
<1>2. PICK q \in BOOLEAN : q = (quiet[w] /\ run[w].pc = "idle" /\ ~ b)
  OBVIOUS
<1>3. /\ proc[w] = "up" /\ proc' = [proc EXCEPT ![w] = "draining"]
      /\ UNCHANGED <<wDb, wQueue, run, stop, docker, db, sd, torn>>
  BY DEF Signal, wvars
<1>4. quiet' = [quiet EXCEPT ![w] = q]
  BY <1>1, <1>2
<1>5. LTyped'
  BY <1>1, <1>3, <1>4 DEF LTyped, LTypeOK, LRunType
<1> QED BY <1>1, <1>2, <1>3, <1>4, <1>5

(* What Shutdown finds to stop.                                            *)
Listed(w) == [t \in Tasks |-> IF Owned(wDb[w][t]) THEN wDb[w][t].cid ELSE None]

LEMMA ListEffect ==
  ASSUME LTyped, NEW w \in Workers, ShutdownList(w), sd[w].pc = "next"
  PROVE  /\ LTyped'
         /\ proc[w] = "draining" /\ proc' = [proc EXCEPT ![w] = "stopping"]
         /\ \/ /\ SdBecomes(w, [pc |-> "next", todo |-> Listed(w), task |-> sd[w].task])
               /\ quiet' = quiet
            \/ sd' = sd /\ quiet' = [quiet EXCEPT ![w] = FALSE]
         /\ UNCHANGED <<wDb, wQueue, run, stop, docker, db, tick, torn>>
<1>1. /\ proc[w] = "draining" /\ proc' = [proc EXCEPT ![w] = "stopping"]
      /\ \/ sd' = [sd EXCEPT ![w].todo = Listed(w)] /\ quiet' = quiet
         \/ sd' = sd /\ quiet' = [quiet EXCEPT ![w] = FALSE]
      /\ UNCHANGED <<wDb, wQueue, run, stop, docker, db, tick, torn>>
  BY DEF ShutdownList, wvars, Listed
<1>2. proc' \in [Workers -> {"up", "draining", "stopping", "closed", "exited", "crashed"}]
  BY <1>1 DEF LTyped, LTypeOK
<1>3. CASE sd' = sd /\ quiet' = [quiet EXCEPT ![w] = FALSE]
  BY <1>1, <1>2, <1>3 DEF LTyped, LTypeOK, LRunType
<1>4. CASE sd' = [sd EXCEPT ![w].todo = Listed(w)] /\ quiet' = quiet
  <2>1. sd[w] \in SdRec
    BY SdHolds
  <2>2. Listed(w) \in [Tasks -> Cids \cup {None}]
    BY DEF Listed, Owned, LTyped, LTypeOK, WRec
  <2>3. PICK r \in SdRec : r = [pc |-> "next", todo |-> Listed(w), task |-> sd[w].task]
    BY <2>1, <2>2 DEF SdRec
  <2>4. [sd[w] EXCEPT !.todo = Listed(w)] = r
    BY <2>1, <2>2, <2>3 DEF SdRec
  <2>5. sd' = [sd EXCEPT ![w] = r]
    BY <1>4, <2>4
  <2>6. SdWell(r)
    BY <2>3 DEF SdWell
  <2>7. LTyped' /\ SdBecomes(w, r)
    BY <1>1, <1>2, <1>4, <2>5, <2>6, SdType DEF LTyped, LTypeOK
  <2> QED BY <1>1, <1>4, <2>3, <2>7
<1> QED BY <1>1, <1>3, <1>4

LEMMA StopStepEffect ==
  ASSUME LTyped, NEW w \in Workers, NEW t \in Tasks, ShutdownStop(w, t)
  PROVE  /\ LTyped'
         /\ proc[w] = "stopping" /\ sd[w].pc = "next" /\ sd[w].todo[t] \in Cids
         /\ \/ /\ Exists(w, sd[w].todo[t]) /\ docker' = Moved(sd[w].todo[t], "exited")
               /\ SdBecomes(w, SdMoved(w, "remove", t))
            \/ /\ DockerStops => ~ Exists(w, sd[w].todo[t])
               /\ docker' = docker
               /\ SdBecomes(w, SdCleared(w, t))
         /\ UNCHANGED <<wDb, wQueue, run, stop, proc, db, tick, quiet, torn>>
<1> DEFINE c == sd[w].todo[t]
<1>1. /\ proc[w] = "stopping" /\ sd[w].pc = "next" /\ c # None
      /\ UNCHANGED <<wDb, wQueue, run, stop, proc, db, tick, quiet, torn>>
  BY DEF ShutdownStop
<1>2. c \in Cids
  BY <1>1, SdHolds DEF SdRec
<1>3. CASE Exists(w, c) /\ docker' = Moved(c, "exited") /\ sd' = SdAt(w, "remove", t)
  <2>1. docker' \in [Cids -> Container]
    BY <1>2, <1>3, LMovedType DEF Live
  <2>2. PICK r \in SdRec : r = SdMoved(w, "remove", t) /\ sd' = [sd EXCEPT ![w] = r]
    BY <1>3, SdAtIs
  <2>3. SdWell(r)
    BY <1>1, <2>2 DEF SdWell, SdMoved
  <2>4. LTyped' /\ SdBecomes(w, r)
    BY <1>1, <2>1, <2>2, <2>3, SdType DEF LTyped, LTypeOK
  <2> QED BY <1>1, <1>2, <1>3, <2>2, <2>4
<1>4. CASE (DockerStops => ~ Exists(w, c)) /\ sd' = SdDone(w, t) /\ docker' = docker
  <2>1. docker' \in [Cids -> Container]
    BY <1>4 DEF LTyped, LTypeOK
  <2>2. PICK r \in SdRec : /\ r = SdCleared(w, t) /\ sd' = [sd EXCEPT ![w] = r]
                           /\ SdWell(r)
    BY <1>4, SdDoneIs
  <2>3. LTyped' /\ SdBecomes(w, r)
    BY <1>1, <2>1, <2>2, SdType DEF LTyped, LTypeOK
  <2> QED BY <1>1, <1>2, <1>4, <2>2, <2>3
<1> QED BY <1>3, <1>4 DEF ShutdownStop, DockerStops

LEMMA RemoveStepEffect ==
  ASSUME LTyped, NEW w \in Workers, ShutdownRemove(w)
  PROVE  /\ LTyped'
         /\ proc[w] = "stopping" /\ sd[w].pc = "remove"
         /\ \E t \in Tasks :
              /\ t = sd[w].task /\ sd[w].todo[t] \in Cids
              /\ \/ /\ Exists(w, sd[w].todo[t]) /\ docker' = Moved(sd[w].todo[t], "removed")
                    /\ SdBecomes(w, SdMoved(w, "write", t))
                 \/ /\ DockerStops => ~ Exists(w, sd[w].todo[t])
                    /\ docker' = docker
                    /\ SdBecomes(w, SdCleared(w, t))
         /\ UNCHANGED <<wDb, wQueue, run, stop, proc, db, tick, quiet, torn>>
<1>1. /\ proc[w] = "stopping" /\ sd[w].pc = "remove"
      /\ UNCHANGED <<wDb, wQueue, run, stop, proc, db, tick, quiet, torn>>
  BY DEF ShutdownRemove
<1>2. PICK t \in Tasks : t = sd[w].task /\ sd[w].todo[t] \in Cids
  BY <1>1, SdHolds
<1> DEFINE c == sd[w].todo[t]
<1>3. CASE Exists(w, c) /\ docker' = Moved(c, "removed") /\ sd' = SdAt(w, "write", t)
  <2>1. docker' \in [Cids -> Container]
    BY <1>2, <1>3, LMovedType
  <2>2. PICK r \in SdRec : r = SdMoved(w, "write", t) /\ sd' = [sd EXCEPT ![w] = r]
    BY <1>3, SdAtIs
  <2>3. SdWell(r)
    BY <1>2, <2>2, WorkerAssumption DEF SdWell, SdMoved
  <2>4. LTyped' /\ SdBecomes(w, r)
    BY <1>1, <2>1, <2>2, <2>3, SdType DEF LTyped, LTypeOK
  <2> QED BY <1>1, <1>2, <1>3, <2>2, <2>4
<1>4. CASE (DockerStops => ~ Exists(w, c)) /\ sd' = SdDone(w, t) /\ docker' = docker
  <2>1. docker' \in [Cids -> Container]
    BY <1>4 DEF LTyped, LTypeOK
  <2>2. PICK r \in SdRec : /\ r = SdCleared(w, t) /\ sd' = [sd EXCEPT ![w] = r]
                           /\ SdWell(r)
    BY <1>4, SdDoneIs
  <2>3. LTyped' /\ SdBecomes(w, r)
    BY <1>1, <2>1, <2>2, SdType DEF LTyped, LTypeOK
  <2> QED BY <1>1, <1>2, <1>4, <2>2, <2>3
<1> QED BY <1>2, <1>3, <1>4 DEF ShutdownRemove, DockerStops

LEMMA WriteStepEffect ==
  ASSUME LTyped, NEW w \in Workers, ShutdownWrite(w)
  PROVE  /\ LTyped'
         /\ proc[w] = "stopping" /\ sd[w].pc = "write"
         /\ \E t \in Tasks :
              /\ t = sd[w].task /\ sd[w].todo[t] \in Cids
              /\ SdBecomes(w, SdCleared(w, t))
              /\ \/ /\ torn' = torn
                    /\ DbAt(w, t, [state |-> Completed,
                                   cid |-> IF wDb[w][t] = None THEN sd[w].todo[t]
                                           ELSE wDb[w][t].cid])
                 \/ /\ torn' = [torn EXCEPT ![w] = TRUE]
                    /\ DbAt(w, t, [state |-> Completed, cid |-> sd[w].todo[t]])
                 \/ torn' = torn /\ wDb' = wDb
         /\ UNCHANGED <<wQueue, run, stop, docker, proc, db, tick, quiet>>
<1>1. /\ proc[w] = "stopping" /\ sd[w].pc = "write"
      /\ UNCHANGED <<wQueue, run, stop, docker, proc, db, tick, quiet>>
  BY DEF ShutdownWrite
<1>2. PICK t \in Tasks : t = sd[w].task /\ sd[w].todo[t] \in Cids
  BY <1>1, SdHolds
<1>3. PICK r \in SdRec : r = SdCleared(w, t) /\ sd' = [sd EXCEPT ![w] = r] /\ SdWell(r)
  BY <1>2, SdDoneIs DEF ShutdownWrite
<1> DEFINE kept == IF wDb[w][t] = None THEN sd[w].todo[t] ELSE wDb[w][t].cid
<1>4. kept \in Cids \cup {None}
  BY <1>2 DEF LTyped, LTypeOK, WRec
<1>5. PICK new \in WRec : new = [state |-> Completed, cid |-> kept]
  BY <1>4 DEF WRec, State
<1>6. PICK old \in WRec : old = [state |-> Completed, cid |-> sd[w].todo[t]]
  BY <1>2 DEF WRec, State
<1>7. \/ wDb' = [wDb EXCEPT ![w][t] = new] /\ torn' = torn
      \/ wDb' = [wDb EXCEPT ![w][t] = old] /\ torn' = [torn EXCEPT ![w] = TRUE]
      \/ wDb' = wDb /\ torn' = torn
  BY <1>2, <1>5, <1>6 DEF ShutdownWrite
<1>8. /\ torn' \in [Workers -> BOOLEAN] /\ quiet' \in [Workers -> BOOLEAN]
      /\ docker' \in [Cids -> Container]
      /\ proc' \in [Workers -> {"up", "draining", "stopping", "closed", "exited", "crashed"}]
  BY <1>1, <1>7 DEF LTyped, LTypeOK
<1>9. /\ wDb' \in [Workers -> [Tasks -> WRec \cup {None}]]
      /\ \/ DbAt(w, t, new) /\ torn' = torn
         \/ DbAt(w, t, old) /\ torn' = [torn EXCEPT ![w] = TRUE]
         \/ wDb' = wDb /\ torn' = torn
  <2>0. ASSUME NEW rec \in WRec, wDb' = [wDb EXCEPT ![w][t] = rec]
        PROVE  DbAt(w, t, rec) /\ wDb' \in [Workers -> [Tasks -> WRec \cup {None}]]
    <3>1. wDb \in [Workers -> [Tasks -> WRec \cup {None}]]
      BY DEF LTyped, LTypeOK
    <3> QED BY <2>0, <3>1 DEF DbAt
  <2>1. CASE wDb' = [wDb EXCEPT ![w][t] = new] /\ torn' = torn
    BY <2>0, <2>1
  <2>2. CASE wDb' = [wDb EXCEPT ![w][t] = old] /\ torn' = [torn EXCEPT ![w] = TRUE]
    BY <2>0, <2>2
  <2>3. CASE wDb' = wDb /\ torn' = torn
    BY <2>3 DEF LTyped, LTypeOK
  <2> QED BY <1>7, <2>1, <2>2, <2>3
<1>10. LTyped' /\ SdBecomes(w, r)
  BY <1>1, <1>3, <1>8, <1>9, SdType
<1> QED BY <1>1, <1>2, <1>3, <1>5, <1>6, <1>9, <1>10

LEMMA CloseEffect ==
  ASSUME LTyped, NEW w \in Workers, Close(w)
  PROVE  /\ LTyped'
         /\ proc[w] = "stopping" /\ sd[w].pc = "next" /\ sd[w].todo = NoTodo
         /\ proc' = [proc EXCEPT ![w] = "closed"]
         /\ UNCHANGED <<wDb, wQueue, run, stop, docker, db, tick, sd, quiet, torn>>
<1>1. /\ proc[w] = "stopping" /\ sd[w].pc = "next" /\ sd[w].todo = NoTodo
      /\ proc' = [proc EXCEPT ![w] = "closed"]
      /\ UNCHANGED <<wDb, wQueue, run, stop, docker, db, tick, sd, quiet, torn>>
  BY DEF Close, wvars
<1> QED BY <1>1 DEF LTyped, LTypeOK, LRunType

LEMMA SdIdleType == SdIdle \in SdRec /\ SdWell(SdIdle) /\ SdIdle.pc = "next"
                    /\ SdIdle.todo = NoTodo
  BY DEF SdIdle, SdRec, SdWell, NoTodo

(* The end of a process, whichever way.                                    *)
Ends(w) ==
  /\ \E st \in {"exited", "crashed"} : proc' = [proc EXCEPT ![w] = st]
  /\ wQueue' = [wQueue EXCEPT ![w] = <<>>]
  /\ RunBecomes(w, RunIdle)
  /\ stop' = [stop EXCEPT ![w] = None]
  /\ tick' = [tick EXCEPT ![w] = FALSE]
  /\ \E b \in BOOLEAN : /\ torn' = [torn EXCEPT ![w] = b]
                        /\ ~ b => ~ torn[w] /\ run[w].pc = "idle"
  /\ UNCHANGED <<wDb, docker, db, quiet>>

LEMMA GoneEffect ==
  ASSUME LTyped, NEW w \in Workers, NEW st \in {"exited", "crashed"},
         proc' = [proc EXCEPT ![w] = st], Gone(w),
         sd' = sd \/ sd' = [sd EXCEPT ![w] = SdIdle]
  PROVE  LTyped' /\ Ends(w)
<1>1. LRunType' /\ RunBecomes(w, RunIdle)
  BY IdleType, LRunWrite DEF RunBecomes, Gone
<1>2. PICK b \in BOOLEAN : b = (torn[w] \/ run[w].pc # "idle")
  OBVIOUS
<1>3. /\ wQueue' = [wQueue EXCEPT ![w] = <<>>]
      /\ stop' = [stop EXCEPT ![w] = None]
      /\ tick' = [tick EXCEPT ![w] = FALSE]
      /\ torn' = [torn EXCEPT ![w] = b]
      /\ UNCHANGED <<wDb, docker, db, quiet>>
  BY <1>2 DEF Gone
<1>4. Ends(w)
  BY <1>1, <1>2, <1>3 DEF Ends
<1>5. /\ sd' \in [Workers -> SdRec] /\ \A v \in Workers : SdWell(sd'[v])
  <2>1. CASE sd' = sd
    BY <2>1 DEF LTyped, LTypeOK, SdRec, SdWell
  <2>2. CASE sd' = [sd EXCEPT ![w] = SdIdle]
    BY <2>2, SdIdleType, SdWrite
  <2> QED BY <2>1, <2>2
<1>6. /\ proc' \in [Workers -> {"up", "draining", "stopping", "closed", "exited", "crashed"}]
      /\ wQueue' \in [Workers -> Seq(Entry)] /\ stop' \in [Workers -> Entry \cup {None}]
      /\ tick' \in [Workers -> BOOLEAN] /\ torn' \in [Workers -> BOOLEAN]
  BY <1>3 DEF LTyped, LTypeOK
<1>7. LTyped'
  BY <1>1, <1>3, <1>5, <1>6 DEF LTyped, LTypeOK, SdRec, SdWell
<1> QED BY <1>4, <1>7

LEMMA ExitEffect ==
  ASSUME LTyped, NEW w \in Workers, Exit(w)
  PROVE  /\ LTyped' /\ Ends(w) /\ sd' = sd
         /\ proc[w] = "closed" /\ proc'[w] = "exited"
<1>1. proc[w] = "closed" /\ proc' = [proc EXCEPT ![w] = "exited"] /\ Gone(w) /\ sd' = sd
  BY DEF Exit
<1>2. proc'[w] = "exited"
  BY <1>1 DEF LTyped, LTypeOK
<1> QED BY <1>1, <1>2, GoneEffect

LEMMA CrashEffect ==
  ASSUME LTyped, NEW w \in Workers, Crash(w)
  PROVE  /\ LTyped' /\ Ends(w) /\ SdBecomes(w, SdIdle)
         /\ proc'[w] = "crashed"
<1>1. /\ proc' = [proc EXCEPT ![w] = "crashed"] /\ Gone(w)
      /\ sd' = [sd EXCEPT ![w] = SdIdle]
  BY DEF Crash
<1>2. proc'[w] = "crashed"
  BY <1>1 DEF LTyped, LTypeOK
<1>3. SdBecomes(w, SdIdle)
  BY <1>1, SdIdleType, SdWrite DEF SdBecomes
<1> QED BY <1>1, <1>2, <1>3, GoneEffect

LEMMA NewWorkerEffect ==
  ASSUME LTyped, NEW w \in Workers, NewWorker(w)
  PROVE  /\ LTyped'
         /\ proc[w] \in {"exited", "crashed"} /\ proc' = [proc EXCEPT ![w] = "up"]
         /\ SdBecomes(w, SdIdle)
         /\ \A v \in Workers : v # w => wDb'[v] = wDb[v]
         /\ wDb'[w] = wDb[w] \/ (db[w] # "kept" /\ \A t \in Tasks : wDb'[w][t] = None)
         /\ UNCHANGED <<wQueue, run, stop, docker, db, tick, quiet, torn>>
<1>1. /\ proc[w] \in {"exited", "crashed"} /\ proc' = [proc EXCEPT ![w] = "up"]
      /\ sd' = [sd EXCEPT ![w] = SdIdle]
      /\ wDb' = [wDb EXCEPT ![w] = Reopened(w)]
      /\ UNCHANGED <<wQueue, run, stop, docker, db, tick, quiet, torn>>
  BY DEF NewWorker
<1>2. wDb \in [Workers -> [Tasks -> WRec \cup {None}]]
  BY DEF LTyped, LTypeOK
<1>3. Reopened(w) \in [Tasks -> WRec \cup {None}]
  BY <1>2 DEF Reopened
<1>4. /\ wDb' \in [Workers -> [Tasks -> WRec \cup {None}]]
      /\ \A v \in Workers : wDb'[v] = IF v = w THEN Reopened(w) ELSE wDb[v]
  BY <1>1, <1>2, <1>3
<1>5. /\ sd' \in [Workers -> SdRec] /\ SdBecomes(w, SdIdle)
      /\ \A v \in Workers : SdWell(sd'[v])
  BY <1>1, SdIdleType, SdWrite DEF SdBecomes
<1>6. LTyped'
  BY <1>1, <1>4, <1>5 DEF LTyped, LTypeOK, LRunType, SdRec, SdWell
<1> QED BY <1>1, <1>4, <1>5, <1>6 DEF Reopened

LEMMA ExitsType ==
  ASSUME LTyped, NEW c \in Cids, ContainerExit(c), UNCHANGED pvars
  PROVE  /\ LTyped'
         /\ docker[c].st \in Live /\ docker' = Moved(c, "exited")
         /\ UNCHANGED <<wDb, wQueue, run, stop, proc, db, tick, sd, quiet, torn>>
<1>1. /\ docker[c].st = "running" /\ docker' = Moved(c, "exited")
      /\ UNCHANGED <<wDb, wQueue, run, stop, proc, db, tick, sd, quiet, torn>>
  BY DEF ContainerExit, pvars
<1>2. docker' \in [Cids -> Container]
  BY <1>1, LMovedType DEF Live
<1> QED BY <1>1, <1>2 DEF LTyped, LTypeOK, LRunType, Live

(***************************************************************************)
(* Shutdown's locals are at rest in every other part of a life, and a      *)
(* container it is about to record as stopped is removed for good.         *)
(***************************************************************************)
SdStage ==
  \A w \in Workers :
    /\ proc[w] # "stopping" => sd[w].pc = "next" /\ sd[w].todo = NoTodo
    /\ sd[w].pc = "write" => docker[sd[w].todo[sd[w].task]].st = "removed"

(* The steps that belong to one worker.                                    *)
Step(w) ==
  \/ \E t \in Tasks, s \in PostStates : \E c \in KnownCids(t) :
       StartArrives(w, [task |-> t, rec |-> [state |-> s, cid |-> c]])
  \/ \E t \in Tasks : StopArrives(w, t)
  \/ StopHandled(w) \/ RunLoop(w) \/ Shutdown(w)
  \/ Signal(w) \/ Crash(w) \/ NewWorker(w)

LEMMA StepType ==
  ASSUME LTyped, SdStage, NEW w \in Workers, Step(w)
  PROVE  LTyped'
<1>1. ASSUME NEW t \in Tasks, NEW s \in PostStates, NEW c \in KnownCids(t),
             StartArrives(w, [task |-> t, rec |-> [state |-> s, cid |-> c]])
      PROVE  LTyped'
  BY <1>1, SentType, StartArrivesType
<1>2. ASSUME RunLoop(w)
      PROVE  LTyped'
  BY <1>2, TakeEntryEffect, TakeEntryBlindEffect, StopCallEffect, RemoveCallEffect,
     CreateFailsEffect, RunCallEffect, RecordEffect, RecordBlindEffect
     DEF RunLoop, DockerCall
<1>3. ASSUME Shutdown(w)
      PROVE  LTyped'
  <2>1. ASSUME ShutdownList(w)
        PROVE  LTyped'
    <3>1. sd[w].pc = "next"
      BY <2>1 DEF ShutdownList, SdStage
    <3> QED BY <2>1, <3>1, ListEffect
  <2> QED BY <1>3, <2>1, StopStepEffect, RemoveStepEffect, WriteStepEffect, CloseEffect,
             ExitEffect DEF Shutdown
<1> QED BY <1>1, <1>2, <1>3, StopArrivesType, StopHandledType, SignalEffect, CrashEffect,
           NewWorkerEffect DEF Step

LEMMA NextIsStep ==
  ASSUME [LNext]_lvars
  PROVE  \/ \E w \in Workers : Step(w)
         \/ \E c \in Cids : ContainerExit(c) /\ UNCHANGED pvars
         \/ UNCHANGED lvars
  BY DEF LNext, Step

LEMMA TypedNext ==
  ASSUME LTyped, SdStage, [LNext]_lvars
  PROVE  LTyped'
<1>1. CASE UNCHANGED lvars
  BY <1>1 DEF lvars, wvars, pvars, LTyped, LTypeOK, LRunType
<1> QED BY <1>1, NextIsStep, StepType, ExitsType

-----------------------------------------------------------------------------
(***************************************************************************)
(* What a step leaves alone: the other workers, and of the containers      *)
(* everything but the state of one and the birth of one.                   *)
(***************************************************************************)
Untouched(v) ==
  /\ \A t \in Tasks : wDb'[v][t] = wDb[v][t]
  /\ wQueue'[v] = wQueue[v] /\ run'[v] = run[v] /\ stop'[v] = stop[v]
  /\ proc'[v] = proc[v] /\ db'[v] = db[v] /\ tick'[v] = tick[v]
  /\ sd'[v] = sd[v] /\ quiet'[v] = quiet[v] /\ torn'[v] = torn[v]

(* An update at one worker leaves the others alone.                        *)
LEMMA Domains ==
  ASSUME LTyped, NEW w \in Workers, NEW v \in Workers, v # w
  PROVE  /\ \A x : [wQueue EXCEPT ![w] = x][v] = wQueue[v]
         /\ \A x : [stop EXCEPT ![w] = x][v] = stop[v]
         /\ \A x : [proc EXCEPT ![w] = x][v] = proc[v]
         /\ \A x : [tick EXCEPT ![w] = x][v] = tick[v]
         /\ \A x : [quiet EXCEPT ![w] = x][v] = quiet[v]
         /\ \A x : [torn EXCEPT ![w] = x][v] = torn[v]
  BY DEF LTyped, LTypeOK

LEMMA RunLoopFrame ==
  ASSUME LTyped, NEW w \in Workers, NEW v \in Workers, v # w, RunLoop(w)
  PROVE  Untouched(v)
<1>1. CASE TakeEntry(w)
  <2>1. PICK r \in RunRec : TakesEntry(w, r)
    BY <1>1, TakeEntryEffect
  <2>2. torn' = torn /\ DbAt(w, Taken(w).task, Persisted(w, Taken(w)))
    BY <1>1, TakeEntryEffect
  <2> QED BY <2>1, <2>2, Domains DEF TakesEntry, RunBecomes, DbAt, Untouched
<1>2. CASE TakeEntryBlind(w)
  <2>1. PICK r \in RunRec : TakesEntry(w, r)
    BY <1>2, TakeEntryBlindEffect
  <2>2. /\ torn' = torn \/ torn' = [torn EXCEPT ![w] = TRUE]
        /\ wDb' = wDb \/ DbAt(w, Taken(w).task, Taken(w).rec)
    BY <1>2, TakeEntryBlindEffect
  <2>3. torn'[v] = torn[v]
    BY <2>2 DEF LTyped, LTypeOK
  <2>4. \A t \in Tasks : wDb'[v][t] = wDb[v][t]
    BY <2>2 DEF DbAt
  <2> QED BY <2>1, <2>3, <2>4, Domains DEF TakesEntry, RunBecomes, Untouched
<1>3. CASE DockerCall(w)
  <2>1. PICK r \in RunRec : CallMade(w, r)
    BY <1>3, StopCallEffect, RemoveCallEffect, CreateFailsEffect, RunCallEffect DEF DockerCall
  <2> QED BY <2>1 DEF CallMade, RunBecomes, Untouched
<1>4. CASE Record(w)
  <2>1. /\ DbAt(w, run[w].ent.task, Upserted(w)) /\ RunBecomes(w, RunIdle)
        /\ UNCHANGED <<wQueue, stop, docker, proc, db, tick, sd, quiet, torn>>
    BY <1>4, RecordEffect
  <2> QED BY <2>1 DEF RunBecomes, DbAt, Untouched
<1>5. CASE RecordBlind(w)
  <2>1. /\ wDb' = wDb \/ DbAt(w, run[w].ent.task, FromEntry(w))
        /\ RunBecomes(w, RunIdle)
        /\ torn' = torn \/ torn' = [torn EXCEPT ![w] = TRUE]
        /\ UNCHANGED <<wQueue, stop, docker, proc, db, tick, sd, quiet>>
    BY <1>5, RecordBlindEffect
  <2>2. torn'[v] = torn[v]
    BY <2>1 DEF LTyped, LTypeOK
  <2>3. \A t \in Tasks : wDb'[v][t] = wDb[v][t]
    BY <2>1 DEF DbAt
  <2> QED BY <2>1, <2>2, <2>3 DEF RunBecomes, Untouched
<1> QED BY <1>1, <1>2, <1>3, <1>4, <1>5 DEF RunLoop

LEMMA EndsFrame ==
  ASSUME LTyped, NEW w \in Workers, NEW v \in Workers, v # w, Ends(w),
         sd' = sd \/ SdBecomes(w, SdIdle)
  PROVE  Untouched(v)
<1>1. /\ proc'[v] = proc[v] /\ wQueue'[v] = wQueue[v] /\ stop'[v] = stop[v]
      /\ tick'[v] = tick[v] /\ torn'[v] = torn[v]
  BY Domains DEF Ends
<1>2. run'[v] = run[v] /\ sd'[v] = sd[v] /\ UNCHANGED <<wDb, db, quiet>>
  BY DEF Ends, RunBecomes, SdBecomes
<1> QED BY <1>1, <1>2 DEF Untouched

LEMMA ShutdownFrame ==
  ASSUME LTyped, SdStage, NEW w \in Workers, NEW v \in Workers, v # w, Shutdown(w)
  PROVE  Untouched(v)
<1>1. CASE ShutdownList(w)
  <2>1. sd[w].pc = "next"
    BY <1>1 DEF ShutdownList, SdStage
  <2>2. /\ proc' = [proc EXCEPT ![w] = "stopping"]
        /\ \/ /\ SdBecomes(w, [pc |-> "next", todo |-> Listed(w), task |-> sd[w].task])
              /\ quiet' = quiet
           \/ sd' = sd /\ quiet' = [quiet EXCEPT ![w] = FALSE]
        /\ UNCHANGED <<wDb, wQueue, run, stop, db, tick, torn>>
    BY <1>1, <2>1, ListEffect
  <2>3. sd'[v] = sd[v]
    BY <2>2 DEF SdBecomes
  <2>4. quiet'[v] = quiet[v] /\ proc'[v] = proc[v]
    BY <2>2 DEF LTyped, LTypeOK
  <2> QED BY <2>2, <2>3, <2>4 DEF Untouched
<1>2. ASSUME NEW t \in Tasks, ShutdownStop(w, t)
      PROVE  Untouched(v)
  <2>1. /\ \E r : SdBecomes(w, r)
        /\ UNCHANGED <<wDb, wQueue, run, stop, proc, db, tick, quiet, torn>>
    BY <1>2, StopStepEffect
  <2> QED BY <2>1 DEF SdBecomes, Untouched
<1>3. CASE ShutdownRemove(w)
  <2>1. /\ \E r : SdBecomes(w, r)
        /\ UNCHANGED <<wDb, wQueue, run, stop, proc, db, tick, quiet, torn>>
    BY <1>3, RemoveStepEffect
  <2> QED BY <2>1 DEF SdBecomes, Untouched
<1>4. CASE ShutdownWrite(w)
  <2>1. /\ \E r : SdBecomes(w, r)
        /\ wDb' = wDb \/ \E t, rec : DbAt(w, t, rec)
        /\ torn' = torn \/ torn' = [torn EXCEPT ![w] = TRUE]
        /\ UNCHANGED <<wQueue, run, stop, docker, proc, db, tick, quiet>>
    BY <1>4, WriteStepEffect
  <2>2. sd'[v] = sd[v] /\ \A t \in Tasks : wDb'[v][t] = wDb[v][t]
    BY <2>1 DEF SdBecomes, DbAt
  <2>3. torn'[v] = torn[v]
    BY <2>1 DEF LTyped, LTypeOK
  <2> QED BY <2>1, <2>2, <2>3 DEF Untouched
<1>5. CASE Close(w)
  <2>1. /\ proc' = [proc EXCEPT ![w] = "closed"]
        /\ UNCHANGED <<wDb, wQueue, run, stop, docker, db, tick, sd, quiet, torn>>
    BY <1>5, CloseEffect
  <2> QED BY <2>1, Domains DEF Untouched
<1>6. CASE Exit(w)
  BY <1>6, ExitEffect, EndsFrame
<1> QED BY <1>1, <1>2, <1>3, <1>4, <1>5, <1>6 DEF Shutdown

LEMMA Frame ==
  ASSUME LTyped, SdStage, NEW w \in Workers, NEW v \in Workers, v # w, Step(w)
  PROVE  Untouched(v)
<1>1. ASSUME NEW ent, StartArrives(w, ent)
      PROVE  Untouched(v)
  BY <1>1, Domains DEF StartArrives, WStartTaskHandler, pvars, Untouched
<1>2. ASSUME NEW t \in Tasks, StopArrives(w, t)
      PROVE  Untouched(v)
  BY <1>2, Domains DEF StopArrives, WStopLookup, pvars, Untouched
<1>3. CASE StopHandled(w)
  BY <1>3, Domains DEF StopHandled, WStopEnqueue, pvars, Untouched
<1>4. CASE Signal(w)
  <2>1. /\ proc' = [proc EXCEPT ![w] = "draining"]
        /\ \E b : tick' = [tick EXCEPT ![w] = b]
        /\ \E b : quiet' = [quiet EXCEPT ![w] = b]
        /\ UNCHANGED <<wDb, wQueue, run, stop, docker, db, sd, torn>>
    BY <1>4, SignalEffect
  <2> QED BY <2>1, Domains DEF Untouched
<1>5. CASE Crash(w)
  BY <1>5, CrashEffect, EndsFrame
<1>6. CASE NewWorker(w)
  <2>1. /\ proc' = [proc EXCEPT ![w] = "up"] /\ SdBecomes(w, SdIdle)
        /\ wDb'[v] = wDb[v]
        /\ UNCHANGED <<wQueue, run, stop, docker, db, tick, quiet, torn>>
    BY <1>6, NewWorkerEffect
  <2> QED BY <2>1, Domains DEF SdBecomes, Untouched
<1> QED BY <1>1, <1>2, <1>3, <1>4, <1>5, <1>6, RunLoopFrame, ShutdownFrame DEF Step

(* Removed is for good, and a container keeps its task.                    *)
DockerSafe ==
  /\ TasksKept
  /\ FreshIds'
  /\ \A c \in Cids : docker[c].st = "removed" => docker'[c].st = "removed"

Fewer(v, t) == ContainersNext(v, t) \subseteq ContainersOf(v, t)

LEMMA SameDocker ==
  ASSUME FreshIds, docker' = docker
  PROVE  DockerSafe /\ \A v \in Workers, t \in Tasks : Fewer(v, t)
  BY DEF DockerSafe, TasksKept, FreshIds, Fewer, ContainersNext, ContainersOf, Exists,
         ExistsNext

LEMMA MovedDocker ==
  ASSUME LTyped, FreshIds, NEW c \in Cids, NEW st \in {"exited", "removed"},
         docker[c].st \in Live, docker' = Moved(c, st)
  PROVE  DockerSafe /\ \A v \in Workers, t \in Tasks : Fewer(v, t)
<1>1. \A d \in Cids : /\ docker'[d].task = docker[d].task
                      /\ docker'[d].node = docker[d].node
                      /\ docker'[d].st = IF d = c THEN st ELSE docker[d].st
  BY LMovedType DEF Live
<1>2. DockerSafe
  BY <1>1 DEF DockerSafe, TasksKept, FreshIds, Live
<1>3. \A v \in Workers, t \in Tasks : Fewer(v, t)
  BY <1>1 DEF Fewer, ContainersNext, ContainersOf, Exists, ExistsNext
<1> QED BY <1>2, <1>3

LEMMA MadeDocker ==
  ASSUME LTyped, FreshIds, NEW w \in Workers, NEW c \in Cids,
         NEW st \in {"running", "created"}, run[w].pc # "idle", docker[c].st = "unused",
         docker' = Made(w, c, st)
  PROVE  /\ DockerSafe
         /\ docker'[c].task = run[w].ent.task
         /\ \A v \in Workers, t \in Tasks : v # w \/ t # run[w].ent.task => Fewer(v, t)
         /\ ContainersNext(w, run[w].ent.task)
              \subseteq ContainersOf(w, run[w].ent.task) \cup {c}
<1>1. \A d \in Cids : docker'[d] =
        IF d = c THEN [st |-> st, task |-> run[w].ent.task, node |-> w] ELSE docker[d]
  BY DEF Made, LTyped, LTypeOK
<1>2. docker[c].task = None
  BY DEF FreshIds
<1>3. DockerSafe
  <2>1. TasksKept
    BY <1>1, <1>2 DEF TasksKept
  <2>2. FreshIds'
    BY <1>1 DEF FreshIds
  <2>3. \A d \in Cids : docker[d].st = "removed" => docker'[d].st = "removed"
    BY <1>1
  <2> QED BY <2>1, <2>2, <2>3 DEF DockerSafe
<1>4. /\ docker'[c].task = run[w].ent.task
      /\ \A v \in Workers, t \in Tasks : v # w \/ t # run[w].ent.task => Fewer(v, t)
      /\ ContainersNext(w, run[w].ent.task)
           \subseteq ContainersOf(w, run[w].ent.task) \cup {c}
  BY <1>1 DEF Fewer, ContainersNext, ContainersOf, Exists, ExistsNext
<1> QED BY <1>3, <1>4

(* A step makes no container but in Run, of the task and on the worker it  *)
(* is run for.                                                             *)
LEMMA StepDocker ==
  ASSUME LTyped, SdStage, FreshIds, NEW w \in Workers, Step(w)
  PROVE  /\ DockerSafe
         /\ \A v \in Workers, t \in Tasks :
              v # w \/ run[w].pc # "run" \/ t # run[w].ent.task => Fewer(v, t)
<1> DEFINE Goal == /\ DockerSafe
                   /\ \A v \in Workers, t \in Tasks :
                        v # w \/ run[w].pc # "run" \/ t # run[w].ent.task => Fewer(v, t)
<1>1. CASE docker' = docker
  BY <1>1, SameDocker
<1>2. ASSUME NEW c \in Cids, NEW st \in {"exited", "removed"}, docker[c].st \in Live,
             docker' = Moved(c, st)
      PROVE  Goal
  BY <1>2, MovedDocker
<1>3. ASSUME NEW c \in Cids, Run(w, c), UNCHANGED pvars
      PROVE  Goal
  <2>1. /\ run[w].pc = "run" /\ docker[c].st = "unused"
        /\ \E st \in {"running", "created"} : docker' = Made(w, c, st)
    BY <1>3, RunCallEffect
  <2> QED BY <2>1, MadeDocker
<1>4. CASE RunLoop(w)
  <2>1. CASE TakeEntry(w) \/ TakeEntryBlind(w) \/ Record(w) \/ RecordBlind(w)
    BY <1>1, <2>1 DEF TakeEntry, TakeEntryBlind, Record, RecordBlind, RunTask, Upsert
  <2>2. CASE DockerCall(w)
    <3>1. UNCHANGED pvars
      BY <2>2 DEF DockerCall
    <3>2. CASE ContainerStop(w)
      BY <1>1, <1>2, <3>1, <3>2, StopCallEffect
    <3>3. CASE ContainerRemove(w)
      BY <1>1, <1>2, <3>1, <3>3, RemoveCallEffect DEF Exists
    <3>4. CASE CreateFails(w)
      BY <1>1, <3>1, <3>4, CreateFailsEffect
    <3> QED BY <1>3, <2>2, <3>1, <3>2, <3>3, <3>4 DEF DockerCall
  <2> QED BY <1>4, <2>1, <2>2 DEF RunLoop
<1>5. CASE Shutdown(w)
  <2>1. ASSUME NEW t \in Tasks, ShutdownStop(w, t)
        PROVE  Goal
    BY <1>1, <1>2, <2>1, StopStepEffect DEF Exists
  <2>2. CASE ShutdownRemove(w)
    BY <1>1, <1>2, <2>2, RemoveStepEffect DEF Exists
  <2>3. CASE ShutdownList(w) \/ ShutdownWrite(w) \/ Close(w) \/ Exit(w)
    BY <1>1, <2>3 DEF ShutdownList, ShutdownWrite, Close, Exit, Gone, wvars
  <2> QED BY <1>5, <2>1, <2>2, <2>3 DEF Shutdown
<1>6. CASE \/ \E ent : StartArrives(w, ent)
           \/ \E t \in Tasks : StopArrives(w, t)
           \/ StopHandled(w) \/ Signal(w) \/ Crash(w) \/ NewWorker(w)
  <2>1. docker' = docker
    BY <1>6 DEF StartArrives, WStartTaskHandler, StopArrives, WStopLookup, StopHandled,
                WStopEnqueue, Signal, Crash, Gone, NewWorker, wvars
  <2> QED BY <1>1, <2>1
<1> QED BY <1>4, <1>5, <1>6 DEF Step

-----------------------------------------------------------------------------
(***************************************************************************)
(* The locals of Shutdown, and the type                                    *)
(***************************************************************************)
StageAt(w) ==
  /\ proc[w] # "stopping" => sd[w].pc = "next" /\ sd[w].todo = NoTodo
  /\ sd[w].pc = "write" => docker[sd[w].todo[sd[w].task]].st = "removed"

(* A step that leaves the process and its shutdown where they are.         *)
LEMMA StageStays ==
  ASSUME LTyped, SdStage, DockerSafe, NEW v \in Workers,
         proc'[v] = proc[v], sd'[v] = sd[v]
  PROVE  StageAt(v)'
<1>1. StageAt(v)
  BY DEF SdStage, StageAt
<1>2. sd[v].pc = "write" => sd[v].todo[sd[v].task] \in Cids
  BY SdHolds
<1> QED BY <1>1, <1>2 DEF StageAt, DockerSafe

LEMMA StageShutdown ==
  ASSUME LTyped, SdStage, DockerSafe, NEW w \in Workers, Shutdown(w)
  PROVE  StageAt(w)'
<1>0. proc[w] # "stopping" => sd[w].pc = "next" /\ sd[w].todo = NoTodo
  BY DEF SdStage
<1>1. CASE ShutdownList(w)
  <2>1. /\ sd[w].pc = "next" /\ proc[w] = "draining"
    BY <1>1 DEF ShutdownList, SdStage
  <2>2. /\ proc' = [proc EXCEPT ![w] = "stopping"]
        /\ \/ SdBecomes(w, [pc |-> "next", todo |-> Listed(w), task |-> sd[w].task])
           \/ sd' = sd
    BY <1>1, <2>1, ListEffect
  <2>3. proc'[w] = "stopping"
    BY <2>2 DEF LTyped, LTypeOK
  <2>4. sd'[w].pc = "next"
    BY <2>1, <2>2 DEF SdBecomes
  <2> QED BY <2>3, <2>4 DEF StageAt
<1>2. ASSUME NEW t \in Tasks, ShutdownStop(w, t)
      PROVE  StageAt(w)'
  <2>1. /\ proc' = proc /\ proc[w] = "stopping"
        /\ \/ SdBecomes(w, SdMoved(w, "remove", t))
           \/ SdBecomes(w, SdCleared(w, t))
    BY <1>2, StopStepEffect
  <2>2. sd'[w].pc # "write"
    BY <2>1 DEF SdBecomes, SdMoved, SdCleared
  <2> QED BY <2>1, <2>2 DEF StageAt
<1>3. CASE ShutdownRemove(w)
  <2>1. PICK t \in Tasks :
          /\ proc' = proc /\ proc[w] = "stopping" /\ sd[w].todo[t] \in Cids
          /\ \/ /\ docker' = Moved(sd[w].todo[t], "removed")
                /\ SdBecomes(w, SdMoved(w, "write", t))
             \/ SdBecomes(w, SdCleared(w, t))
    BY <1>3, RemoveStepEffect
  <2>2. CASE SdBecomes(w, SdCleared(w, t))
    <3>1. sd'[w].pc # "write"
      BY <2>2 DEF SdBecomes, SdCleared
    <3> QED BY <2>1, <3>1 DEF StageAt
  <2>3. CASE docker' = Moved(sd[w].todo[t], "removed") /\ SdBecomes(w, SdMoved(w, "write", t))
    <3>1. docker'[sd[w].todo[t]].st = "removed"
      BY <2>1, <2>3, LMovedType
    <3>2. sd'[w].todo = sd[w].todo /\ sd'[w].task = t
      BY <2>3 DEF SdBecomes, SdMoved
    <3> QED BY <2>1, <3>1, <3>2 DEF StageAt
  <2> QED BY <2>1, <2>2, <2>3
<1>4. CASE ShutdownWrite(w)
  <2>1. /\ proc' = proc /\ proc[w] = "stopping"
        /\ \E t \in Tasks : SdBecomes(w, SdCleared(w, t))
    BY <1>4, WriteStepEffect
  <2>2. sd'[w].pc # "write"
    BY <2>1 DEF SdBecomes, SdCleared
  <2> QED BY <2>1, <2>2 DEF StageAt
<1>5. CASE Close(w)
  <2>1. sd' = sd /\ sd[w].pc = "next" /\ sd[w].todo = NoTodo
    BY <1>5, CloseEffect
  <2> QED BY <2>1 DEF StageAt
<1>6. CASE Exit(w)
  <2>1. sd' = sd /\ proc[w] = "closed"
    BY <1>6, ExitEffect
  <2> QED BY <1>0, <2>1 DEF StageAt
<1> QED BY <1>1, <1>2, <1>3, <1>4, <1>5, <1>6 DEF Shutdown

LEMMA StageStep ==
  ASSUME LTyped, SdStage, FreshIds, NEW w \in Workers, Step(w)
  PROVE  SdStage' /\ FreshIds'
<1>1. DockerSafe
  BY StepDocker
<1>2. ASSUME NEW v \in Workers, v # w
      PROVE  StageAt(v)'
  <2>1. proc'[v] = proc[v] /\ sd'[v] = sd[v]
    BY <1>2, Frame DEF Untouched
  <2> QED BY <1>1, <2>1, StageStays
<1>3. StageAt(w)'
  <2>1. CASE \/ \E ent : StartArrives(w, ent)
             \/ \E t \in Tasks : StopArrives(w, t)
             \/ StopHandled(w)
             \/ RunLoop(w)
    <3>1. proc' = proc /\ sd' = sd
      BY <2>1 DEF StartArrives, StopArrives, StopHandled, RunLoop, TakeEntry, TakeEntryBlind,
                  DockerCall, Record, RecordBlind, pvars
    <3> QED BY <1>1, <3>1, StageStays
  <2>2. CASE Signal(w)
    <3>1. sd' = sd /\ proc[w] = "up"
      BY <2>2, SignalEffect
    <3> QED BY <3>1 DEF StageAt, SdStage
  <2>3. CASE Crash(w) \/ NewWorker(w)
    <3>1. sd'[w] = SdIdle
      BY <2>3, CrashEffect, NewWorkerEffect DEF SdBecomes
    <3> QED BY <3>1, SdIdleType DEF StageAt
  <2> QED BY <1>1, <2>1, <2>2, <2>3, StageShutdown DEF Step
<1>4. \A v \in Workers : StageAt(v)'
  BY <1>2, <1>3
<1> QED BY <1>1, <1>4 DEF SdStage, StageAt, DockerSafe

(* What every later argument starts from.                                  *)
LSound == LTyped /\ SdStage /\ FreshIds

LEMMA SoundNext == LSound /\ [LNext]_lvars => LSound'
<1> SUFFICES ASSUME LSound, [LNext]_lvars
             PROVE  LSound'
  OBVIOUS
<1> USE DEF LSound
<1>1. LTyped'
  BY TypedNext
<1>2. CASE UNCHANGED lvars
  BY <1>1, <1>2 DEF lvars, wvars, pvars, SdStage, FreshIds
<1>3. ASSUME NEW c \in Cids, ContainerExit(c), UNCHANGED pvars
      PROVE  SdStage' /\ FreshIds'
  <2>1. /\ docker[c].st \in Live /\ docker' = Moved(c, "exited")
        /\ proc' = proc /\ sd' = sd
    BY <1>3, ExitsType
  <2>2. DockerSafe
    BY <2>1, MovedDocker
  <2>3. \A v \in Workers : StageAt(v)'
    BY <2>1, <2>2, StageStays
  <2> QED BY <2>2, <2>3 DEF SdStage, StageAt, DockerSafe
<1> QED BY <1>1, <1>2, <1>3, NextIsStep, StageStep

LEMMA SoundInit == LInit => LSound
<1> SUFFICES ASSUME LInit
             PROVE  LSound
  OBVIOUS
<1>1. SdIdle \in SdRec /\ SdIdle.pc = "next" /\ SdIdle.todo = NoTodo
  BY SdIdleType
<1>2. sd = [w \in Workers |-> SdIdle] /\ sd \in [Workers -> SdRec]
  BY <1>1 DEF LInit
<1>3. LTypeOK
  BY <1>1, <1>2 DEF LInit, WInit, LTypeOK, SdRec, Container
<1>4. LRunType
  BY IdleType DEF LInit, WInit, LRunType
<1>5. SdStage
  BY <1>1, <1>2 DEF SdStage
<1>6. FreshIds
  BY DEF LInit, WInit, FreshIds
<1> QED BY <1>3, <1>4, <1>5, <1>6 DEF LSound, LTyped

LEMMA AlwaysSound == LSpec => []LSound
<1>1. LInit => LSound
  BY SoundInit
<1>2. LSound /\ [LNext]_lvars => LSound'
  BY SoundNext
<1> QED BY <1>1, <1>2, PTL DEF LSpec

(* The variables hold what the code's types allow, in every life of a      *)
(* worker process and through its shutdown, crashes and restarts.          *)
THEOREM LTypeCorrect == LSpec => []LTypeOK
<1>1. LSound => LTypeOK
  BY DEF LSound, LTyped
<1> QED BY <1>1, AlwaysSound, PTL

-----------------------------------------------------------------------------
(***************************************************************************)
(* What Shutdown has listed                                                *)
(***************************************************************************)
LEMMA OffTheList ==
  ASSUME LTyped, NEW w \in Workers, NEW t \in Tasks, NEW u \in Tasks,
         SdBecomes(w, SdCleared(w, u))
  PROVE  sd'[w].todo[t] = IF t = u THEN None ELSE sd[w].todo[t]
<1>1. sd[w].todo \in [Tasks -> Cids \cup {None}]
  BY SdHolds DEF SdRec
<1>2. sd'[w] = SdCleared(w, u)
  BY DEF SdBecomes
<1>3. sd'[w].todo = [sd[w].todo EXCEPT ![u] = None]
  BY <1>2 DEF SdCleared
<1> QED BY <1>1, <1>3

LEMMA ListedKept ==
  ASSUME LSound, [LNext]_lvars, NEW w \in Workers, NEW t \in Tasks, DockerStops,
         sd[w].todo[t] # None, sd'[w].todo[t] = None, proc'[w] # "crashed"
  PROVE  ~ ExistsNext(w, sd[w].todo[t])
<1> USE DEF LSound
<1>1. CASE sd'[w] = sd[w]
  BY <1>1
<1>2. proc[w] = "stopping"
  BY DEF SdStage, NoTodo
<1>3. ASSUME NEW u \in Tasks, SdBecomes(w, SdCleared(w, u)), docker' = docker,
             ~ Exists(w, sd[w].todo[u])
      PROVE  ~ ExistsNext(w, sd[w].todo[t])
  <2>1. t = u
    BY <1>3, OffTheList
  <2> QED BY <1>3, <2>1 DEF Exists, ExistsNext
<1>4. ASSUME NEW u \in Tasks, ShutdownStop(w, u)
      PROVE  ~ ExistsNext(w, sd[w].todo[t])
  <2>1. \/ SdBecomes(w, SdMoved(w, "remove", u))
        \/ /\ ~ Exists(w, sd[w].todo[u])
           /\ docker' = docker
           /\ SdBecomes(w, SdCleared(w, u))
    BY <1>4, StopStepEffect
  <2>2. CASE SdBecomes(w, SdMoved(w, "remove", u))
    BY <2>2 DEF SdBecomes, SdMoved
  <2> QED BY <1>3, <2>1, <2>2
<1>5. CASE ShutdownRemove(w)
  <2>1. PICK u \in Tasks :
          \/ SdBecomes(w, SdMoved(w, "write", u))
          \/ /\ ~ Exists(w, sd[w].todo[u])
             /\ docker' = docker
             /\ SdBecomes(w, SdCleared(w, u))
    BY <1>5, RemoveStepEffect
  <2>2. CASE SdBecomes(w, SdMoved(w, "write", u))
    BY <2>2 DEF SdBecomes, SdMoved
  <2> QED BY <1>3, <2>1, <2>2
<1>6. CASE ShutdownWrite(w)
  <2>1. PICK u \in Tasks : u = sd[w].task /\ SdBecomes(w, SdCleared(w, u))
    BY <1>6, WriteStepEffect
  <2>2. sd[w].pc = "write" /\ docker' = docker
    BY <1>6, WriteStepEffect
  <2>3. docker[sd[w].todo[u]].st = "removed"
    BY <2>1, <2>2 DEF SdStage
  <2>4. ~ Exists(w, sd[w].todo[u])
    BY <2>3 DEF Exists, Live
  <2> QED BY <1>3, <2>1, <2>2, <2>4
<1>7. CASE ShutdownList(w) \/ Close(w) \/ Exit(w) \/ Signal(w) \/ NewWorker(w) \/ Crash(w)
  <2>1. CASE Close(w)
    <3>1. sd' = sd
      BY <2>1, CloseEffect
    <3> QED BY <1>1, <3>1
  <2>2. CASE ShutdownList(w) \/ Exit(w) \/ Signal(w) \/ NewWorker(w)
    BY <1>2, <2>2 DEF ShutdownList, Exit, Signal, NewWorker
  <2>3. CASE Crash(w)
    BY <2>3, CrashEffect
  <2> QED BY <1>7, <2>1, <2>2, <2>3
<1>8. CASE \/ \E ent : StartArrives(w, ent)
           \/ \E u \in Tasks : StopArrives(w, u)
           \/ StopHandled(w)
           \/ RunLoop(w)
  <2>1. sd' = sd
    BY <1>8 DEF StartArrives, StopArrives, StopHandled, RunLoop, TakeEntry, TakeEntryBlind,
                DockerCall, Record, RecordBlind, pvars
  <2> QED BY <1>1, <2>1
<1>9. CASE Step(w)
  BY <1>4, <1>5, <1>6, <1>7, <1>8, <1>9 DEF Step, Shutdown
<1>10. ASSUME NEW v \in Workers, v # w, Step(v)
       PROVE  ~ ExistsNext(w, sd[w].todo[t])
  <2>1. sd'[w] = sd[w]
    BY <1>10, Frame DEF Untouched
  <2> QED BY <1>1, <2>1
<1>11. CASE UNCHANGED lvars
  <2>1. sd' = sd
    BY <1>11 DEF lvars, pvars
  <2> QED BY <1>1, <2>1
<1>12. CASE \E c \in Cids : ContainerExit(c) /\ UNCHANGED pvars
  <2>1. sd' = sd
    BY <1>12 DEF pvars
  <2> QED BY <1>1, <2>1
<1> QED BY <1>9, <1>10, <1>11, <1>12, NextIsStep

(* While Docker works, a container that Worker.Shutdown has listed is gone *)
(* when it goes off the list, whatever RunTasks and the manager's requests *)
(* do to the task meanwhile.                                               *)
THEOREM ListedContainersGo == LSpec => ListedIsGone
<1>1. LSound /\ [LNext]_lvars =>
        [\A w \in Workers, t \in Tasks :
           LET c == sd[w].todo[t] IN
           /\ DockerStops
           /\ c # None /\ sd'[w].todo[t] = None
           /\ proc'[w] # "crashed"
           => ~ (docker'[c].st \in Live /\ docker'[c].node = w)]_lvars
  BY ListedKept DEF ExistsNext
<1> QED BY <1>1, AlwaysSound, PTL DEF LSpec, ListedIsGone

-----------------------------------------------------------------------------
(***************************************************************************)
(* No orphans. While nothing has gone wrong at a worker, a container of a  *)
(* named task is the one RunTask has just started, or else the one the     *)
(* task's record names. This is stronger than NoOrphans, which says        *)
(* nothing of a task RunTask is at work on: there the record has to be     *)
(* right for the moment when RunTask ends.                                 *)
(***************************************************************************)
Whole(w) == RunIsWhole /\ db[w] = "kept" /\ ~ torn[w]

KnownTo(w, t) ==
  \A c \in ContainersOf(w, t) :
    IF run[w].pc = "started" /\ run[w].ent.task = t
    THEN run[w].cid = c
    ELSE wDb[w][t] # None /\ wDb[w][t].cid = c

Recorded == \A w \in Workers, t \in Named : Whole(w) => KnownTo(w, t)

(* The history is never rewritten.                                         *)
LEMMA WholeBefore ==
  ASSUME LSound, NEW w \in Workers, NEW v \in Workers, Step(w), Whole(v)'
  PROVE  Whole(v)
<1> USE DEF LSound
<1>1. db' = db
  BY DEF Step, StartArrives, StopArrives, StopHandled, RunLoop, Shutdown, Signal, Crash,
         NewWorker, TakeEntry, TakeEntryBlind, DockerCall, Record, RecordBlind, ShutdownList,
         ShutdownStop, ShutdownRemove, ShutdownWrite, Close, Exit, Gone, pvars
<1>2. \/ torn' = torn
      \/ torn' = [torn EXCEPT ![w] = TRUE]
      \/ torn' = [torn EXCEPT ![w] = @ \/ run[w].pc # "idle"]
  BY DEF Step, StartArrives, StopArrives, StopHandled, RunLoop, Shutdown, Signal, Crash,
         NewWorker, TakeEntry, TakeEntryBlind, DockerCall, Record, RecordBlind, ShutdownList,
         ShutdownStop, ShutdownRemove, ShutdownWrite, Close, Exit, Gone, pvars
<1>3. torn[v] => torn'[v]
  BY <1>2 DEF LTyped, LTypeOK
<1> QED BY <1>1, <1>3 DEF Whole

(* A step that leaves RunTask where it is makes no container.              *)
LEMMA OnlyRunMakes ==
  ASSUME LSound, NEW w \in Workers, Step(w), run'[w] = run[w]
  PROVE  \A v \in Workers, t \in Tasks : Fewer(v, t)
<1> USE DEF LSound
<1>1. ASSUME NEW c \in Cids, Run(w, c), UNCHANGED pvars
      PROVE  FALSE
  <2>1. PICK r \in RunRec : CallMade(w, r) /\ r.pc # "run"
    BY <1>1, RunCallEffect
  <2>2. run'[w].pc # "run" /\ run[w].pc = "run"
    BY <1>1, <2>1 DEF CallMade, RunBecomes, Run
  <2> QED BY <2>2
<1>2. CASE docker' = docker
  BY <1>2, SameDocker
<1>3. ASSUME NEW c \in Cids, NEW st \in {"exited", "removed"}, docker[c].st \in Live,
             docker' = Moved(c, st)
      PROVE  \A v \in Workers, t \in Tasks : Fewer(v, t)
  BY <1>3, MovedDocker
<1>4. CASE run[w].pc # "run"
  BY <1>4, StepDocker
<1>5. CASE Shutdown(w)
  <2>1. ASSUME NEW t \in Tasks, ShutdownStop(w, t)
        PROVE  \A v \in Workers, u \in Tasks : Fewer(v, u)
    BY <1>2, <1>3, <2>1, StopStepEffect DEF Exists
  <2>2. CASE ShutdownRemove(w)
    BY <1>2, <1>3, <2>2, RemoveStepEffect DEF Exists
  <2>3. CASE ShutdownList(w) \/ ShutdownWrite(w) \/ Close(w) \/ Exit(w)
    BY <1>2, <2>3 DEF ShutdownList, ShutdownWrite, Close, Exit, Gone, wvars
  <2> QED BY <1>5, <2>1, <2>2, <2>3 DEF Shutdown
<1>6. CASE ~ RunLoop(w) /\ ~ Shutdown(w)
  <2>1. docker' = docker
    BY <1>6 DEF Step, StartArrives, WStartTaskHandler, StopArrives, WStopLookup, StopHandled,
                WStopEnqueue, Signal, Crash, Gone, NewWorker, wvars
  <2> QED BY <1>2, <2>1
<1>7. CASE RunLoop(w) /\ run[w].pc = "run"
  <2>1. CASE TakeEntry(w) \/ TakeEntryBlind(w) \/ Record(w) \/ RecordBlind(w)
    BY <1>2, <2>1 DEF TakeEntry, TakeEntryBlind, Record, RecordBlind, RunTask, Upsert
  <2>2. CASE DockerCall(w)
    BY <1>1, <1>2, <1>7, <2>2
       DEF DockerCall, ContainerStop, ContainerRemove, CreateFails
  <2> QED BY <1>7, <2>1, <2>2 DEF RunLoop
<1> QED BY <1>4, <1>5, <1>6, <1>7

LEMMA KnownStays ==
  ASSUME NEW v \in Workers, NEW t \in Tasks, Fewer(v, t), KnownTo(v, t),
         wDb[v][t] # None => wDb'[v][t] # None /\ wDb'[v][t].cid = wDb[v][t].cid,
         run'[v] = run[v] \/ (run[v].pc # "started" /\ run'[v].pc # "started")
  PROVE  KnownTo(v, t)'
<1> SUFFICES ASSUME NEW c \in ContainersNext(v, t)
             PROVE  IF run'[v].pc = "started" /\ run'[v].ent.task = t
                    THEN run'[v].cid = c
                    ELSE wDb'[v][t] # None /\ wDb'[v][t].cid = c
  BY DEF KnownTo, ContainersNext, ContainersOf, Exists, ExistsNext
<1>1. c \in ContainersOf(v, t)
  BY DEF Fewer
<1> QED BY <1>1 DEF KnownTo

(* A start is recorded, unless its write fails.                            *)
LEMMA StartedIsRecorded ==
  ASSUME LTyped, NEW w \in Workers, RecordBlind(w), ~ torn'[w], run[w].pc = "started"
  PROVE  /\ wDb'[w][run[w].ent.task] # None
         /\ wDb'[w][run[w].ent.task].cid = run[w].cid
<1>1. run[w].ent.task \in Tasks /\ run[w].cid \in Cids \cup {None}
  BY LBusyHolds
<1>2. PICK t \in Tasks : t = run[w].ent.task
  BY <1>1
<1>3. PICK rec \in WRec : rec = [state |-> Running, cid |-> run[w].cid]
  BY <1>1 DEF WRec, State
<1>4. wDb' = [wDb EXCEPT ![w][t] = rec]
  BY <1>2, <1>3 DEF RecordBlind, FromEntry, LTyped, LTypeOK
<1>5. wDb'[w][t] = rec
  BY <1>4 DEF LTyped, LTypeOK
<1> QED BY <1>2, <1>3, <1>5, WorkerAssumption

(* RunTask: the record is right when it is written, and not touched before *)
(* the container it names is gone.                                         *)
LEMMA KnownRunLoop ==
  ASSUME LSound, NEW w \in Workers, NEW t \in Tasks, t \in Named, Step(w), RunLoop(w),
         KnownTo(w, t), Whole(w)'
  PROVE  KnownTo(w, t)'
<1> USE DEF LSound
<1>0. ~ torn'[w] /\ RunIsWhole
  BY DEF Whole
<1>1. CASE TakeEntry(w)
  <2>1. PICK r \in RunRec : TakesEntry(w, r)
    BY <1>1, TakeEntryEffect
  <2>2. DbAt(w, Taken(w).task, Persisted(w, Taken(w)))
    BY <1>1, TakeEntryEffect
  <2>3. docker' = docker /\ run[w].pc # "started" /\ run'[w].pc # "started"
    BY <2>1 DEF TakesEntry, RunBecomes
  <2>4. wDb[w][t] # None => wDb'[w][t] = wDb[w][t]
    BY <2>2 DEF DbAt, Persisted
  <2>5. Fewer(w, t)
    BY <2>3, SameDocker
  <2> QED BY <2>3, <2>4, <2>5, KnownStays
<1>2. CASE TakeEntryBlind(w)
  <2>1. wDb' = wDb
    BY <1>0, <1>2, TakeEntryBlindEffect DEF LTyped, LTypeOK
  <2>2. PICK r \in RunRec : TakesEntry(w, r)
    BY <1>2, TakeEntryBlindEffect
  <2>3. docker' = docker /\ run[w].pc # "started" /\ run'[w].pc # "started"
    BY <2>2 DEF TakesEntry, RunBecomes
  <2>4. Fewer(w, t)
    BY <2>3, SameDocker
  <2> QED BY <2>1, <2>3, <2>4, KnownStays
<1>3. CASE RecordBlind(w)
  <2>1. /\ wDb' = wDb \/ DbAt(w, run[w].ent.task, FromEntry(w))
        /\ \/ wDb' = wDb /\ run[w].pc # "started"
           \/ wDb[w][run[w].ent.task] = None
        /\ torn' = torn
    BY <1>0, <1>3, RecordBlindEffect DEF LTyped, LTypeOK
  <2>2. /\ run[w].pc \in {"started", "fail", "completed"}
        /\ RunBecomes(w, RunIdle) /\ docker' = docker
    BY <1>3, RecordBlindEffect
  <2>3. Fewer(w, t)
    BY <2>2, SameDocker
  <2>4. run'[w].pc # "started"
    BY <2>2, IdleType DEF RunBecomes
  <2>5. CASE run[w].pc = "started" /\ t = run[w].ent.task
    <3>1. wDb'[w][t] # None /\ wDb'[w][t].cid = run[w].cid
      BY <1>0, <1>3, <2>5, StartedIsRecorded
    <3>2. \A c \in ContainersNext(w, t) : run[w].cid = c
      BY <2>3, <2>5 DEF KnownTo, Fewer
    <3> QED BY <2>4, <3>1, <3>2
            DEF KnownTo, ContainersNext, ContainersOf, Exists, ExistsNext
  <2>6. CASE run[w].pc # "started"
    <3>1. wDb[w][t] # None => wDb'[w][t] = wDb[w][t]
      BY <2>1 DEF DbAt
    <3> QED BY <2>3, <2>4, <2>6, <3>1, KnownStays
  <2>7. CASE run[w].pc = "started" /\ t # run[w].ent.task
    <3>1. \A c \in ContainersNext(w, t) : wDb[w][t] # None /\ wDb[w][t].cid = c
      BY <2>3, <2>7 DEF KnownTo, Fewer
    <3>2. wDb'[w][t] = wDb[w][t]
      BY <2>1, <2>7 DEF DbAt
    <3> QED BY <2>4, <3>1, <3>2
            DEF KnownTo, ContainersNext, ContainersOf, Exists, ExistsNext
  <2> QED BY <2>5, <2>6, <2>7
<1>4. CASE DockerCall(w)
  <2>0. UNCHANGED pvars
    BY <1>4 DEF DockerCall
  <2>1. ASSUME NEW r \in RunRec, CallMade(w, r), r.pc # "started", run[w].pc # "started",
               Fewer(w, t)
        PROVE  KnownTo(w, t)'
    <3>1. run'[w].pc # "started" /\ wDb' = wDb
      BY <2>1 DEF CallMade, RunBecomes
    <3> QED BY <2>1, <3>1, KnownStays
  <2>2. CASE ContainerStop(w)
    <3>1. run[w].pc = "stop"
      BY <2>2 DEF ContainerStop
    <3>2. PICK r \in RunRec : CallMade(w, r) /\ r.pc \in {"remove", "idle", "fail"}
      BY <2>0, <2>2, StopCallEffect
    <3>3. Fewer(w, t)
      BY <3>1, StepDocker
    <3> QED BY <2>1, <3>1, <3>2, <3>3
  <2>3. CASE ContainerRemove(w)
    <3>1. run[w].pc = "remove"
      BY <2>3 DEF ContainerRemove
    <3>2. PICK r \in RunRec : CallMade(w, r) /\ r.pc \in {"completed", "run", "idle", "fail"}
      BY <2>0, <2>3, RemoveCallEffect
    <3>3. Fewer(w, t)
      BY <3>1, StepDocker
    <3> QED BY <2>1, <3>1, <3>2, <3>3
  <2>4. CASE CreateFails(w)
    <3>1. run[w].pc = "run" /\ docker' = docker
      BY <2>4 DEF CreateFails
    <3>2. PICK r \in RunRec : CallMade(w, r) /\ r.pc \in {"idle", "fail"}
      BY <2>0, <2>4, CreateFailsEffect
    <3>3. Fewer(w, t)
      BY <3>1, SameDocker
    <3> QED BY <2>1, <3>1, <3>2, <3>3
  <2>5. ASSUME NEW c \in Cids, Run(w, c)
        PROVE  KnownTo(w, t)'
    <3>1. PICK r \in RunRec : CallMade(w, r) /\ r.pc = "started" /\ r.cid = c
      BY <1>0, <2>0, <2>5, RunCallEffect
    <3>2. /\ run[w].pc = "run" /\ docker[c].st = "unused"
          /\ ~ NameTaken(w, run[w].ent.task)
          /\ \E st \in {"running", "created"} : docker' = Made(w, c, st)
      BY <2>0, <2>5, RunCallEffect
    <3>3. run'[w].pc = "started" /\ run'[w].cid = c /\ run'[w].ent = run[w].ent /\ wDb' = wDb
      BY <3>1 DEF CallMade, RunBecomes
    <3>4. CASE t = run[w].ent.task
      <4>1. ContainersOf(w, t) = {}
        BY <3>2, <3>4 DEF NameTaken
      <4>2. ContainersNext(w, t) \subseteq {c}
        BY <3>2, <3>4, <4>1, MadeDocker
      <4> QED BY <3>3, <3>4, <4>2
              DEF KnownTo, ContainersNext, ContainersOf, Exists, ExistsNext
    <3>5. CASE t # run[w].ent.task
      <4>1. Fewer(w, t)
        BY <3>5, StepDocker
      <4>2. \A d \in ContainersOf(w, t) : wDb[w][t] # None /\ wDb[w][t].cid = d
        BY <3>2 DEF KnownTo
      <4>3. \A d \in ContainersNext(w, t) : wDb'[w][t] # None /\ wDb'[w][t].cid = d
        BY <3>3, <4>1, <4>2 DEF Fewer
      <4> QED BY <3>3, <3>5, <4>3
              DEF KnownTo, ContainersNext, ContainersOf, Exists, ExistsNext
    <3> QED BY <3>4, <3>5
  <2> QED BY <1>4, <2>2, <2>3, <2>4, <2>5 DEF DockerCall
<1>5. CASE Record(w)
  <2>1. /\ run[w].pc \in {"started", "fail", "completed"}
        /\ wDb[w][run[w].ent.task] # None
        /\ DbAt(w, run[w].ent.task, Upserted(w))
        /\ RunBecomes(w, RunIdle) /\ docker' = docker
    BY <1>5, RecordEffect
  <2>2. Fewer(w, t)
    BY <2>1, SameDocker
  <2>3. run'[w].pc # "started"
    BY <2>1, IdleType DEF RunBecomes
  <2>4. CASE run[w].pc = "started" /\ t = run[w].ent.task
    <3>1. wDb'[w][t] = [state |-> Running, cid |-> run[w].cid]
      BY <2>1, <2>4 DEF DbAt, Upserted
    <3>2. wDb'[w][t] # None /\ wDb'[w][t].cid = run[w].cid
      <4>1. run[w].cid \in Cids \cup {None}
        BY <2>4, LBusyHolds
      <4>2. wDb'[w][t] \in WRec
        BY <3>1, <4>1 DEF WRec, State
      <4> QED BY <3>1, <4>2, WorkerAssumption
    <3>3. \A c \in ContainersNext(w, t) : run[w].cid = c
      BY <2>2, <2>4 DEF KnownTo, Fewer
    <3> QED BY <2>3, <3>2, <3>3
            DEF KnownTo, ContainersNext, ContainersOf, Exists, ExistsNext
  <2>5. CASE run[w].pc # "started"
    <3>1. wDb[w][t] # None => wDb'[w][t] # None /\ wDb'[w][t].cid = wDb[w][t].cid
      <4>1. CASE t = run[w].ent.task
        <5>1. \E s \in State : wDb'[w][t] = [state |-> s, cid |-> wDb[w][t].cid]
          BY <2>1, <2>5, <4>1 DEF DbAt, Upserted, State
        <5>2. wDb'[w][t] \in WRec \cup {None}
          BY <1>5, RecordEffect DEF LTyped, LTypeOK
        <5>3. wDb[w][t] # None => wDb[w][t].cid \in Cids \cup {None}
          BY DEF LTyped, LTypeOK, WRec
        <5>4. wDb[w][t] # None => wDb'[w][t] \in WRec
          BY <5>1, <5>3 DEF WRec
        <5> QED BY <5>1, <5>4, WorkerAssumption
      <4>2. CASE t # run[w].ent.task
        BY <2>1, <4>2 DEF DbAt
      <4> QED BY <4>1, <4>2
    <3> QED BY <2>2, <2>3, <2>5, <3>1, KnownStays
  <2>6. CASE run[w].pc = "started" /\ t # run[w].ent.task
    <3>1. \A c \in ContainersNext(w, t) : wDb[w][t] # None /\ wDb[w][t].cid = c
      BY <2>2, <2>6 DEF KnownTo, Fewer
    <3>2. wDb'[w][t] = wDb[w][t]
      BY <2>1, <2>6 DEF DbAt
    <3> QED BY <2>3, <3>1, <3>2
            DEF KnownTo, ContainersNext, ContainersOf, Exists, ExistsNext
  <2> QED BY <2>4, <2>5, <2>6
<1> QED BY <1>1, <1>2, <1>3, <1>4, <1>5 DEF RunLoop

(* Every other step of the worker leaves RunTask where it is, or ends it   *)
(* with nothing in hand, and keeps the container a record names.           *)
LEMMA KnownElse ==
  ASSUME LSound, NEW w \in Workers, NEW t \in Tasks, Step(w), ~ RunLoop(w),
         KnownTo(w, t), Whole(w)'
  PROVE  KnownTo(w, t)'
<1> USE DEF LSound
<1>0. ~ torn'[w] /\ Whole(w)
  BY WholeBefore DEF Whole
<1>1. ASSUME run'[w] = run[w], wDb' = wDb
      PROVE  KnownTo(w, t)'
  BY <1>1, OnlyRunMakes, KnownStays
<1>2. CASE \/ \E ent : StartArrives(w, ent)
           \/ \E u \in Tasks : StopArrives(w, u)
           \/ StopHandled(w) \/ Signal(w)
           \/ ShutdownList(w) \/ Close(w)
           \/ \E u \in Tasks : ShutdownStop(w, u)
           \/ ShutdownRemove(w)
  <2>1. run' = run /\ wDb' = wDb
    BY <1>2 DEF StartArrives, WStartTaskHandler, StopArrives, WStopLookup, StopHandled,
                WStopEnqueue, Signal, ShutdownList, Close, ShutdownStop, ShutdownRemove, wvars
  <2> QED BY <1>1, <2>1
<1>3. CASE ShutdownWrite(w)
  <2>1. PICK u \in Tasks :
          /\ sd[w].todo[u] \in Cids
          /\ \/ /\ torn' = torn
                /\ DbAt(w, u, [state |-> Completed,
                               cid |-> IF wDb[w][u] = None THEN sd[w].todo[u]
                                       ELSE wDb[w][u].cid])
             \/ torn' = [torn EXCEPT ![w] = TRUE]
             \/ wDb' = wDb
    BY <1>3, WriteStepEffect
  <2>2. \/ DbAt(w, u, [state |-> Completed, cid |-> IF wDb[w][u] = None THEN sd[w].todo[u]
                                                    ELSE wDb[w][u].cid])
        \/ wDb' = wDb
    BY <1>0, <2>1 DEF LTyped, LTypeOK
  <2>3. run' = run
    BY <1>3, WriteStepEffect
  <2>4. wDb[w][t] # None => wDb'[w][t] # None /\ wDb'[w][t].cid = wDb[w][t].cid
    <3>0. CASE wDb' = wDb
      BY <3>0
    <3>1. CASE t = u /\ wDb[w][t] # None /\ wDb' # wDb
      <4>1. wDb'[w][t] = [state |-> Completed, cid |-> wDb[w][t].cid]
        BY <2>2, <3>1 DEF DbAt
      <4>2. wDb[w][t].cid \in Cids \cup {None}
        BY <3>1 DEF LTyped, LTypeOK, WRec
      <4>3. wDb'[w][t] \in WRec
        BY <4>1, <4>2 DEF WRec, State
      <4> QED BY <4>1, <4>3, WorkerAssumption
    <3>2. CASE t # u
      BY <2>2, <3>2 DEF DbAt
    <3> QED BY <3>0, <3>1, <3>2
  <2>5. Fewer(w, t)
    BY <2>3, OnlyRunMakes
  <2> QED BY <2>3, <2>4, <2>5, KnownStays
<1>4. CASE Exit(w) \/ Crash(w)
  <2>1. Ends(w)
    BY <1>4, ExitEffect, CrashEffect
  <2>2. wDb' = wDb /\ docker' = docker /\ run'[w] = RunIdle
    BY <2>1 DEF Ends, RunBecomes
  <2>3. run[w].pc = "idle"
    BY <1>0, <2>1 DEF Ends, LTyped, LTypeOK
  <2>4. Fewer(w, t)
    BY <2>2, SameDocker
  <2> QED BY <2>2, <2>3, <2>4, IdleType, KnownStays
<1>5. CASE NewWorker(w)
  <2>1. run' = run /\ wDb'[w] = wDb[w]
    BY <1>0, <1>5, NewWorkerEffect DEF Whole
  <2>2. Fewer(w, t)
    BY <2>1, OnlyRunMakes
  <2> QED BY <2>1, <2>2, KnownStays
<1> QED BY <1>2, <1>3, <1>4, <1>5 DEF Step, Shutdown

LEMMA RecordedKept == LSound /\ Recorded /\ [LNext]_lvars => Recorded'
<1> SUFFICES ASSUME LSound, Recorded, [LNext]_lvars, NEW v \in Workers, NEW t \in Named,
                    Whole(v)'
             PROVE  KnownTo(v, t)'
  BY DEF Recorded
<1> USE DEF LSound
<1>0. t \in Tasks
  BY WorkerAssumption
<1>1. ASSUME NEW w \in Workers, Step(w)
      PROVE  KnownTo(v, t)'
  <2>1. Whole(v) /\ KnownTo(v, t)
    BY <1>1, WholeBefore DEF Recorded
  <2>2. CASE v = w
    BY <1>0, <1>1, <2>1, <2>2, KnownRunLoop, KnownElse
  <2>3. CASE v # w
    <3>1. run'[v] = run[v] /\ wDb'[v][t] = wDb[v][t]
      BY <1>0, <1>1, <2>3, Frame DEF Untouched
    <3>2. Fewer(v, t)
      BY <1>0, <1>1, <2>3, StepDocker
    <3> QED BY <1>0, <2>1, <3>1, <3>2, KnownStays
  <2> QED BY <2>2, <2>3
<1>2. ASSUME docker' = docker \/ \E c \in Cids : /\ docker[c].st \in Live
                                                /\ docker' = Moved(c, "exited"),
             UNCHANGED <<wDb, run, db, torn>>
      PROVE  KnownTo(v, t)'
  <2>1. KnownTo(v, t)
    BY <1>2 DEF Recorded, Whole
  <2>2. Fewer(v, t)
    BY <1>0, <1>2, SameDocker, MovedDocker
  <2> QED BY <1>0, <1>2, <2>1, <2>2, KnownStays
<1>3. CASE UNCHANGED lvars
  BY <1>2, <1>3 DEF lvars, wvars, pvars
<1>4. CASE \E c \in Cids : ContainerExit(c) /\ UNCHANGED pvars
  BY <1>2, <1>4, ExitsType
<1> QED BY <1>1, <1>3, <1>4, NextIsStep

LEMMA RecordedInit == LInit => Recorded
  BY DEF LInit, WInit, Recorded, KnownTo, ContainersOf, Exists, Live

LEMMA AlwaysRecorded == LSpec => [](LSound /\ Recorded)
<1>1. LInit => Recorded
  BY RecordedInit
<1>2. LSound /\ Recorded /\ [LNext]_lvars => Recorded'
  BY RecordedKept
<1> QED BY <1>1, <1>2, AlwaysSound, PTL DEF LSpec

(* A worker loses no container: whatever was crashed, shut down and        *)
(* restarted and whichever other writes failed, a container of a named     *)
(* task is the one its record names, as long as the store is kept, no read *)
(* of it failed, no started container went unrecorded, Run is whole and no *)
(* life ended inside RunTask.                                              *)
THEOREM NothingIsOrphaned == LSpec => []NoOrphans
<1>1. LSound /\ Recorded => NoOrphans
  BY DEF Recorded, Whole, KnownTo, NoOrphans
<1> QED BY <1>1, AlwaysRecorded, PTL

-----------------------------------------------------------------------------
(***************************************************************************)
(* Ownership. A container id that a worker holds for a task, in its store, *)
(* its queue, a handler, RunTask or the list of Shutdown, names a          *)
(* container of that task: stopping it never takes another task's.         *)
(***************************************************************************)
OwnsDb(w) == \A t \in Tasks : wDb[w][t] # None => OwnedBy(wDb[w][t].cid, t)

OwnsQueue(w) ==
  \A i \in 1..Len(wQueue[w]) : OwnedBy(wQueue[w][i].rec.cid, wQueue[w][i].task)

OwnsStop(w) == stop[w] # None => OwnedBy(stop[w].rec.cid, stop[w].task)

OwnsRun(w) ==
  /\ run[w].pc # "idle" => OwnedBy(run[w].ent.rec.cid, run[w].ent.task)
  /\ run[w].pc = "started" => OwnedBy(run[w].cid, run[w].ent.task)

OwnsTodo(w) == \A t \in Tasks : OwnedBy(sd[w].todo[t], t)

Owns(w) == OwnsDb(w) /\ OwnsQueue(w) /\ OwnsStop(w) /\ OwnsRun(w) /\ OwnsTodo(w)

LOwned == \A w \in Workers : Owns(w)

(* What is left alone stays owned.                                         *)
LEMMA OwnsDbStays ==
  ASSUME LTyped, TasksKept, NEW v \in Workers, OwnsDb(v),
         \A t \in Tasks : wDb'[v][t] \in {wDb[v][t], None}
  PROVE  OwnsDb(v)'
<1> SUFFICES ASSUME NEW t \in Tasks, wDb'[v][t] # None
             PROVE  OwnedNext(wDb'[v][t].cid, t)
  BY DEF OwnsDb, OwnedBy, OwnedNext
<1>1. wDb'[v][t] = wDb[v][t]
  OBVIOUS
<1>2. wDb[v][t].cid \in Cids \cup {None} /\ OwnedBy(wDb[v][t].cid, t)
  BY <1>1 DEF LTyped, LTypeOK, WRec, OwnsDb
<1> QED BY <1>1, <1>2, OwnedStill

LEMMA OwnsQueueStays ==
  ASSUME LTyped, TasksKept, NEW v \in Workers, OwnsQueue(v), wQueue'[v] = wQueue[v]
  PROVE  OwnsQueue(v)'
<1> SUFFICES ASSUME NEW i \in 1..Len(wQueue[v])
             PROVE  OwnedNext(wQueue[v][i].rec.cid, wQueue[v][i].task)
  BY DEF OwnsQueue, OwnedBy, OwnedNext
<1>1. wQueue[v][i] \in Entry
  BY DEF LTyped, LTypeOK
<1>2. wQueue[v][i].task \in Tasks /\ wQueue[v][i].rec.cid \in Cids \cup {None}
  BY <1>1 DEF Entry, WRec
<1> QED BY <1>2, OwnedStill DEF OwnsQueue

LEMMA OwnsStopStays ==
  ASSUME LTyped, TasksKept, NEW v \in Workers, OwnsStop(v), stop'[v] \in {stop[v], None}
  PROVE  OwnsStop(v)'
<1> SUFFICES ASSUME stop[v] # None
             PROVE  OwnedNext(stop[v].rec.cid, stop[v].task)
  BY DEF OwnsStop, OwnedBy, OwnedNext
<1>1. stop[v] \in Entry
  BY DEF LTyped, LTypeOK
<1>2. stop[v].task \in Tasks /\ stop[v].rec.cid \in Cids \cup {None}
  BY <1>1 DEF Entry, WRec
<1> QED BY <1>2, OwnedStill DEF OwnsStop

LEMMA OwnsTodoStays ==
  ASSUME LTyped, TasksKept, NEW v \in Workers, OwnsTodo(v),
         \A t \in Tasks : sd'[v].todo[t] \in {sd[v].todo[t], None}
  PROVE  OwnsTodo(v)'
<1> SUFFICES ASSUME NEW t \in Tasks
             PROVE  OwnedNext(sd'[v].todo[t], t)
  BY DEF OwnsTodo, OwnedBy, OwnedNext
<1>1. sd[v].todo[t] \in Cids \cup {None}
  BY SdHolds DEF SdRec
<1>2. OwnedNext(sd[v].todo[t], t)
  BY <1>1, OwnedStill DEF OwnsTodo
<1>3. OwnedNext(None, t)
  BY DEF OwnedNext
<1> QED BY <1>2, <1>3

LEMMA OwnsRunStays ==
  ASSUME LTyped, TasksKept, NEW v \in Workers, OwnsRun(v),
         \/ run'[v] = run[v]
         \/ run'[v].pc = "idle"
         \/ /\ run[v].pc # "idle" /\ run'[v].ent = run[v].ent
            /\ run'[v].pc = "started" => OwnedNext(run'[v].cid, run[v].ent.task)
  PROVE  OwnsRun(v)'
<1>1. CASE run'[v].pc = "idle"
  BY <1>1 DEF OwnsRun
<1>2. CASE run[v].pc # "idle"
  <2>1. /\ run[v].ent.task \in Tasks /\ run[v].ent.rec.cid \in Cids \cup {None}
        /\ run[v].cid \in Cids \cup {None}
    BY <1>2, LBusyHolds
  <2>2. OwnedNext(run[v].ent.rec.cid, run[v].ent.task)
    BY <1>2, <2>1, OwnedStill DEF OwnsRun
  <2>3. run[v].pc = "started" => OwnedNext(run[v].cid, run[v].ent.task)
    BY <2>1, OwnedStill DEF OwnsRun
  <2> QED BY <1>1, <1>2, <2>2, <2>3 DEF OwnsRun, OwnedBy, OwnedNext
<1>3. CASE run[v].pc = "idle" /\ run'[v] = run[v]
  BY <1>1, <1>3
<1> QED BY <1>1, <1>2, <1>3

(* An owned id comes in.                                                   *)
LEMMA OwnsDbWrite ==
  ASSUME LTyped, TasksKept, NEW w \in Workers, OwnsDb(w), NEW t \in Tasks, NEW rec,
         DbAt(w, t, rec), rec # None => rec.cid \in Cids \cup {None} /\ OwnedBy(rec.cid, t)
  PROVE  OwnsDb(w)'
<1> SUFFICES ASSUME NEW u \in Tasks, wDb'[w][u] # None
             PROVE  OwnedNext(wDb'[w][u].cid, u)
  BY DEF OwnsDb, OwnedBy, OwnedNext
<1>1. CASE u = t
  <2>1. wDb'[w][u] = rec
    BY <1>1 DEF DbAt
  <2> QED BY <1>1, <2>1, OwnedStill
<1>2. CASE u # t
  <2>1. wDb'[w][u] = wDb[w][u]
    BY <1>2 DEF DbAt
  <2>2. wDb[w][u].cid \in Cids \cup {None} /\ OwnedBy(wDb[w][u].cid, u)
    BY <2>1 DEF LTyped, LTypeOK, WRec, OwnsDb
  <2> QED BY <2>1, <2>2, OwnedStill
<1> QED BY <1>1, <1>2

LEMMA OwnsQueueAppend ==
  ASSUME LTyped, TasksKept, NEW w \in Workers, OwnsQueue(w), NEW ent \in Entry,
         OwnedBy(ent.rec.cid, ent.task), wQueue' = [wQueue EXCEPT ![w] = Append(@, ent)]
  PROVE  OwnsQueue(w)'
<1> SUFFICES ASSUME NEW i \in 1..Len(wQueue'[w])
             PROVE  OwnedNext(wQueue'[w][i].rec.cid, wQueue'[w][i].task)
  BY DEF OwnsQueue, OwnedBy, OwnedNext
<1>1. wQueue[w] \in Seq(Entry) /\ wQueue'[w] = Append(wQueue[w], ent)
  BY DEF LTyped, LTypeOK
<1>2. CASE i \in 1..Len(wQueue[w])
  <2>1. wQueue'[w][i] = wQueue[w][i] /\ wQueue[w][i] \in Entry
    BY <1>1, <1>2
  <2>2. wQueue[w][i].task \in Tasks /\ wQueue[w][i].rec.cid \in Cids \cup {None}
    BY <2>1 DEF Entry, WRec
  <2> QED BY <1>2, <2>1, <2>2, OwnedStill DEF OwnsQueue
<1>3. CASE i \notin 1..Len(wQueue[w])
  <2>1. wQueue'[w][i] = ent
    BY <1>1, <1>3
  <2>2. ent.task \in Tasks /\ ent.rec.cid \in Cids \cup {None}
    BY DEF Entry, WRec
  <2> QED BY <2>1, <2>2, OwnedStill
<1> QED BY <1>2, <1>3

LEMMA InTail ==
  ASSUME NEW S, NEW q \in Seq(S), q # <<>>, NEW i \in 1..Len(Tail(q))
  PROVE  i + 1 \in 1..Len(q) /\ Tail(q)[i] = q[i + 1]
  OBVIOUS

LEMMA OwnsQueueTail ==
  ASSUME LTyped, TasksKept, NEW w \in Workers, OwnsQueue(w), wQueue[w] # <<>>,
         wQueue' = [wQueue EXCEPT ![w] = Tail(wQueue[w])]
  PROVE  OwnsQueue(w)'
<1> SUFFICES ASSUME NEW i \in 1..Len(wQueue'[w])
             PROVE  OwnedNext(wQueue'[w][i].rec.cid, wQueue'[w][i].task)
  BY DEF OwnsQueue, OwnedBy, OwnedNext
<1>1. wQueue[w] \in Seq(Entry) /\ wQueue'[w] = Tail(wQueue[w])
  BY DEF LTyped, LTypeOK
<1>2. i + 1 \in 1..Len(wQueue[w]) /\ wQueue'[w][i] = wQueue[w][i + 1]
  BY <1>1, InTail
<1>3. wQueue[w][i + 1] \in Entry
  BY <1>1, <1>2
<1>4. wQueue[w][i + 1].task \in Tasks /\ wQueue[w][i + 1].rec.cid \in Cids \cup {None}
  BY <1>3 DEF Entry, WRec
<1> QED BY <1>2, <1>4, OwnedStill DEF OwnsQueue

LEMMA TakenOwned ==
  ASSUME LTyped, NEW w \in Workers, OwnsQueue(w), wQueue[w] # <<>>
  PROVE  OwnedBy(Taken(w).rec.cid, Taken(w).task)
<1>1. wQueue[w] \in Seq(Entry)
  BY DEF LTyped, LTypeOK
<1>2. 1 \in 1..Len(wQueue[w]) /\ Taken(w) = wQueue[w][1]
  BY <1>1 DEF Taken
<1> QED BY <1>2 DEF OwnsQueue

LEMMA OwnsRunLoop ==
  ASSUME LSound, NEW w \in Workers, Step(w), RunLoop(w), Owns(w)
  PROVE  Owns(w)'
<1> USE DEF LSound
<1>0. TasksKept
  BY StepDocker DEF DockerSafe
<1>1. ASSUME NEW r \in RunRec, TakesEntry(w, r),
             wDb' = wDb \/ DbAt(w, Taken(w).task, Taken(w).rec)
                        \/ DbAt(w, Taken(w).task, Persisted(w, Taken(w)))
      PROVE  Owns(w)'
  <2>1. /\ wQueue[w] # <<>> /\ wQueue' = [wQueue EXCEPT ![w] = Tail(wQueue[w])]
        /\ stop' = stop /\ sd' = sd /\ run'[w] = r
        /\ r.pc \in {"stop", "run", "idle"} /\ (r.pc # "idle" => r.ent = Taken(w))
    BY <1>1 DEF TakesEntry, RunBecomes
  <2>2. /\ Taken(w).task \in Tasks /\ Taken(w).rec.cid \in Cids \cup {None}
        /\ OwnedBy(Taken(w).rec.cid, Taken(w).task)
    BY <2>1, LTaken, TakenOwned DEF Owns
  <2>3. OwnsQueue(w)'
    BY <1>0, <2>1, OwnsQueueTail DEF Owns
  <2>4. OwnsStop(w)' /\ OwnsTodo(w)'
    BY <1>0, <2>1, OwnsStopStays, OwnsTodoStays DEF Owns
  <2>5. OwnsRun(w)'
    <3>1. OwnedNext(Taken(w).rec.cid, Taken(w).task)
      BY <1>0, <2>2, OwnedStill
    <3> QED BY <2>1, <3>1 DEF OwnsRun, OwnedBy, OwnedNext
  <2>6. OwnsDb(w)'
    <3>1. CASE wDb' = wDb
      BY <1>0, <3>1, OwnsDbStays DEF Owns
    <3>2. CASE DbAt(w, Taken(w).task, Taken(w).rec)
      BY <1>0, <2>2, <3>2, OwnsDbWrite DEF Owns
    <3>3. CASE DbAt(w, Taken(w).task, Persisted(w, Taken(w)))
      <4>1. /\ Persisted(w, Taken(w)) \in WRec
            /\ OwnedBy(Persisted(w, Taken(w)).cid, Taken(w).task)
        BY <2>1, <2>2, LTaken DEF Persisted, Owns, OwnsDb
      <4> QED BY <1>0, <2>2, <3>3, <4>1, OwnsDbWrite DEF Owns, WRec
    <3> QED BY <1>1, <3>1, <3>2, <3>3
  <2> QED BY <2>3, <2>4, <2>5, <2>6 DEF Owns
<1>2. CASE TakeEntry(w)
  BY <1>1, <1>2, TakeEntryEffect
<1>3. CASE TakeEntryBlind(w)
  BY <1>1, <1>3, TakeEntryBlindEffect
<1>4. ASSUME NEW r \in RunRec, CallMade(w, r),
             r.pc = "started" => OwnedNext(r.cid, run[w].ent.task)
      PROVE  Owns(w)'
  <2>1. /\ wDb' = wDb /\ wQueue' = wQueue /\ stop' = stop /\ sd' = sd /\ run'[w] = r
        /\ run[w].pc # "idle" /\ (r.pc # "idle" => r.ent = run[w].ent)
    BY <1>4 DEF CallMade, RunBecomes
  <2>2. OwnsRun(w)'
    BY <1>0, <1>4, <2>1, OwnsRunStays DEF Owns
  <2> QED BY <1>0, <2>1, <2>2, OwnsDbStays, OwnsQueueStays, OwnsStopStays, OwnsTodoStays
          DEF Owns
<1>5. CASE DockerCall(w)
  <2>0. UNCHANGED pvars
    BY <1>5 DEF DockerCall
  <2>1. CASE ContainerStop(w) \/ ContainerRemove(w) \/ CreateFails(w)
    <3>1. \E r \in RunRec : CallMade(w, r) /\ r.pc # "started"
      BY <2>0, <2>1, StopCallEffect, RemoveCallEffect, CreateFailsEffect
    <3> QED BY <1>4, <3>1
  <2>2. ASSUME NEW c \in Cids, Run(w, c)
        PROVE  Owns(w)'
    <3>1. PICK r \in RunRec : CallMade(w, r) /\ (r.pc = "started" => r.cid = c)
      BY <2>0, <2>2, RunCallEffect
    <3>2. /\ run[w].pc # "idle" /\ docker[c].st = "unused"
          /\ \E st \in {"running", "created"} : docker' = Made(w, c, st)
      BY <2>0, <2>2, RunCallEffect
    <3>3. docker'[c].task = run[w].ent.task
      BY <3>2, MadeDocker
    <3> QED BY <1>4, <3>1, <3>3 DEF OwnedNext
  <2> QED BY <1>5, <2>1, <2>2 DEF DockerCall
<1>6. ASSUME NEW rec, run[w].pc # "idle",
             wDb' = wDb \/ DbAt(w, run[w].ent.task, rec),
             rec.cid \in Cids \cup {None} /\ OwnedBy(rec.cid, run[w].ent.task),
             RunBecomes(w, RunIdle), UNCHANGED <<wQueue, stop, sd>>
      PROVE  Owns(w)'
  <2>1. OwnsRun(w)'
    BY <1>6, IdleType DEF RunBecomes, OwnsRun
  <2>2. OwnsDb(w)'
    <3>1. run[w].ent.task \in Tasks
      BY <1>6, LBusyHolds
    <3> QED BY <1>0, <1>6, <3>1, OwnsDbStays, OwnsDbWrite DEF Owns
  <2> QED BY <1>0, <1>6, <2>1, <2>2, OwnsQueueStays, OwnsStopStays, OwnsTodoStays DEF Owns
<1>7. CASE Record(w)
  <2>1. /\ run[w].pc \in {"started", "fail", "completed"}
        /\ wDb[w][run[w].ent.task] # None
        /\ DbAt(w, run[w].ent.task, Upserted(w))
        /\ RunBecomes(w, RunIdle)
        /\ UNCHANGED <<wQueue, stop, sd>>
    BY <1>7, RecordEffect
  <2>2. run[w].ent.task \in Tasks /\ run[w].cid \in Cids \cup {None}
    BY <2>1, LBusyHolds
  <2>3. LET rec == wDb[w][run[w].ent.task] IN
          rec.cid \in Cids \cup {None} /\ OwnedBy(rec.cid, run[w].ent.task)
    BY <2>1, <2>2 DEF LTyped, LTypeOK, WRec, Owns, OwnsDb
  <2>4. Upserted(w).cid \in Cids \cup {None} /\ OwnedBy(Upserted(w).cid, run[w].ent.task)
    BY <2>1, <2>2, <2>3 DEF Upserted, Owns, OwnsRun
  <2> QED BY <1>6, <2>1, <2>4
<1>8. CASE RecordBlind(w)
  <2>1. /\ run[w].pc \in {"started", "fail", "completed"}
        /\ wDb' = wDb \/ DbAt(w, run[w].ent.task, FromEntry(w))
        /\ RunBecomes(w, RunIdle)
        /\ UNCHANGED <<wQueue, stop, sd>>
    BY <1>8, RecordBlindEffect
  <2>2. run[w].cid \in Cids \cup {None} /\ run[w].ent.rec.cid \in Cids \cup {None}
    BY <2>1, LBusyHolds
  <2>3. FromEntry(w).cid \in Cids \cup {None} /\ OwnedBy(FromEntry(w).cid, run[w].ent.task)
    BY <2>1, <2>2 DEF FromEntry, Owns, OwnsRun
  <2> QED BY <1>6, <2>1, <2>3
<1> QED BY <1>2, <1>3, <1>5, <1>7, <1>8 DEF RunLoop

LEMMA OwnsShutdown ==
  ASSUME LSound, NEW w \in Workers, Step(w), Shutdown(w), Owns(w)
  PROVE  Owns(w)'
<1> USE DEF LSound
<1>0. TasksKept
  BY StepDocker DEF DockerSafe
<1>1. ASSUME OwnsTodo(w)', OwnsDb(w)', UNCHANGED <<wQueue, stop, run>>
      PROVE  Owns(w)'
  BY <1>0, <1>1, OwnsQueueStays, OwnsStopStays, OwnsRunStays DEF Owns
<1>2. ASSUME wDb' = wDb
      PROVE  OwnsDb(w)'
  BY <1>0, <1>2, OwnsDbStays DEF Owns
<1>3. ASSUME NEW u \in Tasks, SdBecomes(w, SdCleared(w, u))
      PROVE  OwnsTodo(w)'
  BY <1>0, <1>3, OffTheList, OwnsTodoStays DEF Owns
<1>4. ASSUME NEW u, NEW pc, SdBecomes(w, SdMoved(w, pc, u))
      PROVE  OwnsTodo(w)'
  <2>1. sd'[w].todo = sd[w].todo
    BY <1>4 DEF SdBecomes, SdMoved
  <2> QED BY <1>0, <2>1, OwnsTodoStays DEF Owns
<1>5. CASE ShutdownList(w)
  <2>1. sd[w].pc = "next"
    BY <1>5 DEF ShutdownList, SdStage
  <2>2. /\ \/ SdBecomes(w, [pc |-> "next", todo |-> Listed(w), task |-> sd[w].task])
           \/ sd' = sd
        /\ UNCHANGED <<wDb, wQueue, run, stop>>
    BY <1>5, <2>1, ListEffect
  <2>3. CASE SdBecomes(w, [pc |-> "next", todo |-> Listed(w), task |-> sd[w].task])
    <3>1. sd'[w].todo = Listed(w)
      BY <2>3 DEF SdBecomes
    <3>2. ASSUME NEW t \in Tasks
          PROVE  OwnedNext(Listed(w)[t], t)
      <4>1. CASE Owned(wDb[w][t])
        <5>1. Listed(w)[t] = wDb[w][t].cid
          BY <4>1 DEF Listed
        <5>2. wDb[w][t].cid \in Cids \cup {None} /\ OwnedBy(wDb[w][t].cid, t)
          BY <4>1 DEF Owned, LTyped, LTypeOK, WRec, Owns, OwnsDb
        <5> QED BY <1>0, <5>1, <5>2, OwnedStill
      <4>2. CASE ~ Owned(wDb[w][t])
        BY <4>2 DEF Listed, OwnedNext
      <4> QED BY <4>1, <4>2
    <3>3. OwnsTodo(w)'
      BY <3>1, <3>2 DEF OwnsTodo, OwnedBy, OwnedNext
    <3> QED BY <1>1, <1>2, <2>2, <3>3
  <2>4. CASE sd' = sd
    BY <1>0, <1>1, <1>2, <2>2, <2>4, OwnsTodoStays DEF Owns
  <2> QED BY <2>2, <2>3, <2>4
<1>6. ASSUME NEW t \in Tasks, ShutdownStop(w, t)
      PROVE  Owns(w)'
  <2>1. /\ SdBecomes(w, SdMoved(w, "remove", t)) \/ SdBecomes(w, SdCleared(w, t))
        /\ UNCHANGED <<wDb, wQueue, run, stop>>
    BY <1>6, StopStepEffect
  <2> QED BY <1>1, <1>2, <1>3, <1>4, <2>1
<1>7. CASE ShutdownRemove(w)
  <2>1. /\ \E t \in Tasks : \/ SdBecomes(w, SdMoved(w, "write", t))
                            \/ SdBecomes(w, SdCleared(w, t))
        /\ UNCHANGED <<wDb, wQueue, run, stop>>
    BY <1>7, RemoveStepEffect
  <2> QED BY <1>1, <1>2, <1>3, <1>4, <2>1
<1>8. CASE ShutdownWrite(w)
  <2>1. PICK t \in Tasks :
          /\ sd[w].todo[t] \in Cids
          /\ SdBecomes(w, SdCleared(w, t))
          /\ \/ DbAt(w, t, [state |-> Completed,
                            cid |-> IF wDb[w][t] = None THEN sd[w].todo[t]
                                    ELSE wDb[w][t].cid])
             \/ wDb' = wDb
             \/ DbAt(w, t, [state |-> Completed, cid |-> sd[w].todo[t]])
    BY <1>8, WriteStepEffect
  <2>2. UNCHANGED <<wQueue, run, stop>>
    BY <1>8, WriteStepEffect
  <2>3. /\ OwnedBy(sd[w].todo[t], t)
        /\ wDb[w][t] # None => /\ OwnedBy(wDb[w][t].cid, t)
                               /\ wDb[w][t].cid \in Cids \cup {None}
    BY DEF Owns, OwnsTodo, OwnsDb, LTyped, LTypeOK, WRec
  <2>4. ASSUME NEW c \in Cids \cup {None}, OwnedBy(c, t),
               DbAt(w, t, [state |-> Completed, cid |-> c])
        PROVE  OwnsDb(w)'
    BY <1>0, <2>4, OwnsDbWrite DEF Owns
  <2>5. OwnsDb(w)'
    BY <1>2, <2>1, <2>3, <2>4
  <2> QED BY <1>1, <1>3, <2>1, <2>2, <2>5
<1>9. CASE Close(w)
  <2>1. UNCHANGED <<wDb, wQueue, run, stop, sd>>
    BY <1>9, CloseEffect
  <2> QED BY <1>0, <1>1, <1>2, <2>1, OwnsTodoStays DEF Owns
<1>10. CASE Exit(w)
  <2>1. Ends(w) /\ sd' = sd
    BY <1>10, ExitEffect
  <2>2. wDb' = wDb /\ run'[w].pc = "idle"
    BY <2>1, IdleType DEF Ends, RunBecomes
  <2>3. wQueue'[w] = <<>> /\ stop'[w] = None
    BY <2>1 DEF Ends, LTyped, LTypeOK
  <2> QED BY <1>0, <1>2, <2>1, <2>2, <2>3, OwnsTodoStays, OwnsRunStays, OwnsStopStays
          DEF Owns, OwnsQueue
<1> QED BY <1>5, <1>6, <1>7, <1>8, <1>9, <1>10 DEF Shutdown

LEMMA OwnsStep ==
  ASSUME LSound, NEW w \in Workers, Step(w), Owns(w)
  PROVE  Owns(w)'
<1> USE DEF LSound
<1>0. TasksKept
  BY StepDocker DEF DockerSafe
<1>1. ASSUME UNCHANGED <<wDb, run, sd>>, OwnsQueue(w)', OwnsStop(w)'
      PROVE  Owns(w)'
  BY <1>0, <1>1, OwnsDbStays, OwnsRunStays, OwnsTodoStays DEF Owns
<1>2. ASSUME NEW t \in Tasks, NEW s \in PostStates, NEW c \in KnownCids(t),
             StartArrives(w, [task |-> t, rec |-> [state |-> s, cid |-> c]])
      PROVE  Owns(w)'
  <2>1. PICK ent \in Entry : ent = [task |-> t, rec |-> [state |-> s, cid |-> c]]
    BY SentType
  <2>2. OwnedBy(ent.rec.cid, ent.task)
    BY <2>1 DEF KnownCids, OwnedBy
  <2>3. /\ wQueue' = [wQueue EXCEPT ![w] = Append(@, ent)]
        /\ UNCHANGED <<wDb, run, sd, stop>>
    BY <1>2, <2>1 DEF StartArrives, WStartTaskHandler, pvars
  <2>4. OwnsQueue(w)'
    BY <1>0, <2>2, <2>3, OwnsQueueAppend DEF Owns
  <2> QED BY <1>0, <1>1, <2>3, <2>4, OwnsStopStays DEF Owns
<1>3. ASSUME NEW t \in Tasks, StopArrives(w, t)
      PROVE  Owns(w)'
  <2>1. /\ wDb[w][t] # None
        /\ stop' = [stop EXCEPT ![w] =
                      [task |-> t, rec |-> [state |-> Completed, cid |-> wDb[w][t].cid]]]
        /\ UNCHANGED <<wDb, run, sd, wQueue>>
    BY <1>3 DEF StopArrives, WStopLookup, pvars
  <2>2. wDb[w][t].cid \in Cids \cup {None} /\ OwnedBy(wDb[w][t].cid, t)
    BY <2>1 DEF LTyped, LTypeOK, WRec, Owns, OwnsDb
  <2>3. OwnedNext(wDb[w][t].cid, t)
    BY <1>0, <2>2, OwnedStill
  <2>4. stop'[w] = [task |-> t, rec |-> [state |-> Completed, cid |-> wDb[w][t].cid]]
    BY <2>1 DEF LTyped, LTypeOK
  <2>5. OwnsStop(w)'
    BY <2>3, <2>4 DEF OwnsStop, OwnedBy, OwnedNext
  <2> QED BY <1>0, <1>1, <2>1, <2>5, OwnsQueueStays DEF Owns
<1>4. CASE StopHandled(w)
  <2>1. /\ stop[w] # None /\ stop' = [stop EXCEPT ![w] = None]
        /\ wQueue' = [wQueue EXCEPT ![w] = Append(@, stop[w])]
        /\ UNCHANGED <<wDb, run, sd>>
    BY <1>4 DEF StopHandled, WStopEnqueue, pvars
  <2>2. stop[w] \in Entry /\ OwnedBy(stop[w].rec.cid, stop[w].task)
    BY <2>1 DEF LTyped, LTypeOK, Owns, OwnsStop
  <2>3. OwnsQueue(w)'
    BY <1>0, <2>1, <2>2, OwnsQueueAppend DEF Owns
  <2>4. stop'[w] = None
    BY <2>1 DEF LTyped, LTypeOK
  <2> QED BY <1>0, <1>1, <2>1, <2>3, <2>4, OwnsStopStays DEF Owns
<1>5. CASE Signal(w)
  <2>1. UNCHANGED <<wDb, wQueue, run, stop, sd>>
    BY <1>5, SignalEffect
  <2> QED BY <1>0, <1>1, <2>1, OwnsQueueStays, OwnsStopStays DEF Owns
<1>6. CASE Crash(w)
  <2>1. Ends(w) /\ SdBecomes(w, SdIdle)
    BY <1>6, CrashEffect
  <2>2. wDb' = wDb /\ run'[w].pc = "idle" /\ sd'[w].todo = NoTodo
    BY <2>1, IdleType, SdIdleType DEF Ends, RunBecomes, SdBecomes
  <2>3. wQueue'[w] = <<>> /\ stop'[w] = None
    BY <2>1 DEF Ends, LTyped, LTypeOK
  <2> QED BY <1>0, <2>1, <2>2, <2>3, OwnsDbStays, OwnsTodoStays, OwnsRunStays, OwnsStopStays
          DEF Owns, OwnsQueue, NoTodo
<1>7. CASE NewWorker(w)
  <2>1. /\ SdBecomes(w, SdIdle)
        /\ wDb'[w] = wDb[w] \/ \A t \in Tasks : wDb'[w][t] = None
        /\ UNCHANGED <<wQueue, run, stop>>
    BY <1>7, NewWorkerEffect
  <2>2. sd'[w].todo = NoTodo
    BY <2>1, SdIdleType DEF SdBecomes
  <2> QED BY <1>0, <2>1, <2>2, OwnsDbStays, OwnsTodoStays, OwnsRunStays, OwnsStopStays,
             OwnsQueueStays DEF Owns, NoTodo
<1> QED BY <1>2, <1>3, <1>4, <1>5, <1>6, <1>7, OwnsRunLoop, OwnsShutdown DEF Step

LEMMA LOwnedKept == LSound /\ LOwned /\ [LNext]_lvars => LOwned'
<1> SUFFICES ASSUME LSound, LOwned, [LNext]_lvars, NEW v \in Workers
             PROVE  Owns(v)'
  BY DEF LOwned
<1> USE DEF LSound
<1>1. Owns(v)
  BY DEF LOwned
<1>2. ASSUME TasksKept, \A t \in Tasks : wDb'[v][t] = wDb[v][t],
             wQueue'[v] = wQueue[v], stop'[v] = stop[v], run'[v] = run[v], sd'[v] = sd[v]
      PROVE  Owns(v)'
  BY <1>1, <1>2, OwnsDbStays, OwnsQueueStays, OwnsStopStays, OwnsRunStays, OwnsTodoStays
     DEF Owns
<1>3. ASSUME NEW w \in Workers, Step(w)
      PROVE  Owns(v)'
  <2>1. CASE v = w
    BY <1>1, <1>3, <2>1, OwnsStep
  <2>2. CASE v # w
    BY <1>2, <1>3, <2>2, StepDocker, Frame DEF Untouched, DockerSafe
  <2> QED BY <2>1, <2>2
<1>4. CASE UNCHANGED lvars
  BY <1>2, <1>4, SameDocker DEF lvars, wvars, pvars, DockerSafe
<1>5. CASE \E c \in Cids : ContainerExit(c) /\ UNCHANGED pvars
  BY <1>2, <1>5, ExitsType, MovedDocker DEF DockerSafe
<1> QED BY <1>3, <1>4, <1>5, NextIsStep

LEMMA LOwnedInit == LInit => LOwned
  BY IdleType, SdIdleType DEF LInit, WInit, LOwned, Owns, OwnsDb, OwnsQueue, OwnsStop, OwnsRun,
     OwnsTodo, OwnedBy, NoTodo

(* Whatever a worker holds for a task is that task's, across crashes,      *)
(* restarts and failing stores: StopTask, a replacing start and            *)
(* Worker.Shutdown can stop no container of another task.                  *)
THEOREM WorkersOwnWhatTheyHold == LSpec => []LOwned
<1>1. LInit => LOwned
  BY LOwnedInit
<1>2. LSound /\ LOwned /\ [LNext]_lvars => LOwned'
  BY LOwnedKept
<1> QED BY <1>1, <1>2, AlwaysSound, PTL DEF LSpec

-----------------------------------------------------------------------------
(***************************************************************************)
(* A quiet shutdown. While RunTasks has had nothing in hand at any signal, *)
(*   - no entry of RunTask is for a task already Completed;                *)
(*   - a task that is Completed, or about to be recorded so by StopTask in *)
(*     either goroutine, has no container left;                            *)
(*   - what Shutdown has not dealt with yet is on its list, so that        *)
(*     nothing is left when the list is empty.                             *)
(* Each part leans on Recorded: the container stopped was the only one.    *)
(***************************************************************************)
Finished(w, t) == wDb[w][t] # None /\ wDb[w][t].state = Completed

QuietIdle(w) == quiet[w] /\ proc[w] # "up" => run[w].pc = "idle" /\ ~ tick[w]

QuietBusy(w) == run[w].pc # "idle" => ~ Finished(w, run[w].ent.task)

DoneIsGone(w, t) ==
  \/ Finished(w, t)
  \/ run[w].pc = "completed" /\ run[w].ent.task = t
  \/ sd[w].pc = "write" /\ sd[w].task = t
  => ContainersOf(w, t) = {}

LeftIsListed(w, t) ==
  DockerStops /\ proc[w] = "stopping" => \A c \in ContainersOf(w, t) : sd[w].todo[t] = c

ClosedIsClean(w, t) ==
  DockerStops /\ proc[w] \in {"closed", "exited"} => ContainersOf(w, t) = {}

Clean(w, t) == DoneIsGone(w, t) /\ LeftIsListed(w, t) /\ ClosedIsClean(w, t)

Quiet ==
  \A w \in Workers :
    /\ QuietIdle(w)
    /\ \A t \in Named : Whole(w) /\ quiet[w] => QuietBusy(w) /\ Clean(w, t)

LEMMA QuietBefore ==
  ASSUME LSound, NEW w \in Workers, NEW v \in Workers, Step(w), quiet'[v]
  PROVE  quiet[v]
<1> USE DEF LSound
<1>1. CASE Signal(w)
  <2>1. PICK q \in BOOLEAN : quiet' = [quiet EXCEPT ![w] = q] /\ (q => quiet[w])
    BY <1>1, SignalEffect
  <2> QED BY <2>1 DEF LTyped, LTypeOK
<1>2. CASE ~ Signal(w)
  <2>1. quiet' = quiet \/ quiet' = [quiet EXCEPT ![w] = FALSE]
    BY <1>2 DEF Step, StartArrives, StopArrives, StopHandled, RunLoop, Shutdown, Crash,
         NewWorker, TakeEntry, TakeEntryBlind, DockerCall, Record, RecordBlind, ShutdownList,
         ShutdownStop, ShutdownRemove, ShutdownWrite, Close, Exit, Gone, pvars
  <2> QED BY <2>1 DEF LTyped, LTypeOK
<1> QED BY <1>1, <1>2

(* RunTask goes on only while the process is up.                           *)
LEMMA QuietRunsUp ==
  ASSUME LSound, NEW w \in Workers, Step(w), RunLoop(w), QuietIdle(w), quiet[w]
  PROVE  proc[w] = "up" /\ proc' = proc /\ sd' = sd
<1> USE DEF LSound
<1>1. CASE TakeEntry(w) \/ TakeEntryBlind(w)
  <2>1. \E r \in RunRec : TakesEntry(w, r)
    BY <1>1, TakeEntryEffect, TakeEntryBlindEffect
  <2>2. proc[w] = "up" \/ tick[w]
    BY <2>1 DEF TakesEntry
  <2>3. proc' = proc /\ sd' = sd
    BY <2>1 DEF TakesEntry
  <2> QED BY <2>2, <2>3 DEF QuietIdle
<1>2. CASE DockerCall(w) \/ Record(w) \/ RecordBlind(w)
  <2>1. run[w].pc # "idle"
    BY <1>2 DEF DockerCall, ContainerStop, ContainerRemove, CreateFails, Run, Record, Upsert,
                RecordBlind
  <2>2. proc' = proc /\ sd' = sd
    BY <1>2 DEF DockerCall, Record, RecordBlind, pvars
  <2> QED BY <2>1, <2>2 DEF QuietIdle
<1> QED BY <1>1, <1>2 DEF RunLoop

LEMMA QuietIdleKept ==
  ASSUME LSound, NEW w \in Workers, Step(w), QuietIdle(w)
  PROVE  QuietIdle(w)'
<1> USE DEF LSound
<1> SUFFICES ASSUME quiet'[w], proc'[w] # "up"
             PROVE  run'[w].pc = "idle" /\ ~ tick'[w]
  BY DEF QuietIdle
<1>1. quiet[w]
  BY QuietBefore
<1>2. CASE RunLoop(w)
  BY <1>1, <1>2, QuietRunsUp
<1>3. CASE Signal(w)
  <2>1. PICK b \in BOOLEAN, q \in BOOLEAN :
          /\ tick' = [tick EXCEPT ![w] = b] /\ quiet' = [quiet EXCEPT ![w] = q]
          /\ q => run[w].pc = "idle" /\ ~ b
    BY <1>3, SignalEffect
  <2>2. run' = run
    BY <1>3, SignalEffect
  <2>3. q /\ tick'[w] = b
    BY <2>1 DEF LTyped, LTypeOK
  <2> QED BY <2>1, <2>2, <2>3
<1>4. CASE Crash(w) \/ Exit(w)
  <2>1. Ends(w)
    BY <1>4, CrashEffect, ExitEffect
  <2>2. run'[w].pc = "idle"
    BY <2>1, IdleType DEF Ends, RunBecomes
  <2>3. tick'[w] = FALSE
    BY <2>1 DEF Ends, LTyped, LTypeOK
  <2> QED BY <2>2, <2>3
<1>5. CASE NewWorker(w)
  <2>1. proc' = [proc EXCEPT ![w] = "up"]
    BY <1>5, NewWorkerEffect
  <2> QED BY <2>1 DEF LTyped, LTypeOK
<1>6. CASE \/ \E ent : StartArrives(w, ent)
           \/ \E u \in Tasks : StopArrives(w, u)
           \/ StopHandled(w)
           \/ ShutdownList(w) \/ ShutdownWrite(w) \/ Close(w)
           \/ \E u \in Tasks : ShutdownStop(w, u)
           \/ ShutdownRemove(w)
  <2>1. run' = run /\ tick' = tick
    BY <1>6 DEF StartArrives, WStartTaskHandler, StopArrives, WStopLookup, StopHandled,
                WStopEnqueue, ShutdownList, ShutdownWrite, Close, ShutdownStop,
                ShutdownRemove, wvars, pvars
  <2>2. proc[w] # "up"
    BY <1>6 DEF StartArrives, StopArrives, StopHandled, pvars, ShutdownList, ShutdownWrite,
                Close, ShutdownStop, ShutdownRemove
  <2> QED BY <1>1, <2>1, <2>2 DEF QuietIdle
<1> QED BY <1>2, <1>3, <1>4, <1>5, <1>6 DEF Step, Shutdown

LEMMA CleanStays ==
  ASSUME NEW v \in Workers, NEW t \in Tasks, Clean(v, t), Fewer(v, t),
         wDb'[v][t] = wDb[v][t], run'[v] = run[v] \/ run'[v].pc # "completed",
         sd'[v] = sd[v], proc'[v] = proc[v]
  PROVE  Clean(v, t)'
<1>1. Finished(v, t)' => Finished(v, t)
  BY DEF Finished
<1>2. DoneIsGone(v, t)'
  BY <1>1 DEF Clean, DoneIsGone, Fewer, ContainersNext, ContainersOf, Exists, ExistsNext
<1>3. LeftIsListed(v, t)'
  BY DEF Clean, LeftIsListed, Fewer, ContainersNext, ContainersOf, Exists, ExistsNext
<1>4. ClosedIsClean(v, t)'
  BY DEF Clean, ClosedIsClean, Fewer, ContainersNext, ContainersOf, Exists, ExistsNext
<1> QED BY <1>2, <1>3, <1>4 DEF Clean

(* While the process is up, it is enough to look at what is done.          *)
LEMMA CleanUp ==
  ASSUME LSound, NEW w \in Workers, NEW t \in Tasks, proc[w] = "up", proc' = proc, sd' = sd,
         Finished(w, t)' \/ (run'[w].pc = "completed" /\ run'[w].ent.task = t)
           => ContainersNext(w, t) = {}
  PROVE  Clean(w, t)'
<1>1. sd'[w].pc # "write"
  BY DEF LSound, SdStage
<1>2. DoneIsGone(w, t)'
  BY <1>1 DEF DoneIsGone, ContainersNext, ContainersOf, Exists, ExistsNext
<1>3. LeftIsListed(w, t)' /\ ClosedIsClean(w, t)'
  BY DEF LeftIsListed, ClosedIsClean
<1> QED BY <1>2, <1>3 DEF Clean

(* An owned container that is removed was the only one.                    *)
LEMMA LastRemoved ==
  ASSUME LTyped, NEW w \in Workers, NEW t \in Tasks, NEW c \in Cids, KnownTo(w, t),
         Exists(w, c), OwnedBy(c, t), ~ (run[w].pc = "started" /\ run[w].ent.task = t),
         docker' = Moved(c, "removed")
  PROVE  ContainersNext(w, t) = {}
<1>1. c \in ContainersOf(w, t)
  BY WorkerAssumption DEF ContainersOf, OwnedBy
<1>2. \A d \in ContainersOf(w, t) : d = c
  BY <1>1 DEF KnownTo
<1>3. \A d \in Cids : /\ docker'[d].task = docker[d].task
                      /\ docker'[d].node = docker[d].node
                      /\ docker'[d].st = IF d = c THEN "removed" ELSE docker[d].st
  BY LMovedType
<1>4. ASSUME NEW d \in ContainersNext(w, t)
      PROVE  FALSE
  <2>1. d \in Cids /\ docker'[d].st \in Live /\ docker'[d].node = w /\ docker'[d].task = t
    BY DEF ContainersNext, ExistsNext
  <2>2. d # c
    BY <1>3, <2>1 DEF Live
  <2>3. d \in ContainersOf(w, t)
    BY <1>3, <2>1, <2>2, WorkerAssumption DEF ContainersOf, Exists
  <2> QED BY <1>2, <2>2, <2>3
<1> QED BY <1>4

LEMMA CleanRunLoop ==
  ASSUME LSound, NEW w \in Workers, Step(w), RunLoop(w), Owns(w), Whole(w)', quiet'[w],
         QuietIdle(w), QuietBusy(w), NEW t \in Named, KnownTo(w, t), Clean(w, t)
  PROVE  QuietBusy(w)' /\ Clean(w, t)'
<1> USE DEF LSound
<1>0. /\ ~ torn'[w] /\ RunIsWhole /\ t \in Tasks /\ quiet[w]
      /\ proc[w] = "up" /\ proc' = proc /\ sd' = sd
  BY QuietBefore, QuietRunsUp, WorkerAssumption DEF Whole
<1>1. CASE TakeEntry(w)
  <2>1. PICK r \in RunRec :
          /\ TakesEntry(w, r)
          /\ r.pc # "idle" =>
               IsValidTransition(Persisted(w, Taken(w)).state, Taken(w).rec.state)
    BY <1>1, TakeEntryEffect
  <2>2. DbAt(w, Taken(w).task, Persisted(w, Taken(w)))
    BY <1>1, TakeEntryEffect
  <2>3. /\ docker' = docker /\ run[w].pc = "idle" /\ run'[w] = r /\ wQueue[w] # <<>>
        /\ r.pc \in {"stop", "run", "idle"} /\ (r.pc # "idle" => r.ent = Taken(w))
    BY <2>1 DEF TakesEntry, RunBecomes
  <2>4. Taken(w).task \in Tasks
    BY <2>3, LTaken
  <2>5. QuietBusy(w)'
    <3> SUFFICES ASSUME r.pc # "idle", wDb'[w][Taken(w).task].state = Completed
                 PROVE  FALSE
      BY <2>3 DEF QuietBusy, Finished
    <3>1. Persisted(w, Taken(w)).state = Completed
      BY <2>2, <2>4 DEF DbAt
    <3> QED BY <2>1, <3>1, CompletedHasNoEdge
  <2>6. Fewer(w, t)
    BY <1>0, <2>3, SameDocker
  <2>7. CASE wDb[w][t] = None
    <3>1. ContainersNext(w, t) = {}
      BY <2>3, <2>6, <2>7 DEF KnownTo, Fewer
    <3> QED BY <1>0, <2>5, <3>1, CleanUp
  <2>8. CASE wDb[w][t] # None
    <3>1. wDb'[w][t] = wDb[w][t]
      BY <1>0, <2>2, <2>8 DEF DbAt, Persisted
    <3>2. run'[w].pc # "completed"
      BY <2>3
    <3> QED BY <1>0, <2>5, <2>6, <3>1, <3>2, CleanStays
  <2> QED BY <2>7, <2>8
<1>2. CASE TakeEntryBlind(w)
  <2>1. wDb' = wDb /\ wDb[w][Taken(w).task] = None
    BY <1>0, <1>2, TakeEntryBlindEffect DEF LTyped, LTypeOK
  <2>2. PICK r \in RunRec : TakesEntry(w, r)
    BY <1>2, TakeEntryBlindEffect
  <2>3. /\ docker' = docker /\ run'[w] = r
        /\ r.pc \in {"stop", "run", "idle"} /\ (r.pc # "idle" => r.ent = Taken(w))
    BY <2>2 DEF TakesEntry, RunBecomes
  <2>4. QuietBusy(w)'
    BY <2>1, <2>3 DEF QuietBusy, Finished
  <2>5. Fewer(w, t)
    BY <1>0, <2>3, SameDocker
  <2> QED BY <1>0, <2>1, <2>3, <2>4, <2>5, CleanStays
<1>3. CASE RecordBlind(w)
  <2>1. /\ wDb' = wDb \/ DbAt(w, run[w].ent.task, FromEntry(w))
        /\ \/ wDb' = wDb /\ run[w].pc # "started"
           \/ wDb[w][run[w].ent.task] = None
    BY <1>0, <1>3, RecordBlindEffect DEF LTyped, LTypeOK
  <2>2. /\ run[w].pc \in {"started", "fail", "completed"}
        /\ RunBecomes(w, RunIdle) /\ docker' = docker
    BY <1>3, RecordBlindEffect
  <2>3. run'[w].pc = "idle"
    BY <2>2, IdleType DEF RunBecomes
  <2>4. QuietBusy(w)'
    BY <2>3 DEF QuietBusy
  <2>5. Fewer(w, t)
    BY <1>0, <2>2, SameDocker
  <2>6. CASE wDb' = wDb \/ t # run[w].ent.task
    <3>1. wDb'[w][t] = wDb[w][t]
      BY <1>0, <2>1, <2>6 DEF DbAt
    <3> QED BY <1>0, <2>3, <2>4, <2>5, <3>1, CleanStays
  <2>7. CASE t = run[w].ent.task /\ wDb' # wDb /\ run[w].pc # "started"
    <3>1. ContainersNext(w, t) = {}
      BY <2>1, <2>5, <2>7 DEF KnownTo, Fewer
    <3> QED BY <1>0, <2>4, <3>1, CleanUp
  <2>8. CASE t = run[w].ent.task /\ wDb' # wDb /\ run[w].pc = "started"
    <3>1. wDb'[w][t].state = Running
      BY <1>0, <2>1, <2>8 DEF DbAt, FromEntry
    <3>2. ~ Finished(w, t)'
      BY <3>1 DEF Finished, Running, Completed
    <3> QED BY <1>0, <2>3, <2>4, <3>2, CleanUp
  <2> QED BY <2>6, <2>7, <2>8
<1>4. CASE DockerCall(w)
  <2>0. UNCHANGED pvars
    BY <1>4 DEF DockerCall
  <2>1. ASSUME NEW r \in RunRec, CallMade(w, r)
        PROVE  /\ QuietBusy(w)' /\ wDb' = wDb /\ run'[w] = r
               /\ (r.pc # "idle" => r.ent = run[w].ent)
    BY <2>1 DEF CallMade, RunBecomes, QuietBusy, Finished
  <2>2. ASSUME NEW r \in RunRec, CallMade(w, r), r.pc # "completed", Fewer(w, t)
        PROVE  QuietBusy(w)' /\ Clean(w, t)'
    BY <1>0, <2>1, <2>2, CleanStays
  <2>3. CASE ContainerStop(w)
    <3>1. run[w].pc = "stop"
      BY <2>3 DEF ContainerStop
    <3>2. PICK r \in RunRec : CallMade(w, r) /\ r.pc \in {"remove", "idle", "fail"}
      BY <2>0, <2>3, StopCallEffect
    <3>3. Fewer(w, t)
      BY <1>0, <3>1, StepDocker
    <3> QED BY <2>2, <3>2, <3>3
  <2>4. CASE ContainerRemove(w)
    <3>1. run[w].pc = "remove"
      BY <2>4 DEF ContainerRemove
    <3>2. PICK r \in RunRec :
            /\ CallMade(w, r)
            /\ \/ r.pc \in {"idle", "fail"}
               \/ \E c \in Cids :
                    /\ c = run[w].ent.rec.cid /\ Exists(w, c)
                    /\ docker' = Moved(c, "removed")
                    /\ r.pc \in {"completed", "run"}
      BY <2>0, <2>4, RemoveCallEffect
    <3>3. Fewer(w, t)
      BY <1>0, <3>1, StepDocker
    <3>4. CASE r.pc # "completed"
      BY <2>2, <3>2, <3>3, <3>4
    <3>5. CASE r.pc = "completed" /\ t = run[w].ent.task
      <4>1. PICK c \in Cids : c = run[w].ent.rec.cid /\ Exists(w, c)
                              /\ docker' = Moved(c, "removed")
        BY <3>2, <3>5
      <4>2. OwnedBy(c, t)
        BY <3>1, <3>5, <4>1 DEF Owns, OwnsRun
      <4>3. ContainersNext(w, t) = {}
        BY <1>0, <3>1, <4>1, <4>2, LastRemoved
      <4> QED BY <1>0, <2>1, <3>2, <4>3, CleanUp
    <3>6. CASE r.pc = "completed" /\ t # run[w].ent.task
      <4>1. Finished(w, t)' => Finished(w, t)
        BY <2>1, <3>2 DEF Finished
      <4>2. Finished(w, t)' => ContainersNext(w, t) = {}
        BY <3>3, <4>1 DEF Clean, DoneIsGone, Fewer
      <4>3. run'[w].ent.task # t
        BY <2>1, <3>2, <3>6
      <4> QED BY <1>0, <2>1, <3>2, <4>2, <4>3, CleanUp
    <3> QED BY <3>4, <3>5, <3>6
  <2>5. CASE CreateFails(w)
    <3>1. docker' = docker
      BY <2>5 DEF CreateFails
    <3>2. PICK r \in RunRec : CallMade(w, r) /\ r.pc \in {"idle", "fail"}
      BY <2>0, <2>5, CreateFailsEffect
    <3>3. Fewer(w, t)
      BY <1>0, <3>1, SameDocker
    <3> QED BY <2>2, <3>2, <3>3
  <2>6. ASSUME NEW c \in Cids, Run(w, c)
        PROVE  QuietBusy(w)' /\ Clean(w, t)'
    <3>1. PICK r \in RunRec : CallMade(w, r) /\ r.pc = "started" /\ r.cid = c
      BY <1>0, <2>0, <2>6, RunCallEffect
    <3>2. run[w].pc # "idle"
      BY <2>6 DEF Run
    <3>3. CASE t = run[w].ent.task
      <4>1. ~ Finished(w, t)'
        BY <2>1, <3>1, <3>2, <3>3 DEF QuietBusy, Finished
      <4>2. run'[w].pc # "completed"
        BY <2>1, <3>1
      <4> QED BY <1>0, <2>1, <3>1, <4>1, <4>2, CleanUp
    <3>4. CASE t # run[w].ent.task
      <4>1. Fewer(w, t)
        BY <1>0, <3>4, StepDocker
      <4> QED BY <2>2, <3>1, <4>1
    <3> QED BY <3>3, <3>4
  <2> QED BY <1>4, <2>3, <2>4, <2>5, <2>6 DEF DockerCall
<1>5. CASE Record(w)
  <2>1. /\ run[w].pc \in {"started", "fail", "completed"}
        /\ DbAt(w, run[w].ent.task, Upserted(w))
        /\ RunBecomes(w, RunIdle) /\ docker' = docker
    BY <1>5, RecordEffect
  <2>2. run'[w].pc = "idle"
    BY <2>1, IdleType DEF RunBecomes
  <2>3. QuietBusy(w)'
    BY <2>2 DEF QuietBusy
  <2>4. Fewer(w, t)
    BY <1>0, <2>1, SameDocker
  <2>5. CASE t # run[w].ent.task
    <3>1. wDb'[w][t] = wDb[w][t]
      BY <1>0, <2>1, <2>5 DEF DbAt
    <3> QED BY <1>0, <2>2, <2>3, <2>4, <3>1, CleanStays
  <2>6. CASE t = run[w].ent.task /\ run[w].pc = "completed"
    <3>1. ContainersNext(w, t) = {}
      BY <2>4, <2>6 DEF Clean, DoneIsGone, Fewer
    <3> QED BY <1>0, <2>3, <3>1, CleanUp
  <2>7. CASE t = run[w].ent.task /\ run[w].pc # "completed"
    <3>1. wDb'[w][t].state \in {Running, Failed}
      BY <1>0, <2>1, <2>7 DEF DbAt, Upserted
    <3>2. ~ Finished(w, t)'
      BY <3>1 DEF Finished, Running, Failed, Completed
    <3> QED BY <1>0, <2>2, <2>3, <3>2, CleanUp
  <2> QED BY <2>5, <2>6, <2>7
<1> QED BY <1>1, <1>2, <1>3, <1>4, <1>5 DEF RunLoop

LEMMA CleanShutdown ==
  ASSUME LSound, NEW w \in Workers, Step(w), Shutdown(w), Owns(w), Whole(w)', quiet'[w],
         QuietIdle(w), NEW t \in Named, KnownTo(w, t), Clean(w, t)
  PROVE  Clean(w, t)'
<1> USE DEF LSound
<1>0. ~ torn'[w] /\ t \in Tasks /\ quiet[w] /\ quiet'[w]
  BY QuietBefore, WorkerAssumption DEF Whole
<1>1. proc[w] # "up" /\ run[w].pc = "idle"
  BY <1>0 DEF QuietIdle, Shutdown, ShutdownList, ShutdownStop, ShutdownRemove, ShutdownWrite,
              Close, Exit
<1>2. \A c \in ContainersOf(w, t) : wDb[w][t] # None /\ wDb[w][t].cid = c
  BY <1>1 DEF KnownTo
<1>3. ASSUME ContainersNext(w, t) = {}
      PROVE  Clean(w, t)'
  BY <1>3 DEF Clean, DoneIsGone, LeftIsListed, ClosedIsClean, ContainersNext, ContainersOf,
              Exists, ExistsNext
<1>4. ASSUME run' = run, proc'[w] = "stopping", wDb' = wDb, Fewer(w, t),
             sd'[w].pc = "write" => sd'[w].task # t,
             DockerStops => \A c \in ContainersNext(w, t) : sd'[w].todo[t] = c
      PROVE  Clean(w, t)'
  <2>1. DoneIsGone(w, t)'
    <3>1. Finished(w, t)' => ContainersNext(w, t) = {}
      BY <1>4 DEF Finished, Clean, DoneIsGone, Fewer
    <3> QED BY <1>1, <1>4, <3>1
            DEF DoneIsGone, ContainersNext, ContainersOf, Exists, ExistsNext
  <2>2. LeftIsListed(w, t)'
    BY <1>4 DEF LeftIsListed, ContainersNext, ContainersOf, Exists, ExistsNext
  <2>3. ClosedIsClean(w, t)'
    BY <1>4 DEF ClosedIsClean
  <2> QED BY <2>1, <2>2, <2>3 DEF Clean
<1>5. CASE ShutdownList(w)
  <2>1. sd[w].pc = "next" /\ proc[w] = "draining"
    BY <1>5 DEF ShutdownList, SdStage
  <2>2. /\ proc' = [proc EXCEPT ![w] = "stopping"]
        /\ \/ SdBecomes(w, [pc |-> "next", todo |-> Listed(w), task |-> sd[w].task])
           \/ quiet' = [quiet EXCEPT ![w] = FALSE]
        /\ UNCHANGED <<wDb, run, docker>>
    BY <1>5, <2>1, ListEffect
  <2>3. SdBecomes(w, [pc |-> "next", todo |-> Listed(w), task |-> sd[w].task])
    BY <1>0, <2>2 DEF LTyped, LTypeOK
  <2>4. proc'[w] = "stopping"
    BY <2>2 DEF LTyped, LTypeOK
  <2>5. sd'[w].pc = "next" /\ sd'[w].todo = Listed(w)
    BY <2>3 DEF SdBecomes
  <2>6. Fewer(w, t)
    BY <1>0, <2>2, SameDocker
  <2>7. ASSUME NEW c \in ContainersNext(w, t)
        PROVE  Listed(w)[t] = c
    <3>1. c \in ContainersOf(w, t) /\ c \in Cids
      BY <2>6 DEF Fewer, ContainersOf
    <3>2. ~ Finished(w, t)
      BY <3>1 DEF Clean, DoneIsGone
    <3>3. Owned(wDb[w][t]) /\ wDb[w][t].cid = c
      BY <1>2, <3>1, <3>2, WorkerAssumption DEF Owned, Finished
    <3> QED BY <1>0, <3>3 DEF Listed
  <2> QED BY <1>4, <2>2, <2>4, <2>5, <2>6, <2>7
<1>6. ASSUME NEW u \in Tasks, SdBecomes(w, SdCleared(w, u)), docker' = docker,
             proc[w] = "stopping", UNCHANGED <<wDb, run, proc>>,
             DockerStops => ~ Exists(w, sd[w].todo[u])
      PROVE  Clean(w, t)'
  <2>1. sd'[w].pc = "next"
    BY <1>6 DEF SdBecomes, SdCleared
  <2>2. Fewer(w, t)
    BY <1>0, <1>6, SameDocker
  <2>3. ASSUME DockerStops, NEW c \in ContainersNext(w, t)
        PROVE  sd'[w].todo[t] = c
    <3>1. c \in ContainersOf(w, t)
      BY <2>2 DEF Fewer
    <3>2. sd[w].todo[t] = c /\ Exists(w, c)
      BY <1>6, <2>3, <3>1 DEF Clean, LeftIsListed, ContainersOf
    <3>3. t # u
      BY <1>6, <2>3, <3>2
    <3> QED BY <1>0, <1>6, <3>2, <3>3, OffTheList
  <2> QED BY <1>4, <1>6, <2>1, <2>2, <2>3
<1>7. ASSUME NEW u \in Tasks, ShutdownStop(w, u)
      PROVE  Clean(w, t)'
  <2>1. /\ proc[w] = "stopping"
        /\ UNCHANGED <<wDb, run, proc>>
        /\ \/ SdBecomes(w, SdMoved(w, "remove", u))
           \/ /\ DockerStops => ~ Exists(w, sd[w].todo[u])
              /\ docker' = docker
              /\ SdBecomes(w, SdCleared(w, u))
    BY <1>7, StopStepEffect
  <2>2. CASE SdBecomes(w, SdMoved(w, "remove", u))
    <3>1. sd'[w].pc = "remove" /\ sd'[w].todo = sd[w].todo
      BY <2>2 DEF SdBecomes, SdMoved
    <3>2. Fewer(w, t)
      BY <1>0, <1>1, StepDocker
    <3>3. DockerStops => \A c \in ContainersNext(w, t) : sd'[w].todo[t] = c
      BY <2>1, <3>1, <3>2 DEF Clean, LeftIsListed, Fewer
    <3> QED BY <1>4, <2>1, <3>1, <3>2, <3>3
  <2> QED BY <1>6, <2>1, <2>2
<1>8. CASE ShutdownRemove(w)
  <2>1. PICK u \in Tasks :
          /\ sd[w].todo[u] \in Cids
          /\ \/ /\ Exists(w, sd[w].todo[u]) /\ docker' = Moved(sd[w].todo[u], "removed")
                /\ SdBecomes(w, SdMoved(w, "write", u))
             \/ /\ DockerStops => ~ Exists(w, sd[w].todo[u])
                /\ docker' = docker
                /\ SdBecomes(w, SdCleared(w, u))
    BY <1>8, RemoveStepEffect
  <2>2. proc[w] = "stopping" /\ UNCHANGED <<wDb, run, proc>>
    BY <1>8, RemoveStepEffect
  <2>3. CASE /\ Exists(w, sd[w].todo[u]) /\ docker' = Moved(sd[w].todo[u], "removed")
             /\ SdBecomes(w, SdMoved(w, "write", u))
    <3>1. sd'[w].task = u /\ sd'[w].todo = sd[w].todo
      BY <2>3 DEF SdBecomes, SdMoved
    <3>2. CASE t = u
      <4>1. OwnedBy(sd[w].todo[u], t)
        BY <3>2 DEF Owns, OwnsTodo
      <4>2. ContainersNext(w, t) = {}
        BY <1>0, <1>1, <2>1, <2>3, <4>1, LastRemoved
      <4> QED BY <1>3, <4>2
    <3>3. CASE t # u
      <4>1. Fewer(w, t)
        BY <1>0, <1>1, StepDocker
      <4>2. DockerStops => \A c \in ContainersNext(w, t) : sd'[w].todo[t] = c
        BY <2>2, <3>1, <4>1 DEF Clean, LeftIsListed, Fewer
      <4> QED BY <1>4, <2>2, <3>1, <3>3, <4>1, <4>2
    <3> QED BY <3>2, <3>3
  <2> QED BY <1>6, <2>1, <2>2, <2>3
<1>9. CASE ShutdownWrite(w)
  <2>1. PICK u \in Tasks :
          /\ u = sd[w].task /\ SdBecomes(w, SdCleared(w, u))
          /\ wDb' = wDb \/ \E rec : DbAt(w, u, rec)
    BY <1>9, WriteStepEffect
  <2>2. proc[w] = "stopping" /\ sd[w].pc = "write" /\ UNCHANGED <<run, docker, proc>>
    BY <1>9, WriteStepEffect
  <2>3. Fewer(w, t)
    BY <1>0, <2>2, SameDocker
  <2>4. CASE t = u
    <3>1. ContainersNext(w, t) = {}
      BY <2>1, <2>2, <2>3, <2>4 DEF Clean, DoneIsGone, Fewer
    <3> QED BY <1>3, <3>1
  <2>5. CASE t # u
    <3>1. wDb'[w][t] = wDb[w][t]
      BY <1>0, <2>1, <2>5 DEF DbAt
    <3>2. sd'[w].pc = "next" /\ sd'[w].todo[t] = sd[w].todo[t]
      BY <1>0, <2>1, <2>5, OffTheList DEF SdBecomes, SdCleared
    <3>3. DoneIsGone(w, t)'
      <4>1. Finished(w, t)' => ContainersNext(w, t) = {}
        BY <2>3, <3>1 DEF Finished, Clean, DoneIsGone, Fewer
      <4> QED BY <1>1, <2>2, <3>2, <4>1
              DEF DoneIsGone, ContainersNext, ContainersOf, Exists, ExistsNext
    <3>4. LeftIsListed(w, t)'
      BY <2>2, <3>2 DEF Clean, LeftIsListed, ContainersOf, Exists
    <3>5. ClosedIsClean(w, t)'
      BY <2>2 DEF ClosedIsClean
    <3> QED BY <3>3, <3>4, <3>5 DEF Clean
  <2> QED BY <2>4, <2>5
<1>10. CASE Close(w)
  <2>1. /\ proc[w] = "stopping" /\ sd[w].todo = NoTodo /\ sd[w].pc = "next"
        /\ proc' = [proc EXCEPT ![w] = "closed"]
        /\ UNCHANGED <<wDb, run, docker, sd>>
    BY <1>10, CloseEffect
  <2>2. proc'[w] = "closed"
    BY <2>1 DEF LTyped, LTypeOK
  <2>3. DockerStops => ContainersOf(w, t) = {}
    <3>1. sd[w].todo[t] = None
      BY <1>0, <2>1 DEF NoTodo
    <3>2. ContainersOf(w, t) \subseteq Cids
      BY DEF ContainersOf
    <3> QED BY <2>1, <3>1, <3>2, WorkerAssumption DEF Clean, LeftIsListed
  <2>4. DoneIsGone(w, t)'
    BY <2>1 DEF Clean, DoneIsGone, Finished, ContainersOf, Exists
  <2>5. LeftIsListed(w, t)'
    BY <2>2 DEF LeftIsListed
  <2>6. ClosedIsClean(w, t)'
    BY <2>1, <2>3 DEF ClosedIsClean, ContainersOf, Exists
  <2> QED BY <2>4, <2>5, <2>6 DEF Clean
<1>11. CASE Exit(w)
  <2>1. Ends(w) /\ sd' = sd /\ proc[w] = "closed" /\ proc'[w] = "exited"
    BY <1>11, ExitEffect
  <2>2. wDb' = wDb /\ docker' = docker /\ run'[w].pc = "idle"
    BY <2>1, IdleType DEF Ends, RunBecomes
  <2>3. DoneIsGone(w, t)'
    BY <2>1, <2>2 DEF Clean, DoneIsGone, Finished, ContainersOf, Exists
  <2>4. LeftIsListed(w, t)'
    BY <2>1 DEF LeftIsListed
  <2>5. ClosedIsClean(w, t)'
    BY <2>1, <2>2 DEF Clean, ClosedIsClean, ContainersOf, Exists
  <2> QED BY <2>3, <2>4, <2>5 DEF Clean
<1> QED BY <1>5, <1>7, <1>8, <1>9, <1>10, <1>11 DEF Shutdown

LEMMA CleanElse ==
  ASSUME LSound, NEW w \in Workers, Step(w), ~ RunLoop(w), ~ Shutdown(w), Whole(w)',
         quiet'[w], QuietBusy(w), NEW t \in Named, Clean(w, t)
  PROVE  QuietBusy(w)' /\ Clean(w, t)'
<1> USE DEF LSound
<1>0. t \in Tasks /\ Whole(w)
  BY WholeBefore, WorkerAssumption
<1>1. CASE \/ \E ent : StartArrives(w, ent)
           \/ \E u \in Tasks : StopArrives(w, u)
           \/ StopHandled(w)
  <2>1. UNCHANGED <<wDb, run, docker, proc, sd>>
    BY <1>1 DEF StartArrives, WStartTaskHandler, StopArrives, WStopLookup, StopHandled,
                WStopEnqueue, pvars
  <2>2. Fewer(w, t)
    BY <1>0, <2>1, SameDocker
  <2> QED BY <1>0, <2>1, <2>2, CleanStays DEF QuietBusy, Finished
<1>2. ASSUME wDb'[w] = wDb[w], docker' = docker,
             run'[w] = run[w] \/ run'[w].pc = "idle",
             sd'[w] = sd[w] \/ sd'[w] = SdIdle,
             proc'[w] \in {"up", "draining", "crashed"}
      PROVE  QuietBusy(w)' /\ Clean(w, t)'
  <2>1. QuietBusy(w)'
    BY <1>2 DEF QuietBusy, Finished
  <2>2. DoneIsGone(w, t)'
    BY <1>2, SdIdleType DEF Clean, DoneIsGone, Finished, ContainersOf, Exists
  <2>3. LeftIsListed(w, t)' /\ ClosedIsClean(w, t)'
    BY <1>2 DEF LeftIsListed, ClosedIsClean
  <2> QED BY <2>1, <2>2, <2>3 DEF Clean
<1>3. CASE Signal(w)
  <2>1. /\ proc' = [proc EXCEPT ![w] = "draining"]
        /\ UNCHANGED <<wDb, run, docker, sd>>
    BY <1>3, SignalEffect
  <2>2. proc'[w] = "draining"
    BY <2>1 DEF LTyped, LTypeOK
  <2> QED BY <1>2, <2>1, <2>2
<1>4. CASE Crash(w)
  <2>1. Ends(w) /\ SdBecomes(w, SdIdle) /\ proc'[w] = "crashed"
    BY <1>4, CrashEffect
  <2>2. wDb' = wDb /\ docker' = docker /\ run'[w].pc = "idle" /\ sd'[w] = SdIdle
    BY <2>1, IdleType DEF Ends, RunBecomes, SdBecomes
  <2> QED BY <1>2, <2>1, <2>2
<1>5. CASE NewWorker(w)
  <2>1. /\ proc' = [proc EXCEPT ![w] = "up"] /\ SdBecomes(w, SdIdle)
        /\ wDb'[w] = wDb[w] /\ UNCHANGED <<run, docker>>
    BY <1>0, <1>5, NewWorkerEffect DEF Whole
  <2>2. proc'[w] = "up" /\ sd'[w] = SdIdle
    BY <2>1 DEF LTyped, LTypeOK, SdBecomes
  <2> QED BY <1>2, <2>1, <2>2
<1> QED BY <1>1, <1>3, <1>4, <1>5 DEF Step

LEMMA QuietKept == LSound /\ LOwned /\ Recorded /\ Quiet /\ [LNext]_lvars => Quiet'
<1> SUFFICES ASSUME LSound, LOwned, Recorded, Quiet, [LNext]_lvars, NEW v \in Workers
             PROVE  /\ QuietIdle(v)'
                    /\ \A t \in Named : (Whole(v) /\ quiet[v])' => QuietBusy(v)' /\ Clean(v, t)'
  BY DEF Quiet
<1> USE DEF LSound
<1>0. QuietIdle(v) /\ Owns(v)
  BY DEF Quiet, LOwned
<1>1. ASSUME NEW w \in Workers, Step(w), v = w
      PROVE  /\ QuietIdle(v)'
             /\ \A t \in Named : (Whole(v) /\ quiet[v])' => QuietBusy(v)' /\ Clean(v, t)'
  <2>1. QuietIdle(v)'
    BY <1>0, <1>1, QuietIdleKept
  <2>2. ASSUME NEW t \in Named, Whole(v)', quiet'[v]
        PROVE  QuietBusy(v)' /\ Clean(v, t)'
    <3>1. Whole(v) /\ quiet[v]
      BY <1>1, <2>2, WholeBefore, QuietBefore
    <3>2. KnownTo(v, t) /\ QuietBusy(v) /\ Clean(v, t)
      BY <3>1 DEF Recorded, Quiet
    <3>3. CASE RunLoop(v)
      BY <1>0, <1>1, <2>2, <3>2, <3>3, CleanRunLoop
    <3>4. CASE Shutdown(v)
      <4>1. proc[v] # "up"
        BY <3>4 DEF Shutdown, ShutdownList, ShutdownStop, ShutdownRemove, ShutdownWrite,
                    Close, Exit
      <4>2. run[v].pc = "idle"
        BY <1>0, <3>1, <4>1 DEF QuietIdle
      <4>3. run' = run \/ run'[v] = RunIdle
        BY <3>4, ExitEffect DEF Shutdown, ShutdownList, ShutdownStop, ShutdownRemove,
              ShutdownWrite, Close, wvars, Ends, RunBecomes
      <4>4. QuietBusy(v)'
        BY <4>2, <4>3, IdleType DEF QuietBusy
      <4> QED BY <1>0, <1>1, <2>2, <3>2, <3>4, <4>4, CleanShutdown
    <3>5. CASE ~ RunLoop(v) /\ ~ Shutdown(v)
      BY <1>1, <2>2, <3>2, <3>5, CleanElse
    <3> QED BY <3>3, <3>4, <3>5
  <2> QED BY <2>1, <2>2
<1>2. ASSUME \A t \in Tasks : Fewer(v, t) /\ wDb'[v][t] = wDb[v][t],
             run'[v] = run[v], sd'[v] = sd[v], proc'[v] = proc[v], db'[v] = db[v],
             torn'[v] = torn[v], quiet'[v] = quiet[v], tick'[v] = tick[v]
      PROVE  /\ QuietIdle(v)'
             /\ \A t \in Named : (Whole(v) /\ quiet[v])' => QuietBusy(v)' /\ Clean(v, t)'
  <2>1. QuietIdle(v)'
    BY <1>0, <1>2 DEF QuietIdle
  <2>2. ASSUME NEW t \in Named, Whole(v)', quiet'[v]
        PROVE  QuietBusy(v)' /\ Clean(v, t)'
    <3>1. Whole(v) /\ quiet[v] /\ t \in Tasks
      BY <1>2, <2>2, WorkerAssumption DEF Whole
    <3>2. QuietBusy(v) /\ Clean(v, t)
      BY <3>1 DEF Quiet
    <3>3. QuietBusy(v)'
      BY <1>2, <3>2, LBusyHolds DEF QuietBusy, Finished
    <3> QED BY <1>2, <3>1, <3>2, <3>3, CleanStays
  <2> QED BY <2>1, <2>2
<1>3. ASSUME NEW w \in Workers, Step(w), v # w
      PROVE  /\ QuietIdle(v)'
             /\ \A t \in Named : (Whole(v) /\ quiet[v])' => QuietBusy(v)' /\ Clean(v, t)'
  BY <1>2, <1>3, StepDocker, Frame DEF Untouched
<1>4. CASE UNCHANGED lvars
  BY <1>2, <1>4, SameDocker DEF lvars, wvars, pvars
<1>5. CASE \E c \in Cids : ContainerExit(c) /\ UNCHANGED pvars
  BY <1>2, <1>5, ExitsType, MovedDocker
<1> QED BY <1>1, <1>3, <1>4, <1>5, NextIsStep

LEMMA QuietInit == LInit => Quiet
<1> SUFFICES ASSUME LInit, NEW w \in Workers, NEW t \in Tasks
             PROVE  QuietIdle(w) /\ QuietBusy(w) /\ Clean(w, t)
  BY WorkerAssumption DEF Quiet, LInit, QuietIdle
<1>1. proc[w] = "up" /\ run[w].pc = "idle" /\ ContainersOf(w, t) = {}
  BY IdleType DEF LInit, WInit, ContainersOf, Exists, Live
<1> QED BY <1>1 DEF QuietIdle, QuietBusy, Clean, DoneIsGone, LeftIsListed, ClosedIsClean

(* A shutdown that finds RunTasks with nothing in hand and gets its list   *)
(* is complete: on a kept store, with a Docker that works, no container of *)
(* a named task is left on the daemon when the command returns, through    *)
(* any number of crashes, restarts and failed writes before it, the write  *)
(* of a started container apart.                                           *)
THEOREM QuietShutdownLeavesNothing == LSpec => []QuietShutdownIsClean
<1>1. LInit => Quiet
  BY QuietInit
<1>2. LSound /\ LOwned /\ Recorded /\ Quiet /\ [LNext]_lvars => Quiet'
  BY QuietKept
<1>3. Quiet => QuietShutdownIsClean
  BY DEF Quiet, Whole, Clean, ClosedIsClean, QuietShutdownIsClean
<1> QED BY <1>1, <1>2, <1>3, AlwaysRecorded, WorkersOwnWhatTheyHold, PTL DEF LSpec
=============================================================================
