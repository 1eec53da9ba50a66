----------------------------- MODULE Scheduler -----------------------------
(***************************************************************************)
(* Manager.SelectWorker and the two schedulers (internal/scheduler), with  *)
(* the stats fetch of internal/node and what a worker answers to it        *)
(* (internal/worker/stats.go). ProcessTasks is the only caller, so there   *)
(* is one call at a time; within a call the marginal-cost scheduler runs a *)
(* goroutine per candidate. A worker is its index in WorkerNodes, which is *)
(* never written after NewManager.                                         *)
(*                                                                         *)
(* Loads are counted in fractions 1/Quanta of a full load. powerCost is    *)
(* any strictly increasing, strictly convex function of them: the code's   *)
(* is LIEB to the power of the load.                                       *)
(***************************************************************************)
EXTENDS Integers, Sequences, FiniteSets

CONSTANTS
  N,             \* how many workers the manager was given
  None,
  RetryLimit,
  TaskMems,      \* the memory a task may ask for
  TaskDisks,     \* the disk a task may ask for
  Readings,      \* what a worker's machine may report of itself
  Quanta,
  MaxLoad,       \* bound: the largest load, in quanta
  powerCost(_)

Nodes == 0..(N - 1)
Loads == 0..MaxLoad
Task == [mem : TaskMems, disk : TaskDisks]
Reading == [mem : [used : Nat, total : Nat \ {0}] \cup {None},
            cpu : (0..Quanta) \cup {None}, tasks : Nat]
Stats == [used : Nat, total : Nat, cpu : -1..Quanta, tasks : Nat]
SchedulerTypes == {"round-robin", "marginal-cost"}

(* The task count at which the job term reaches a full unit of load.       *)
maxJobsPerNode == 4

ASSUME SchedulerAssumption ==
  /\ N \in Nat \ {0}
  /\ RetryLimit \in Nat \ {0}
  /\ TaskMems \subseteq Nat
  /\ TaskDisks \subseteq Nat
  /\ Readings \subseteq Reading
  /\ None \notin Int
  /\ None \notin Stats
  /\ None \notin Task

ASSUME PowerAssumption ==
  /\ Quanta \in Nat \ {0}
  /\ MaxLoad \in Nat /\ Quanta <= MaxLoad
  /\ \A x \in Loads : powerCost(x) \in Int
  /\ \A x, y \in Loads : x < y => powerCost(x) < powerCost(y)
  /\ \A x, y, d \in Loads :
       x <= y /\ y + d \in Loads
       => powerCost(x + d) - powerCost(x) <= powerCost(y + d) - powerCost(y)

(* Every load the readings give rise to is a whole number of quanta.       *)
MemLoad(amount, total) == amount * (Quanta \div total)
JobLoad(count) == count * (Quanta \div maxJobsPerNode)

ASSUME LoadAssumption ==
  \A rd \in Readings :
    /\ JobLoad(rd.tasks) \in Loads /\ JobLoad(1) \in Loads
    /\ JobLoad(rd.tasks + 1) = JobLoad(rd.tasks) + JobLoad(1)
    /\ JobLoad(rd.tasks + 1) \in Loads
    /\ rd.mem # None =>
         /\ Quanta % rd.mem.total = 0
         /\ \A m \in TaskMems : MemLoad(rd.mem.used + m, rd.mem.total) \in Loads

VARIABLES
  kind,        \* which scheduler GetScheduler returned
  LastWorker,  \* the round-robin cursor
  call,        \* locals of SelectWorker, pickWorker and Score
  goro,        \* where the goroutine of each candidate is
  att,         \* its HTTPWithRetry
  got,         \* the stats it was answered with, None for an error status
  results,     \* the slot each candidate's score goes to, None while unset
  errs,        \* how many errors are in errsStream
  recent       \* history: the last N picks of the round-robin scheduler

vars == <<kind, LastWorker, call, goro, att, got, results, errs, recent>>

R == INSTANCE Retry WITH Callers <- Nodes

Unset == [n \in Nodes |-> None]
NoCall == [pc |-> "idle", task |-> None, cands |-> {}, ans |-> None]
At(pc) == [call EXCEPT !.pc = pc]
Answer(x) == [call EXCEPT !.pc = "answered", !.ans = x]

(* Before Score and after SelectWorker has returned.                       *)
NoGoroutines == [n \in Nodes |-> "none"]
NoAttempts == [n \in Nodes |-> R!NoCall]

Init ==
  /\ kind \in SchedulerTypes
  /\ LastWorker = 0
  /\ call = NoCall
  /\ goro = NoGoroutines /\ att = NoAttempts
  /\ got = Unset /\ results = Unset /\ errs = 0
  /\ recent = <<>>

-----------------------------------------------------------------------------
(***************************************************************************)
(* Pure functions                                                          *)
(***************************************************************************)

(* Go's remainder keeps the sign of the dividend.                          *)
GoMod(a, b) == IF a >= 0 THEN a % b ELSE -((-a) % b)

nextWorkerIndex_NoWrap(lastWorker, nodeCount) ==
  IF nodeCount <= 0 THEN -1 ELSE lastWorker + 1

nextWorkerIndex(lastWorker, nodeCount) ==
  IF nodeCount <= 0 THEN -1
  ELSE LET next == GoMod(lastWorker + 1, nodeCount)
       IN  IF next < 0 THEN next + nodeCount ELSE next

(* NewNode fills in neither Disk nor DiskAllocated, and nothing else does. *)
nodeDisk == 0
nodeDiskAllocated == 0
hasDiskRoom(taskDisk) == taskDisk <= nodeDisk - nodeDiskAllocated

scoreNodes(selected) == [n \in Nodes |-> IF n = selected THEN 1 ELSE 0]

(* The first entry, replaced by each later one that is strictly better.    *)
highestScoringNode(scored) ==
  CHOOSE n \in scored :
    /\ \A m \in scored : results[m] <= results[n]
    /\ \A m \in scored : m < n => results[m] < results[n]

lowestScoringNode_MissingIsZero(scored) ==
  LET cost(n) == IF results[n] = None THEN 0 ELSE results[n] IN
  CHOOSE n \in call.cands :
    /\ \A m \in call.cands : cost(n) <= cost(m)
    /\ \A m \in call.cands : m < n => cost(n) < cost(m)

lowestScoringNode(scored) ==
  CHOOSE n \in scored :
    /\ \A m \in scored : results[n] <= results[m]
    /\ \A m \in scored : m < n => results[n] < results[m]

normalizeCPUUsage(percent) ==
  IF percent < 0 THEN [load |-> 0, ok |-> FALSE] ELSE [load |-> percent, ok |-> TRUE]

cpuLoad_Unchecked(stats) == normalizeCPUUsage(stats.cpu).load

(* Unknown counts as fully busy.                                           *)
cpuLoad(stats) ==
  IF normalizeCPUUsage(stats.cpu).ok THEN normalizeCPUUsage(stats.cpu).load ELSE Quanta

(* Memory and jobs cost what the task would add, CPU what is there already.*)
memCost(stats, taskMemory) ==
  powerCost(MemLoad(stats.used + taskMemory, stats.total))
    - powerCost(MemLoad(stats.used, stats.total))
jobCost(stats) == powerCost(JobLoad(stats.tasks + 1)) - powerCost(JobLoad(stats.tasks))
cpuCost(stats) == powerCost(cpuLoad(stats)) - powerCost(0)

nodeScore(stats, taskMemory) ==
  memCost(stats, taskMemory) + jobCost(stats) + cpuCost(stats)

-----------------------------------------------------------------------------
(***************************************************************************)
(* SelectWorker and pickWorker                                             *)
(***************************************************************************)

SelectWorker(t) ==
  /\ call.pc = "idle"
  /\ call' = [NoCall EXCEPT !.pc = "select", !.task = t]
  /\ UNCHANGED <<kind, LastWorker, goro, att, got, results, errs, recent>>

SelectCandidateNodes ==
  LET cands == IF kind = "round-robin" \/ hasDiskRoom(call.task.disk) THEN Nodes ELSE {}
  IN
  /\ call.pc = "select"
  /\ call' = IF cands = {} THEN Answer(None)
             ELSE [call EXCEPT !.pc = "score", !.cands = cands]
  /\ UNCHANGED <<kind, LastWorker, goro, att, got, results, errs, recent>>

RoundRobinScore_CursorKept ==
  LET next == nextWorkerIndex(LastWorker, Cardinality(call.cands)) IN
  /\ kind = "round-robin"
  /\ call.pc = "score"
  /\ results' = scoreNodes(next)
  /\ call' = At("scored")
  /\ UNCHANGED <<kind, LastWorker, goro, att, got, errs, recent>>

(* RoundRobinScheduler.Score, in one critical section of its mutex.        *)
RoundRobinScore ==
  LET next == nextWorkerIndex(LastWorker, Cardinality(call.cands)) IN
  /\ kind = "round-robin"
  /\ call.pc = "score"
  /\ LastWorker' = next
  /\ results' = scoreNodes(next)
  /\ call' = At("scored")
  /\ UNCHANGED <<kind, goro, att, got, errs, recent>>

(* MarginalCostScheduler.Score starts its goroutines and waits for them.   *)
Score ==
  /\ kind = "marginal-cost"
  /\ call.pc = "score"
  /\ goro' = [n \in Nodes |-> IF n \in call.cands THEN "fetch" ELSE "none"]
  /\ att' = [n \in Nodes |-> IF n \in call.cands THEN R!FirstAttempt ELSE R!NoCall]
  /\ call' = At("wait")
  /\ UNCHANGED <<kind, LastWorker, got, results, errs, recent>>

Scored == {n \in call.cands : results[n] # None}

(* wg.Wait returns; the errors are drained and the slots compacted. Score  *)
(* has nothing to offer only if no slot was filled.                        *)
CollectScores ==
  /\ call.pc = "wait"
  /\ \A n \in call.cands : goro[n] = "done"
  /\ errs' = 0
  /\ call' = IF Scored = {} THEN Answer(None) ELSE At("scored")
  /\ UNCHANGED <<kind, LastWorker, goro, att, got, results, recent>>

LastN(s) == IF Len(s) <= N THEN s ELSE Tail(s)

Pick ==
  LET picked == IF kind = "round-robin" THEN highestScoringNode(Scored)
                ELSE lowestScoringNode(Scored)
  IN
  /\ call.pc = "scored"
  /\ call' = Answer(picked)
  /\ recent' = IF kind = "round-robin" THEN LastN(Append(recent, picked)) ELSE recent
  /\ UNCHANGED <<kind, LastWorker, goro, att, got, results, errs>>

Return ==
  /\ call.pc = "answered"
  /\ call' = NoCall
  /\ goro' = NoGoroutines /\ att' = NoAttempts
  /\ got' = Unset /\ results' = Unset /\ errs' = 0
  /\ UNCHANGED <<kind, LastWorker, recent>>

-----------------------------------------------------------------------------
(***************************************************************************)
(* One goroutine of Score: GetStats, then the score or the error           *)
(***************************************************************************)

(* What a worker makes of the readings of its machine: the zero value for  *)
(* memory it could not read, -1 for such a CPU.                            *)
NewStats(rd) ==
  [used  |-> IF rd.mem = None THEN 0 ELSE rd.mem.used,
   total |-> IF rd.mem = None THEN 0 ELSE rd.mem.total,
   cpu   |-> IF rd.cpu = None THEN -1 ELSE rd.cpu,
   tasks |-> rd.tasks]

(* GetStatsHandler: the last snapshot, or a 503 before the first one.      *)
GetStatsHandler == {NewStats(rd) : rd \in Readings} \cup {None}

GetStats(n) ==
  /\ goro[n] = "fetch"
  /\ \/ R!AttemptAnswered(n) /\ \E s \in GetStatsHandler : got' = [got EXCEPT ![n] = s]
     \/ R!AttemptFails(n) /\ UNCHANGED got
     \/ R!WaitOver(n) /\ UNCHANGED got
     \/ R!WaitCancelled(n) /\ UNCHANGED got
  /\ UNCHANGED <<kind, LastWorker, call, goro, results, errs, recent>>

DeadlinePasses(n) ==
  /\ goro[n] = "fetch"
  /\ R!Expire(n)
  /\ UNCHANGED <<kind, LastWorker, call, goro, got, results, errs, recent>>

(* The error of a fetch, of a status other than 200, of a body cut off by  *)
(* the deadline, of a worker without a memory total.                       *)
ScoringFails(n) ==
  /\ goro[n] = "fetch"
  /\ \/ att[n].pc = "failed"
     \/ att[n].pc = "ok" /\ (got[n] = None \/ att[n].expired)
     \/ att[n].pc = "ok" /\ got[n] # None /\ got[n].total <= 0
  /\ goro' = [goro EXCEPT ![n] = "send"]
  /\ UNCHANGED <<kind, LastWorker, call, att, got, results, errs, recent>>

(* The capacity of errsStream: a slot for every candidate.                 *)
ErrBuffer == Cardinality(call.cands)

SendError(n) ==
  /\ goro[n] = "send"
  /\ errs < ErrBuffer
  /\ errs' = errs + 1
  /\ goro' = [goro EXCEPT ![n] = "done"]
  /\ UNCHANGED <<kind, LastWorker, call, att, got, results, recent>>

ScoreNode(n) ==
  /\ goro[n] = "fetch"
  /\ att[n].pc = "ok"
  /\ got[n] # None
  /\ got[n].total > 0
  /\ results' = [results EXCEPT ![n] = nodeScore(got[n], call.task.mem)]
  /\ goro' = [goro EXCEPT ![n] = "done"]
  /\ UNCHANGED <<kind, LastWorker, call, att, got, errs, recent>>

-----------------------------------------------------------------------------
CallStep ==
  \/ SelectCandidateNodes
  \/ RoundRobinScore
  \/ Score
  \/ CollectScores
  \/ Pick

GoroutineStep(n) == GetStats(n) \/ ScoringFails(n) \/ SendError(n) \/ ScoreNode(n)

Next ==
  \/ \E t \in Task : SelectWorker(t)
  \/ CallStep
  \/ Return
  \/ \E n \in Nodes : GoroutineStep(n) \/ DeadlinePasses(n)

Spec == Init /\ [][Next]_vars

(* Goroutines run, timers fire, and a request under an expired context     *)
(* returns. That a worker ever answers is not assumed.                     *)
Fairness ==
  /\ WF_vars(CallStep)
  /\ \A n \in Nodes :
       /\ WF_vars(DeadlinePasses(n))
       /\ WF_vars(GoroutineStep(n) /\ (att[n].pc = "attempt" => att[n].expired))

FairSpec == Spec /\ Fairness

-----------------------------------------------------------------------------
(* The variables hold what the code's types allow.                         *)
TypeOK ==
  /\ kind \in SchedulerTypes
  /\ LastWorker \in Nodes
  /\ call \in [pc : {"idle", "select", "score", "wait", "scored", "answered"},
               task : Task \cup {None}, cands : SUBSET Nodes, ans : Nodes \cup {None}]
  /\ call.pc # "idle" => call.task # None
  /\ goro \in [Nodes -> {"none", "fetch", "send", "done"}]
  /\ att \in [Nodes -> R!Call]
  /\ got \in [Nodes -> Stats \cup {None}]
  /\ results \in [Nodes -> Int \cup {None}]
  /\ errs \in Nat

(* SelectWorker keeps what Selection promises the manager, however the     *)
(* goroutines interleave and whichever workers fail to answer: one answer, *)
(* the cheapest of those that were scored, nobody only if none was, and no *)
(* worker that has no score.                                               *)
Phase == IF call.pc \in {"idle", "answered"} THEN call.pc ELSE "open"

Price(n) ==
  IF results[n] = None \/ kind = "marginal-cost" THEN results[n] ELSE 1 - results[n]

Sel == INSTANCE Selection WITH
  phase <- Phase, offers <- [n \in Nodes |-> Price(n)], answer <- call.ans

ImplementsSelection == Sel!Spec

(* SelectWorker returns, whatever the workers do: the deadline ends every  *)
(* fetch, and no goroutine is left waiting to report its error to a        *)
(* channel nobody reads yet.                                               *)
EveryCallAnswered == Sel!Answered

(* A candidate is passed over only for a reason of its own: every attempt  *)
(* made, or the deadline gone, or an answer that cannot be used. A slow or *)
(* dead neighbour is not one.                                              *)
LeftOutForCause ==
  kind = "marginal-cost" /\ call.pc \in {"scored", "answered"} =>
    \A n \in call.cands \ Scored :
      \/ att[n].pc = "failed" /\ R!Spent(n)
      \/ att[n].pc = "ok" /\ (got[n] = None \/ att[n].expired \/ got[n].total = 0)

(* The worker that is picked is not outranked by another one that was      *)
(* scored: one with as much memory, at most as much of it used, at most as *)
(* many tasks, and a less busy CPU, where one that could not be read       *)
(* counts as fully busy.                                                   *)
Busy(s) == IF s.cpu = -1 THEN Quanta ELSE s.cpu
Outranks(s, r) ==
  s.total = r.total /\ s.used <= r.used /\ s.tasks <= r.tasks /\ Busy(s) < Busy(r)

PickIsNotOutranked ==
  kind = "marginal-cost" /\ call.pc = "answered" =>
    \A n, p \in Scored : p = call.ans => ~ Outranks(got[n], got[p])

(* Round-robin takes turns: among any N picks in a row every worker occurs.*)
TurnsAreEven ==
  Len(recent) = N => \A n \in Nodes : \E i \in 1..N : recent[i] = n
=============================================================================
