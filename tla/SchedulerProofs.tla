-------------------------- MODULE SchedulerProofs --------------------------
(***************************************************************************)
(* Proofs about Scheduler, for any number of workers, any readings and any *)
(* cost function that is strictly increasing and convex.                   *)
(***************************************************************************)
EXTENDS Scheduler, FiniteSetTheorems, WellFoundedInduction, NaturalsInduction, TLAPS

(***************************************************************************)
(* The pure functions                                                      *)
(***************************************************************************)

(* nextWorkerIndex is a valid index whatever the cursor holds, a negative  *)
(* one or one past the end included, and is the worker after it, counting  *)
(* round.                                                                  *)
THEOREM NextIndexInRange ==
  ASSUME NEW last \in Int, NEW n \in Nat \ {0}
  PROVE  /\ nextWorkerIndex(last, n) \in 0..(n - 1)
         /\ nextWorkerIndex(last, n) = (last + 1) % n
<1> DEFINE a == last + 1
<1>1. a % n \in 0..(n - 1) /\ (-a) % n \in 0..(n - 1)
  OBVIOUS
<1>2. CASE a >= 0
  BY <1>1, <1>2 DEF nextWorkerIndex, GoMod
<1>3. CASE a < 0
  <2> DEFINE r == a % n  s == (-a) % n  k == -((a \div n) + ((-a) \div n))
  <2>1. GoMod(a, n) = -s
    BY <1>3 DEF GoMod
  <2>2. a = n * (a \div n) + r /\ -a = n * ((-a) \div n) + s
    OBVIOUS
  <2>3. k \in Int /\ r + s = n * k
    BY <2>2
  <2>4. r + s >= 0 /\ r + s < 2 * n
    BY <1>1
  <2>5. k = 0 \/ k = 1
    <3>1. k < 0 => n * k < 0
      BY <2>3
    <3>2. k > 1 => n * k >= 2 * n
      BY <2>3
    <3> QED BY <2>3, <2>4, <3>1, <3>2
  <2>6. r + s = 0 \/ r + s = n
    BY <2>3, <2>5
  <2>7. nextWorkerIndex(last, n) = IF s = 0 THEN 0 ELSE n - s
    BY <1>1, <2>1 DEF nextWorkerIndex
  <2> QED BY <1>1, <2>6, <2>7
<1> QED BY <1>2, <1>3

LEMMA NodesAreNatural == Nodes \subseteq Nat
  BY DEF Nodes

LEMMA NodeCount == Cardinality(Nodes) = N
  BY FS_Interval, SchedulerAssumption DEF Nodes

LEMMA CursorInRange ==
  ASSUME LastWorker \in Nodes
  PROVE  nextWorkerIndex(LastWorker, Cardinality(Nodes)) \in Nodes
<1>1. N \in Nat \ {0} /\ LastWorker \in Int
  BY SchedulerAssumption DEF Nodes
<1>2. nextWorkerIndex(LastWorker, N) \in 0..(N - 1)
  BY <1>1, NextIndexInRange
<1> QED BY <1>2, NodeCount DEF Nodes

(* Every nonempty set of natural numbers has a least element.              *)
LEMMA LeastNatural ==
  ASSUME NEW S, S \subseteq Nat, S # {}
  PROVE  \E x \in S : \A y \in S : x <= y
<1>1. PICK x \in S : \A y \in S : ~ (<<y, x>> \in OpToRel(<, Nat))
  BY NatLessThanWellFounded, WFMin
<1>2. \A y \in S : ~ (y < x)
  BY <1>1 DEF OpToRel
<1> QED BY <1>2

(* What lowestScoringNode and highestScoringNode return, by their prices.  *)
Lowest(n, S) ==
  /\ n \in S
  /\ \A m \in S : results[n] <= results[m]
  /\ \A m \in S : m < n => results[n] < results[m]

LEMMA LowestIsLowest ==
  ASSUME NEW S, S \subseteq Nodes, S # {}, \A n \in S : results[n] \in Nat
  PROVE  Lowest(lowestScoringNode(S), S)
<1> DEFINE P == {results[n] : n \in S}
<1>1. PICK p \in P : \A q \in P : p <= q
  <2>1. P \subseteq Nat /\ P # {}
    OBVIOUS
  <2> QED BY <2>1, LeastNatural
<1> DEFINE C == {n \in S : results[n] = p}
<1>2. PICK n \in C : \A m \in C : n <= m
  <2>1. C \subseteq Nat
    BY NodesAreNatural
  <2>2. C # {}
    BY <1>1
  <2> QED BY <2>1, <2>2, LeastNatural
<1>3. Lowest(n, S)
  <2>1. \A m \in S : results[n] <= results[m]
    BY <1>1
  <2>2. ASSUME NEW m \in S, m < n
        PROVE  results[n] < results[m]
    <3>1. m \notin C
      BY <1>2, <2>2 DEF Nodes
    <3> QED BY <2>1, <3>1
  <2> QED BY <2>1, <2>2 DEF Lowest
<1> QED BY <1>3 DEF Lowest, lowestScoringNode

LEMMA HighestIsSelected ==
  ASSUME NEW i \in Nodes, results = scoreNodes(i)
  PROVE  highestScoringNode(Nodes) = i
<1>1. \A m \in Nodes : results[m] <= results[i]
  BY DEF scoreNodes
<1>2. \A m \in Nodes : m # i => results[m] < results[i]
  BY DEF scoreNodes
<1>3. \A n \in Nodes : (\A m \in Nodes : results[m] <= results[n]) => n = i
  BY DEF scoreNodes
<1> QED BY <1>1, <1>2, <1>3 DEF highestScoringNode, Nodes

(***************************************************************************)
(* The cost of a placement                                                 *)
(***************************************************************************)

(* The stats a worker can answer with and that can be scored.              *)
Usable == {s \in GetStatsHandler : s # None /\ s.total > 0}

LEMMA UsableType ==
  ASSUME NEW s \in Usable
  PROVE  /\ s \in Stats
         /\ \E rd \in Readings : rd.mem # None /\ s = NewStats(rd)
<1>1. PICK rd \in Readings : s = NewStats(rd)
  BY DEF Usable, GetStatsHandler
<1>2. rd \in Reading
  BY SchedulerAssumption
<1>3. rd.mem # None
  BY <1>1 DEF Usable, NewStats
<1> QED BY <1>1, <1>2, <1>3, PowerAssumption DEF Stats, NewStats, Reading

(* The loads of a usable snapshot are within the domain of powerCost.      *)
LEMMA LoadsInRange ==
  ASSUME NEW s \in Usable, NEW m \in TaskMems
  PROVE  /\ MemLoad(s.used, s.total) \in Loads
         /\ MemLoad(m, s.total) \in Loads
         /\ MemLoad(s.used + m, s.total) = MemLoad(s.used, s.total) + MemLoad(m, s.total)
         /\ MemLoad(s.used + m, s.total) \in Loads
         /\ JobLoad(s.tasks) \in Loads
         /\ JobLoad(1) \in Loads
         /\ JobLoad(s.tasks + 1) = JobLoad(s.tasks) + JobLoad(1)
         /\ JobLoad(s.tasks + 1) \in Loads
<1>1. PICK rd \in Readings : rd.mem # None /\ s = NewStats(rd)
  BY UsableType
<1>2. rd \in Reading /\ m \in Nat /\ Quanta \in Nat /\ MaxLoad \in Nat
  BY SchedulerAssumption, PowerAssumption
<1>3. s.used = rd.mem.used /\ s.total = rd.mem.total /\ s.tasks = rd.tasks
  BY <1>1 DEF NewStats
<1>4. s.used \in Nat /\ s.total \in Nat \ {0}
  BY <1>1, <1>2, <1>3 DEF Reading
<1> DEFINE k == Quanta \div s.total
<1>5. k \in Nat
  BY <1>2, <1>4
<1>6. s.used * k \in Nat /\ m * k \in Nat /\ (s.used + m) * k = s.used * k + m * k
  <2> HIDE DEF k
  <2> QED BY <1>2, <1>4, <1>5
<1>7. (s.used + m) * k \in Loads
  BY <1>1, <1>3, LoadAssumption DEF MemLoad
<1>8. s.used * k \in Loads /\ m * k \in Loads
  <2> HIDE DEF k
  <2> QED BY <1>2, <1>6, <1>7 DEF Loads
<1>9. /\ JobLoad(s.tasks) \in Loads /\ JobLoad(1) \in Loads
      /\ JobLoad(s.tasks + 1) = JobLoad(s.tasks) + JobLoad(1)
      /\ JobLoad(s.tasks + 1) \in Loads
  BY <1>1, <1>3, LoadAssumption
<1> QED BY <1>6, <1>7, <1>8, <1>9 DEF MemLoad

LEMMA CpuLoadIsBusy ==
  ASSUME NEW s \in Usable
  PROVE  cpuLoad(s) = Busy(s) /\ Busy(s) \in Loads
<1>1. s.cpu \in -1..Quanta /\ Quanta \in Nat \ {0} /\ MaxLoad \in Nat /\ Quanta <= MaxLoad
  BY UsableType, PowerAssumption DEF Stats
<1> QED BY <1>1 DEF cpuLoad, normalizeCPUUsage, Busy, Loads

(* A score is a cost: no placement is free of charge below zero.           *)
LEMMA ScoreIsNatural ==
  ASSUME NEW s \in Usable, NEW m \in TaskMems
  PROVE  nodeScore(s, m) \in Nat
<1>1. \A x, y \in Loads : x <= y => powerCost(y) - powerCost(x) \in Nat
  BY PowerAssumption DEF Loads
<1>2. memCost(s, m) \in Nat
  <2>1. MemLoad(s.used, s.total) <= MemLoad(s.used + m, s.total)
    BY LoadsInRange DEF Loads
  <2> QED BY <1>1, <2>1, LoadsInRange DEF memCost
<1>3. jobCost(s) \in Nat
  <2>1. JobLoad(s.tasks) <= JobLoad(s.tasks + 1)
    BY LoadsInRange DEF Loads
  <2> QED BY <1>1, <2>1, LoadsInRange DEF jobCost
<1>4. cpuCost(s) \in Nat
  <2>1. 0 \in Loads /\ 0 <= Busy(s)
    BY CpuLoadIsBusy, PowerAssumption DEF Loads
  <2> QED BY <1>1, <2>1, CpuLoadIsBusy DEF cpuCost
<1> QED BY <1>2, <1>3, <1>4 DEF nodeScore

(* A worker that outranks another one costs less, whatever the task and    *)
(* whatever the convex cost function.                                      *)
THEOREM OutrankingIsCheaper ==
  ASSUME NEW s \in Usable, NEW r \in Usable, NEW m \in TaskMems, Outranks(s, r)
  PROVE  nodeScore(s, m) < nodeScore(r, m)
<1>1. /\ s.total = r.total /\ s.used <= r.used
      /\ s.tasks <= r.tasks /\ Busy(s) < Busy(r)
  BY DEF Outranks
<1>2. /\ s.used \in Nat /\ r.used \in Nat /\ s.total \in Nat \ {0}
      /\ s.tasks \in Nat /\ r.tasks \in Nat
  BY UsableType DEF Stats, Usable
<1>3. Quanta \in Nat
  BY PowerAssumption
<1>4. \A x, y, k \in Nat : x <= y => x * k <= y * k
  OBVIOUS
<1>5. MemLoad(s.used, s.total) <= MemLoad(r.used, r.total)
  <2>1. Quanta \div s.total \in Nat
    BY <1>2, <1>3
  <2> QED BY <1>1, <1>2, <1>4, <2>1 DEF MemLoad
<1>6. JobLoad(s.tasks) <= JobLoad(r.tasks)
  <2>1. Quanta \div maxJobsPerNode \in Nat
    BY <1>3 DEF maxJobsPerNode
  <2> QED BY <1>1, <1>2, <1>4, <2>1 DEF JobLoad
<1>7. \A x, y, d \in Loads : x <= y /\ y + d \in Loads
        => powerCost(x + d) - powerCost(x) <= powerCost(y + d) - powerCost(y)
  BY PowerAssumption
<1>8. memCost(s, m) <= memCost(r, m)
  <2>1. MemLoad(m, s.total) = MemLoad(m, r.total)
    BY <1>1
  <2> QED BY <1>5, <1>7, <2>1, LoadsInRange DEF memCost
<1>9. jobCost(s) <= jobCost(r)
  BY <1>6, <1>7, LoadsInRange DEF jobCost
<1>10. cpuCost(s) < cpuCost(r)
  <2>1. /\ powerCost(Busy(s)) < powerCost(Busy(r)) /\ powerCost(0) \in Int
        /\ powerCost(Busy(s)) \in Int /\ powerCost(Busy(r)) \in Int
    BY <1>1, CpuLoadIsBusy, PowerAssumption DEF Loads
  <2> QED BY <2>1, CpuLoadIsBusy DEF cpuCost
<1>11. /\ memCost(s, m) \in Int /\ memCost(r, m) \in Int
       /\ jobCost(s) \in Int /\ jobCost(r) \in Int
       /\ cpuCost(s) \in Int /\ cpuCost(r) \in Int
  <2>1. 0 \in Loads
    BY PowerAssumption DEF Loads
  <2> QED BY <2>1, LoadsInRange, CpuLoadIsBusy, PowerAssumption
          DEF memCost, jobCost, cpuCost
<1> QED BY <1>8, <1>9, <1>10, <1>11 DEF nodeScore
-----------------------------------------------------------------------------
(***************************************************************************)
(* The inductive invariant. A call goes through its stages; a goroutine    *)
(* has a reason for an error before it sends one, and has filled its slot  *)
(* from the stats it fetched otherwise.                                    *)
(***************************************************************************)
Before == {"idle", "select", "score"}

Cause(n) ==
  \/ att[n].pc = "failed" /\ R!Spent(n)
  \/ att[n].pc = "ok" /\ (got[n] = None \/ att[n].expired \/ got[n].total = 0)

Priced(n) == got[n] \in Usable /\ results[n] = nodeScore(got[n], call.task.mem)

Values ==
  /\ TypeOK
  /\ got \in [Nodes -> GetStatsHandler]
  /\ results \in [Nodes -> Nat \cup {None}]

CallStages ==
  /\ call.cands \in {{}, Nodes}
  /\ call.pc \in {"idle", "select"} => call.cands = {}
  /\ call.pc \in {"score", "wait", "scored"} => call.cands = Nodes
  /\ call.pc \in Before => results = Unset /\ goro = NoGoroutines
  /\ call.pc # "answered" => call.ans = None
  /\ kind = "round-robin" => call.pc # "wait"
  /\ kind = "round-robin" /\ call.pc = "scored" => results = scoreNodes(LastWorker)
  /\ kind = "marginal-cost" /\ call.pc = "scored" => Scored # {}
  /\ kind = "marginal-cost" /\ call.pc = "answered" =>
       \/ Scored # {} /\ Lowest(call.ans, Scored)
       \/ Scored = {} /\ call.ans = None

GoroutineStages ==
  \A n \in Nodes :
    /\ goro[n] \in {"fetch", "send"} => call.pc = "wait" /\ results[n] = None
    /\ goro[n] = "none" /\ kind = "marginal-cost" => results[n] = None
    /\ goro[n] = "none" /\ kind = "marginal-cost" =>
         call.pc \in Before \/ n \notin call.cands
    /\ goro[n] = "send" => Cause(n)
    /\ goro[n] = "done" => (results[n] = None /\ Cause(n)) \/ Priced(n)
    /\ att[n].pc = "failed" => R!Spent(n)
    /\ att[n].pc = "wait" => att[n].tries < RetryLimit

SInv == Values /\ CallStages /\ GoroutineStages

LEMMA StatsAreTyped == GetStatsHandler \subseteq Stats \cup {None}
<1>1. \A rd \in Reading : NewStats(rd) \in Stats
  BY PowerAssumption DEF Reading, NewStats, Stats
<1> QED BY <1>1, SchedulerAssumption DEF GetStatsHandler

LEMMA PickFacts ==
  ASSUME SInv, call.pc = "scored"
  PROVE  \/ kind = "marginal-cost" /\ Lowest(lowestScoringNode(Scored), Scored)
         \/ kind = "round-robin" /\ Scored = Nodes /\ highestScoringNode(Scored) = LastWorker
<1>1. kind \in SchedulerTypes /\ LastWorker \in Nodes /\ call.cands = Nodes
  BY DEF SInv, Values, TypeOK, CallStages
<1>2. CASE kind = "marginal-cost"
  <2>1. Scored # {} /\ Scored \subseteq Nodes /\ \A n \in Scored : results[n] \in Nat
    BY <1>1, <1>2 DEF SInv, Values, CallStages, Scored
  <2> QED BY <1>2, <2>1, LowestIsLowest
<1>3. CASE kind = "round-robin"
  <2>1. results = scoreNodes(LastWorker)
    BY <1>3 DEF SInv, CallStages
  <2>2. Scored = Nodes
    BY <1>1, <2>1, SchedulerAssumption DEF Scored, scoreNodes
  <2> QED BY <1>1, <1>3, <2>1, <2>2, HighestIsSelected
<1> QED BY <1>1, <1>2, <1>3 DEF SchedulerTypes

LEMMA SelectWorkerKeeps ==
  ASSUME SInv, NEW t \in Task, SelectWorker(t)
  PROVE  SInv'
<1> USE DEF SInv
<1>1. Values'
  BY SchedulerAssumption DEF SelectWorker, Values, TypeOK, NoCall
<1>2. CallStages'
  BY DEF SelectWorker, Values, TypeOK, CallStages, Before, Scored, Lowest, NoCall
<1>3. GoroutineStages'
  BY DEF SelectWorker, Values, TypeOK, CallStages, GoroutineStages, Before, Cause,
         Priced, R!Spent, NoCall, Unset, NoGoroutines
<1> QED BY <1>1, <1>2, <1>3

LEMMA SelectCandidatesKeeps ==
  ASSUME SInv, SelectCandidateNodes
  PROVE  SInv'
<1> USE DEF SInv
<1>1. Values'
  BY DEF SelectCandidateNodes, Values, TypeOK, Answer
<1>2. CallStages'
  BY DEF SelectCandidateNodes, Values, TypeOK, CallStages, Before, Scored, Lowest,
         Answer, Unset
<1>3. GoroutineStages'
  BY DEF SelectCandidateNodes, Values, TypeOK, CallStages, GoroutineStages, Before,
         Cause, Priced, R!Spent, Answer, Unset, NoGoroutines
<1> QED BY <1>1, <1>2, <1>3

LEMMA RoundRobinScoreKeeps ==
  ASSUME SInv, RoundRobinScore
  PROVE  SInv'
<1> USE DEF SInv
<1>1. Values'
  BY CursorInRange DEF RoundRobinScore, Values, TypeOK, CallStages, At, scoreNodes
<1>2. CallStages'
  BY DEF RoundRobinScore, Values, TypeOK, CallStages, Before, Scored, Lowest, At,
         scoreNodes
<1>3. GoroutineStages'
  BY DEF RoundRobinScore, Values, TypeOK, CallStages, GoroutineStages, Before, Cause,
         Priced, R!Spent, At, NoGoroutines
<1> QED BY <1>1, <1>2, <1>3

LEMMA ScoreKeeps ==
  ASSUME SInv, Score
  PROVE  SInv'
<1> USE DEF SInv
<1>a. R!FirstAttempt \in R!Call /\ R!NoCall \in R!Call
  BY SchedulerAssumption DEF R!Call, R!NoCall, R!FirstAttempt
<1>1. Values'
  BY <1>a DEF Score, Values, TypeOK, At
<1>2. CallStages'
  BY DEF Score, Values, TypeOK, CallStages, Before, Scored, Lowest, At
<1>3. GoroutineStages'
  BY DEF Score, Values, TypeOK, CallStages, GoroutineStages, Before, Cause, Priced,
         R!Spent,
         At, Unset, R!NoCall, R!FirstAttempt
<1> QED BY <1>1, <1>2, <1>3

LEMMA CollectKeeps ==
  ASSUME SInv, CollectScores
  PROVE  SInv'
<1> USE DEF SInv
<1>1. Values'
  BY DEF CollectScores, Values, TypeOK, At, Answer
<1>2. CallStages'
  BY DEF CollectScores, Values, TypeOK, CallStages, Before, Scored, Lowest, At, Answer
<1>3. GoroutineStages'
  BY DEF CollectScores, Values, TypeOK, CallStages, GoroutineStages, Before, Cause,
         Priced, R!Spent, At, Answer
<1> QED BY <1>1, <1>2, <1>3

LEMMA PickKeeps ==
  ASSUME SInv, Pick
  PROVE  SInv'
<1> USE DEF SInv
<1>a. \/ kind = "marginal-cost" /\ Lowest(lowestScoringNode(Scored), Scored)
      \/ kind = "round-robin" /\ Scored = Nodes /\ highestScoringNode(Scored) = LastWorker
  BY PickFacts DEF Pick
<1>1. Values'
  BY <1>a DEF Pick, Values, TypeOK, CallStages, Answer, Lowest, Scored
<1>2. CallStages'
  BY <1>a DEF Pick, Values, TypeOK, CallStages, Before, Scored, Lowest, Answer
<1>3. GoroutineStages'
  BY DEF Pick, Values, TypeOK, CallStages, GoroutineStages, Before, Cause, Priced,
         R!Spent, Answer
<1> QED BY <1>1, <1>2, <1>3

LEMMA ReturnKeeps ==
  ASSUME SInv, Return
  PROVE  SInv'
<1> USE DEF SInv
<1>1. Values'
  BY SchedulerAssumption DEF Return, Values, TypeOK, NoCall, NoGoroutines, NoAttempts,
                             Unset, R!Call, R!NoCall, GetStatsHandler
<1>2. CallStages'
  BY DEF Return, Values, TypeOK, CallStages, Before, Scored, Lowest, NoCall
<1>3. GoroutineStages'
  BY DEF Return, Values, TypeOK, CallStages, GoroutineStages, Before, Cause, Priced,
         R!Spent, NoCall, NoGoroutines, NoAttempts, Unset, R!NoCall
<1> QED BY <1>1, <1>2, <1>3

(* A step of HTTPWithRetry touches its own caller's locals, gives up for a *)
(* reason, and waits only if an attempt is left.                           *)
LEMMA RetryStep ==
  ASSUME NEW n \in Nodes, att \in [Nodes -> R!Call],
         att[n].pc = "wait" => att[n].tries < RetryLimit,
         \/ R!AttemptAnswered(n)
         \/ R!AttemptFails(n)
         \/ R!WaitOver(n)
         \/ R!WaitCancelled(n)
  PROVE  /\ att' \in [Nodes -> R!Call]
         /\ \A m \in Nodes : m # n => att'[m] = att[m]
         /\ att'[n].pc = "failed" => att'[n].expired \/ att'[n].tries = RetryLimit
         /\ att'[n].pc = "wait" => att'[n].tries < RetryLimit
<1>0. RetryLimit \in Nat /\ att[n].tries \in 0..RetryLimit
  BY SchedulerAssumption DEF R!Call
<1>1. CASE R!AttemptAnswered(n)
  BY <1>1 DEF R!AttemptAnswered, R!At, R!Call
<1>2. CASE R!AttemptFails(n)
  BY <1>0, <1>2 DEF R!AttemptFails, R!At, R!Call
<1>3. CASE R!WaitOver(n)
  BY <1>0, <1>3 DEF R!WaitOver, R!Call
<1>4. CASE R!WaitCancelled(n)
  BY <1>4 DEF R!WaitCancelled, R!At, R!Call
<1> QED BY <1>1, <1>2, <1>3, <1>4

LEMMA GetStatsKeeps ==
  ASSUME SInv, NEW n \in Nodes, GetStats(n)
  PROVE  SInv'
<1> USE DEF SInv
<1>a. /\ att' \in [Nodes -> R!Call]
      /\ \A m \in Nodes : m # n => att'[m] = att[m]
      /\ att'[n].pc = "failed" => att'[n].expired \/ att'[n].tries = RetryLimit
      /\ att'[n].pc = "wait" => att'[n].tries < RetryLimit
  BY RetryStep DEF GetStats, Values, TypeOK, GoroutineStages
<1>b. /\ got' \in [Nodes -> GetStatsHandler]
      /\ \A m \in Nodes : m # n => got'[m] = got[m]
  BY DEF GetStats, Values
<1>c. goro[n] = "fetch" /\ UNCHANGED <<kind, LastWorker, call, goro, results, errs, recent>>
  BY DEF GetStats
<1>1. Values'
  BY <1>a, <1>b, <1>c, StatsAreTyped DEF Values, TypeOK
<1>2. CallStages'
  BY <1>c DEF CallStages, Scored, Lowest
<1>3. GoroutineStages'
  BY <1>a, <1>b, <1>c DEF GoroutineStages, Cause, Priced, R!Spent
<1> QED BY <1>1, <1>2, <1>3

LEMMA DeadlineKeeps ==
  ASSUME SInv, NEW n \in Nodes, DeadlinePasses(n)
  PROVE  SInv'
<1> USE DEF SInv
<1>a. att' \in [Nodes -> R!Call]
  <2>1. att \in [Nodes -> R!Call] /\ att' = [att EXCEPT ![n].expired = TRUE]
    BY DEF Values, TypeOK, DeadlinePasses, R!Expire
  <2> QED BY <2>1 DEF R!Call
<1>1. Values'
  BY <1>a DEF DeadlinePasses, Values, TypeOK
<1>2. CallStages'
  BY DEF DeadlinePasses, Values, TypeOK, CallStages, Before, Scored, Lowest
<1>3. GoroutineStages'
  BY DEF DeadlinePasses, Values, TypeOK, CallStages, GoroutineStages, Before, Cause,
         Priced, R!Spent, R!Expire, R!Call
<1> QED BY <1>1, <1>2, <1>3

LEMMA ScoringFailsKeeps ==
  ASSUME SInv, NEW n \in Nodes, ScoringFails(n)
  PROVE  SInv'
<1> USE DEF SInv
<1>a. call.pc = "wait" /\ results[n] = None
  BY DEF GoroutineStages, ScoringFails
<1>b. Cause(n)
  <2>1. got[n] # None => got[n].total \in Nat
    BY DEF Values, TypeOK, Stats
  <2>2. att[n].pc = "failed" => R!Spent(n)
    BY DEF GoroutineStages
  <2> QED BY <2>1, <2>2 DEF ScoringFails, Cause
<1>1. Values'
  BY DEF ScoringFails, Values, TypeOK
<1>2. CallStages'
  BY <1>a DEF ScoringFails, Values, TypeOK, CallStages, Before, Scored, Lowest
<1>3. GoroutineStages'
  BY <1>a, <1>b DEF ScoringFails, Values, TypeOK, GoroutineStages, Before, Cause,
                    Priced, R!Spent
<1> QED BY <1>1, <1>2, <1>3

LEMMA SendErrorKeeps ==
  ASSUME SInv, NEW n \in Nodes, SendError(n)
  PROVE  SInv'
<1> USE DEF SInv
<1>a. call.pc = "wait" /\ results[n] = None
  BY DEF GoroutineStages, SendError
<1>1. Values'
  BY DEF SendError, Values, TypeOK
<1>2. CallStages'
  BY <1>a DEF SendError, Values, TypeOK, CallStages, Before, Scored, Lowest
<1>3. GoroutineStages'
  BY <1>a DEF SendError, Values, TypeOK, CallStages, GoroutineStages, Before, Cause,
              Priced, R!Spent
<1> QED BY <1>1, <1>2, <1>3

LEMMA ScoreNodeKeeps ==
  ASSUME SInv, NEW n \in Nodes, ScoreNode(n)
  PROVE  SInv'
<1> USE DEF SInv
<1>a. call.pc = "wait" /\ results[n] = None
  BY DEF GoroutineStages, ScoreNode
<1>b. got[n] \in Usable /\ nodeScore(got[n], call.task.mem) \in Nat
  <2>1. got[n] \in Usable /\ call.task.mem \in TaskMems
    BY <1>a DEF ScoreNode, Values, TypeOK, Usable, Task
  <2> QED BY <2>1, ScoreIsNatural
<1>1. Values'
  BY <1>a, <1>b DEF ScoreNode, Values, TypeOK
<1>2. CallStages'
  BY <1>a, <1>b DEF ScoreNode, Values, TypeOK, CallStages, Before, Scored, Lowest
<1>3. GoroutineStages'
  BY <1>a, <1>b DEF ScoreNode, Values, TypeOK, CallStages, GoroutineStages, Before,
                    Cause, Priced, R!Spent
<1> QED BY <1>1, <1>2, <1>3

LEMMA InitHasInv == Init => SInv
<1> SUFFICES ASSUME Init PROVE SInv
  OBVIOUS
<1>1. R!NoCall \in R!Call /\ 0 \in Nodes
  BY SchedulerAssumption DEF R!Call, R!NoCall, Nodes
<1>2. Values
  BY <1>1 DEF Init, Values, TypeOK, NoCall, NoGoroutines, NoAttempts, Unset,
              GetStatsHandler
<1>3. CallStages
  BY DEF Init, CallStages, NoCall, Before
<1>4. GoroutineStages
  BY DEF Init, GoroutineStages, NoCall, NoGoroutines, NoAttempts, Unset, Before, R!NoCall
<1> QED BY <1>2, <1>3, <1>4 DEF SInv

LEMMA NextKeepsInv == SInv /\ [Next]_vars => SInv'
<1> SUFFICES ASSUME SInv, [Next]_vars PROVE SInv'
  OBVIOUS
<1>1. CASE Next
  BY <1>1, SelectWorkerKeeps, SelectCandidatesKeeps, RoundRobinScoreKeeps, ScoreKeeps,
     CollectKeeps, PickKeeps, ReturnKeeps, GetStatsKeeps, DeadlineKeeps, ScoringFailsKeeps,
     SendErrorKeeps, ScoreNodeKeeps
     DEF Next, CallStep, GoroutineStep
<1>2. CASE UNCHANGED vars
  BY <1>2 DEF vars, SInv, Values, TypeOK, CallStages, GoroutineStages, Scored, Lowest,
              Cause,
              Priced, R!Spent
<1> QED BY <1>1, <1>2

(* The inductive invariant holds in every state. The stages are what makes *)
(* it inductive: an empty slot tells of a cause only once its goroutine is *)
(* done, and the scores may be compared only once all of them are.         *)
THEOREM InvHolds == Spec => []SInv
  BY InitHasInv, NextKeepsInv, PTL DEF Spec

(* The type invariant of the scheduler.                                    *)
THEOREM TypeCorrect == Spec => []TypeOK
<1>1. SInv => TypeOK
  BY DEF SInv, Values
<1> QED BY <1>1, InvHolds, PTL

(* A candidate that answers in time with usable stats is never passed over,*)
(* whatever happens to the others.                                         *)
THEOREM PassedOverForCause == Spec => []LeftOutForCause
<1>1. SInv => LeftOutForCause
  <2> SUFFICES ASSUME SInv, kind = "marginal-cost", call.pc \in {"scored", "answered"},
                      NEW n \in call.cands \ Scored
               PROVE  Cause(n)
    BY DEF LeftOutForCause, Cause
  <2>1. n \in Nodes /\ results[n] = None
    BY DEF SInv, Values, TypeOK, Scored
  <2>2. goro[n] = "done"
    BY <2>1 DEF SInv, Values, TypeOK, GoroutineStages, Before
  <2>3. ~ Priced(n)
    <3> SUFFICES ASSUME Priced(n) PROVE FALSE
      OBVIOUS
    <3>1. call.task.mem \in TaskMems
      BY DEF SInv, Values, TypeOK, Task
    <3>2. results[n] \in Nat
      BY <3>1, ScoreIsNatural DEF Priced
    <3> QED BY <2>1, <3>2, SchedulerAssumption
  <2> QED BY <2>1, <2>2, <2>3 DEF SInv, GoroutineStages
<1> QED BY <1>1, InvHolds, PTL

(* The choice is right for every convex cost function: the worker picked   *)
(* is not outranked by another one that was scored.                        *)
THEOREM ChoiceIsSound == Spec => []PickIsNotOutranked
<1>1. SInv => PickIsNotOutranked
  <2> SUFFICES ASSUME SInv, kind = "marginal-cost", call.pc = "answered",
                      NEW n \in Scored, NEW p \in Scored, p = call.ans,
                      Outranks(got[n], got[p])
               PROVE  FALSE
    BY DEF PickIsNotOutranked
  <2>1. n \in Nodes /\ p \in Nodes /\ results[n] # None /\ results[p] # None
    BY DEF SInv, Values, TypeOK, Scored
  <2>2. goro[n] = "done" /\ goro[p] = "done"
    BY <2>1 DEF SInv, Values, TypeOK, GoroutineStages
  <2>3. Priced(n) /\ Priced(p)
    BY <2>1, <2>2 DEF SInv, GoroutineStages
  <2>4. call.task.mem \in TaskMems
    BY DEF SInv, Values, TypeOK, Task
  <2>5. results[n] < results[p]
    BY <2>3, <2>4, OutrankingIsCheaper DEF Priced
  <2>6. results[p] <= results[n]
    BY <2>1 DEF SInv, CallStages, Lowest
  <2>7. results[n] \in Nat /\ results[p] \in Nat
    BY <2>3, <2>4, ScoreIsNatural DEF Priced
  <2> QED BY <2>5, <2>6, <2>7
<1> QED BY <1>1, InvHolds, PTL
-----------------------------------------------------------------------------
(***************************************************************************)
(* Turns. Read backwards from the last pick the history counts down, round *)
(* and round. The last pick is the cursor, except between the Score that   *)
(* moves it and the pick that follows.                                     *)
(***************************************************************************)
Back(x, k) == IF k <= x THEN x - k ELSE x - k + N

LastPick == IF call.pc = "scored" THEN Back(LastWorker, 1) ELSE LastWorker

Turns ==
  /\ recent \in Seq(Nodes) /\ Len(recent) <= N
  /\ kind = "marginal-cost" => recent = <<>>
  /\ \A i \in 1..Len(recent) : recent[i] = Back(LastPick, Len(recent) - i)

LEMMA BackIsNode ==
  ASSUME NEW x \in Nodes, NEW k \in 0..N
  PROVE  Back(x, k) \in Nodes
  BY SchedulerAssumption DEF Back, Nodes

LEMMA BackOfBack ==
  ASSUME NEW x \in Nodes, NEW k \in 0..(N - 1)
  PROVE  Back(Back(x, 1), k) = Back(x, k + 1)
  BY SchedulerAssumption DEF Back, Nodes

(* The cursor moves by one, and Back undoes it.                            *)
LEMMA CursorMovesByOne ==
  ASSUME LastWorker \in Nodes
  PROVE  Back(nextWorkerIndex(LastWorker, Cardinality(Nodes)), 1) = LastWorker
<1>1. N \in Nat \ {0} /\ LastWorker \in 0..(N - 1)
  BY SchedulerAssumption DEF Nodes
<1>2. nextWorkerIndex(LastWorker, Cardinality(Nodes)) = (LastWorker + 1) % N
  BY <1>1, NextIndexInRange, NodeCount
<1>3. CASE LastWorker = N - 1
  <2>1. (LastWorker + 1) % N = 0
    BY <1>1, <1>3
  <2> QED BY <1>1, <1>2, <1>3, <2>1 DEF Back
<1>4. CASE LastWorker + 1 < N
  <2>1. (LastWorker + 1) % N = LastWorker + 1
    BY <1>1, <1>4
  <2> QED BY <1>1, <1>2, <2>1 DEF Back
<1> QED BY <1>1, <1>3, <1>4

LEMMA PickKeepsTurns ==
  ASSUME SInv, Turns, Pick
  PROVE  Turns'
<1> DEFINE L == Len(recent)
<1>1. LastWorker \in Nodes /\ kind \in SchedulerTypes /\ N \in Nat \ {0}
  BY SchedulerAssumption DEF SInv, Values, TypeOK
<1>2. call.pc = "scored" /\ call'.pc = "answered"
  BY DEF Pick, Answer, SInv, Values, TypeOK
<1>3. LastPick = Back(LastWorker, 1) /\ LastPick' = LastWorker
  BY <1>2 DEF LastPick, Pick
<1>4. CASE kind = "marginal-cost"
  BY <1>4 DEF Pick, Turns
<1>5. CASE kind = "round-robin"
  <2> DEFINE long == Append(recent, LastWorker)
  <2>1. recent' = LastN(long) /\ kind' = kind
    BY <1>2, <1>5, PickFacts DEF Pick
  <2>2. L \in Nat /\ L <= N /\ recent \in Seq(Nodes)
    BY DEF Turns
  <2>3. /\ long \in Seq(Nodes) /\ Len(long) = L + 1
        /\ \A i \in 1..L : long[i] = recent[i]
        /\ long[L + 1] = LastWorker
    BY <1>1, <2>2
  <2>4. \A i \in 1..(L + 1) : L + 1 - i <= N - 1 => long[i] = Back(LastWorker, L + 1 - i)
    <3> SUFFICES ASSUME NEW i \in 1..(L + 1), L + 1 - i <= N - 1
                 PROVE  long[i] = Back(LastWorker, L + 1 - i)
      OBVIOUS
    <3>1. CASE i = L + 1
      BY <1>1, <2>2, <2>3, <3>1 DEF Back, Nodes
    <3>2. CASE i \in 1..L
      <4>1. L - i \in 0..(N - 1) /\ (L - i) + 1 = L + 1 - i
        BY <1>1, <2>2, <3>2
      <4>2. long[i] = Back(LastPick, L - i)
        BY <2>3, <3>2 DEF Turns
      <4>3. Back(Back(LastWorker, 1), L - i) = Back(LastWorker, (L - i) + 1)
        BY <1>1, <4>1, BackOfBack
      <4> QED BY <1>3, <4>1, <4>2, <4>3
    <3> QED BY <2>2, <3>1, <3>2
  <2> HIDE DEF long
  <2>5. CASE L < N
    <3>1. recent' = long
      BY <1>1, <2>1, <2>2, <2>3, <2>5 DEF LastN
    <3> QED BY <1>1, <1>3, <1>5, <2>1, <2>2, <2>3, <2>4, <2>5, <3>1 DEF Turns
  <2>6. CASE L = N
    <3>1. recent' = Tail(long)
      BY <1>1, <2>1, <2>2, <2>3, <2>6 DEF LastN
    <3>2. /\ recent' \in Seq(Nodes) /\ Len(recent') = N
          /\ \A i \in 1..N : recent'[i] = long[i + 1]
      BY <1>1, <2>2, <2>3, <2>6, <3>1
    <3>3. ASSUME NEW i \in 1..N
          PROVE  recent'[i] = Back(LastWorker, N - i)
      <4>1. i + 1 \in 1..(L + 1) /\ L + 1 - (i + 1) = N - i /\ N - i <= N - 1
        BY <1>1, <2>6
      <4> QED BY <2>4, <3>2, <4>1
    <3> QED BY <1>1, <1>3, <1>5, <2>1, <3>2, <3>3 DEF Turns
  <2> QED BY <1>1, <2>2, <2>5, <2>6
<1> QED BY <1>1, <1>4, <1>5 DEF SchedulerTypes

LEMMA NextKeepsTurns == SInv /\ SInv' /\ Turns /\ [Next]_vars => Turns'
<1> SUFFICES ASSUME SInv, SInv', Turns, [Next]_vars PROVE Turns'
  OBVIOUS
<1>1. ASSUME UNCHANGED <<kind, recent, LastPick>> PROVE Turns'
  BY <1>1 DEF Turns
<1>2. ASSUME kind = "marginal-cost", UNCHANGED <<kind, recent>> PROVE Turns'
  BY <1>2, SchedulerAssumption DEF Turns
<1>3. ASSUME UNCHANGED <<kind, LastWorker, recent>>, call.pc # "scored", call'.pc # "scored"
      PROVE  Turns'
  BY <1>1, <1>3 DEF LastPick
<1>4. ASSUME RoundRobinScore
      PROVE  Turns'
  <2>1. LastWorker \in Nodes /\ call.cands = Nodes
    BY <1>4 DEF RoundRobinScore, SInv, Values, TypeOK, CallStages
  <2>2. LastPick = LastWorker /\ LastPick' = Back(LastWorker', 1)
    BY <1>4 DEF RoundRobinScore, LastPick, At, SInv, Values, TypeOK
  <2>3. LastPick' = LastPick
    BY <1>4, <2>1, <2>2, CursorMovesByOne DEF RoundRobinScore
  <2> QED BY <1>1, <1>4, <2>3 DEF RoundRobinScore
<1>5. ASSUME (\E t \in Task : SelectWorker(t)) \/ SelectCandidateNodes \/ Return
      PROVE  Turns'
  <2>1. call.pc # "scored" /\ call'.pc # "scored"
    <3>1. call \in [pc : {"idle", "select", "score", "wait", "scored", "answered"},
                    task : Task \cup {None}, cands : SUBSET Nodes, ans : Nodes \cup {None}]
      BY DEF SInv, Values, TypeOK
    <3>2. CASE SelectCandidateNodes
      BY <3>1, <3>2 DEF SelectCandidateNodes, Answer
    <3>3. CASE \E t \in Task : SelectWorker(t)
      BY <3>3 DEF SelectWorker, NoCall
    <3>4. CASE Return
      BY <3>4 DEF Return, NoCall
    <3> QED BY <1>5, <3>2, <3>3, <3>4
  <2> QED BY <1>3, <1>5, <2>1 DEF SelectWorker, SelectCandidateNodes, Return
<1>6. ASSUME CollectScores \/ Score
      PROVE  Turns'
  <2>1. kind = "marginal-cost"
    BY <1>6 DEF CollectScores, Score, SInv, CallStages, Values, TypeOK, SchedulerTypes
  <2> QED BY <1>2, <1>6, <2>1 DEF CollectScores, Score
<1>7. ASSUME NEW n \in Nodes, GoroutineStep(n) \/ DeadlinePasses(n)
      PROVE  Turns'
  <2>1. UNCHANGED <<kind, LastWorker, call, recent>>
    BY <1>7 DEF GoroutineStep, GetStats, ScoringFails, SendError, ScoreNode, DeadlinePasses
  <2> QED BY <1>1, <2>1 DEF LastPick
<1>8. ASSUME UNCHANGED vars
      PROVE  Turns'
  BY <1>1, <1>8 DEF vars, LastPick
<1> QED BY <1>4, <1>5, <1>6, <1>7, <1>8, PickKeepsTurns DEF Next, CallStep

(* Round-robin takes turns, for any number of workers and any sequence of  *)
(* calls: every window of N picks holds each worker.                       *)
THEOREM TurnsHold == Spec => []TurnsAreEven
<1>1. Init => Turns
  BY SchedulerAssumption DEF Init, Turns
<1>2. SInv /\ Turns => TurnsAreEven
  <2> SUFFICES ASSUME SInv, Turns, Len(recent) = N, NEW n \in Nodes
               PROVE  \E i \in 1..N : recent[i] = n
    BY DEF TurnsAreEven
  <2>1. LastWorker \in Nodes /\ N \in Nat \ {0}
    BY SchedulerAssumption DEF SInv, Values, TypeOK
  <2>2. LastPick \in Nodes
    BY <2>1, BackIsNode DEF LastPick
  <2>3. PICK k \in 0..(N - 1) : Back(LastPick, k) = n
    <3>1. CASE n <= LastPick
      <4>1. LastPick - n \in 0..(N - 1) /\ Back(LastPick, LastPick - n) = n
        BY <2>1, <2>2, <3>1 DEF Back, Nodes
      <4> QED BY <4>1
    <3>2. CASE LastPick < n
      <4>1. LastPick - n + N \in 0..(N - 1) /\ Back(LastPick, LastPick - n + N) = n
        BY <2>1, <2>2, <3>2 DEF Back, Nodes
      <4> QED BY <4>1
    <3> QED BY <2>1, <2>2, <3>1, <3>2 DEF Nodes
  <2>4. N - k \in 1..N /\ N - (N - k) = k
    BY <2>1
  <2> QED BY <2>3, <2>4 DEF Turns
<1> QED BY <1>1, <1>2, NextKeepsTurns, InvHolds, PTL DEF Spec
-----------------------------------------------------------------------------
(***************************************************************************)
(* The refinement of Selection: every step opens the call, gathers offers, *)
(* answers, returns, or leaves the mapped state alone.                     *)
(***************************************************************************)
LEMMA PhaseIs ==
  ASSUME call.pc \in {"idle", "select", "score", "wait", "scored", "answered"}
  PROVE  /\ call.pc = "idle" => Phase = "idle"
         /\ call.pc \in {"select", "score", "wait", "scored"} => Phase = "open"
         /\ call.pc = "answered" => Phase = "answered"
  BY DEF Phase

LEMMA PriceIs ==
  ASSUME SInv, NEW n \in Nodes
  PROVE  /\ Price(n) = None <=> results[n] = None
         /\ Price(n) \in Int \cup {None}
  BY SchedulerAssumption DEF SInv, Values, TypeOK, Price

LEMMA NoSlotNoOffer ==
  ASSUME results = Unset
  PROVE  [n \in Nodes |-> Price(n)] = Sel!NoOffers
  BY DEF Unset, Price, Sel!NoOffers

(* The offers are the filled slots.                                        *)
LEMMA OfferedIsScored ==
  ASSUME SInv, call.pc \in {"wait", "scored"}
  PROVE  Sel!Offered = Scored
  BY PriceIs DEF SInv, CallStages, Sel!Offered, Scored

(* The pick is the earliest of the cheapest offers, under either scheduler.*)
LEMMA PickIsBest ==
  ASSUME SInv, call.pc = "scored",
         NEW p, p = IF kind = "round-robin" THEN highestScoringNode(Scored)
                    ELSE lowestScoringNode(Scored)
  PROVE  Sel!Best(p) /\ Sel!Offered # {}
<1>1. CASE kind = "marginal-cost"
  <2>1. p = lowestScoringNode(Scored) /\ Lowest(p, Scored)
    BY <1>1, PickFacts
  <2>2. \A n \in Scored : n \in Nodes /\ Price(n) = results[n]
    BY <1>1 DEF Price, Scored, SInv, Values, TypeOK
  <2> QED BY <2>1, <2>2, OfferedIsScored DEF Lowest, Sel!Best
<1>2. CASE kind = "round-robin"
  <2>1. p = LastWorker /\ Scored = Nodes /\ LastWorker \in Nodes
    BY <1>2, PickFacts DEF SInv, Values, TypeOK
  <2>2. results = scoreNodes(LastWorker)
    BY <1>2 DEF SInv, CallStages
  <2>3. \A n \in Nodes : Price(n) = IF n = LastWorker THEN 0 ELSE 1
    BY <1>2, <2>2, SchedulerAssumption DEF Price, scoreNodes
  <2> QED BY <2>1, <2>3, OfferedIsScored DEF Sel!Best, Nodes
<1> QED BY <1>1, <1>2 DEF SInv, Values, TypeOK, SchedulerTypes

LEMMA InitIsInit == Init => Sel!Init
<1> SUFFICES ASSUME Init PROVE Sel!Init
  OBVIOUS
<1>1. Phase = "idle" /\ call.ans = None
  BY DEF Init, NoCall, Phase
<1>2. [n \in Nodes |-> Price(n)] = Sel!NoOffers
  BY NoSlotNoOffer DEF Init
<1> QED BY <1>1, <1>2 DEF Sel!Init

LEMMA StepIsStep == SInv /\ SInv' /\ [Next]_vars => [Sel!Next]_(Sel!svars)
<1> SUFFICES ASSUME SInv, SInv', [Next]_vars PROVE [Sel!Next]_(Sel!svars)
  OBVIOUS
<1> DEFINE offers == [n \in Nodes |-> Price(n)]
<1>a. call.pc \in {"idle", "select", "score", "wait", "scored", "answered"}
  BY DEF SInv, Values, TypeOK
<1>b. /\ call'.pc = "idle" => Phase' = "idle"
      /\ call'.pc \in {"select", "score", "wait", "scored"} => Phase' = "open"
      /\ call'.pc = "answered" => Phase' = "answered"
  BY DEF Phase
<1>c. UNCHANGED <<kind, results>> => offers' = offers
  BY DEF Price
<1>d. call \in [pc : {"idle", "select", "score", "wait", "scored", "answered"},
                task : Task \cup {None}, cands : SUBSET Nodes, ans : Nodes \cup {None}]
  BY DEF SInv, Values, TypeOK
<1>1. ASSUME NEW t \in Task, SelectWorker(t)
      PROVE  Sel!Open
  <2>1. Phase = "idle" /\ Phase' = "open" /\ call'.ans = call.ans
    BY <1>1, <1>a, <1>b, PhaseIs DEF SelectWorker, NoCall, SInv, CallStages
  <2> QED BY <1>1, <1>c, <2>1 DEF Sel!Open, SelectWorker
<1>2. ASSUME SelectCandidateNodes
      PROVE  [Sel!Next]_(Sel!svars)
  <2>1. Phase = "open" /\ UNCHANGED offers /\ results = Unset
    BY <1>2, <1>a, <1>c, PhaseIs DEF SelectCandidateNodes, SInv, CallStages, Before
  <2>2. CASE call'.pc = "answered" /\ call'.ans = None
    <3>1. offers = Sel!NoOffers
      BY <2>1, NoSlotNoOffer
    <3>2. Sel!Offered = {}
      BY <3>1 DEF Sel!Offered, Sel!NoOffers
    <3>3. Phase' = "answered"
      BY <1>b, <2>2
    <3>4. Sel!Answer
      BY <2>1, <2>2, <3>2, <3>3 DEF Sel!Answer
    <3> QED BY <3>4 DEF Sel!Next
  <2>3. CASE call'.pc = "score" /\ call'.ans = call.ans
    <3>1. Phase' = "open"
      BY <1>b, <2>3
    <3> QED BY <2>1, <2>3, <3>1 DEF Sel!svars
  <2> QED BY <1>2, <1>d, <2>2, <2>3 DEF SelectCandidateNodes, Answer
<1>3. ASSUME RoundRobinScore
      PROVE  Sel!Gather
  <2>1. Phase = "open" /\ Phase' = "open" /\ call'.ans = call.ans
    BY <1>3, <1>a, <1>b, <1>d, PhaseIs DEF RoundRobinScore, At
  <2>2. Sel!Offered = {}
    <3>1. offers = Sel!NoOffers
      BY <1>3, NoSlotNoOffer DEF RoundRobinScore, SInv, CallStages, Before
    <3> QED BY <3>1 DEF Sel!Offered, Sel!NoOffers
  <2> QED BY <2>1, <2>2 DEF Sel!Gather
<1>4. ASSUME Score
      PROVE  UNCHANGED Sel!svars
  <2>1. Phase = "open" /\ Phase' = "open" /\ call'.ans = call.ans
    BY <1>4, <1>a, <1>b, <1>d, PhaseIs DEF Score, At
  <2> QED BY <1>4, <1>c, <2>1 DEF Score, Sel!svars
<1>5. ASSUME CollectScores
      PROVE  [Sel!Next]_(Sel!svars)
  <2>1. Phase = "open" /\ UNCHANGED offers /\ Sel!Offered = Scored
    BY <1>5, <1>a, <1>c, PhaseIs, OfferedIsScored DEF CollectScores
  <2>2. CASE Scored = {}
    <3>1. Phase' = "answered" /\ call'.ans = None
      BY <1>5, <1>b, <1>d, <2>2 DEF CollectScores, Answer
    <3>2. Sel!Answer
      BY <2>1, <2>2, <3>1 DEF Sel!Answer
    <3> QED BY <3>2 DEF Sel!Next
  <2>3. CASE Scored # {}
    <3>1. Phase' = "open" /\ call'.ans = call.ans
      BY <1>5, <1>b, <1>d, <2>3 DEF CollectScores, At
    <3> QED BY <2>1, <3>1 DEF Sel!svars
  <2> QED BY <2>2, <2>3
<1>6. ASSUME Pick
      PROVE  Sel!Answer
  <2>1. Phase = "open" /\ Phase' = "answered" /\ UNCHANGED offers
    BY <1>6, <1>a, <1>b, <1>c, <1>d, PhaseIs DEF Pick, Answer
  <2>2. call'.ans = IF kind = "round-robin" THEN highestScoringNode(Scored)
                    ELSE lowestScoringNode(Scored)
    BY <1>6, <1>d DEF Pick, Answer
  <2>3. Sel!Best(call'.ans) /\ Sel!Offered # {}
    BY <1>6, <2>2, PickIsBest DEF Pick
  <2> QED BY <2>1, <2>3 DEF Sel!Answer
<1>7. ASSUME Return
      PROVE  Sel!Return
  <2>1. Phase = "answered" /\ Phase' = "idle" /\ call'.ans = None
    BY <1>7, <1>a, <1>b, PhaseIs DEF Return, NoCall
  <2>2. offers' = Sel!NoOffers
    BY <1>7 DEF Return, Unset, Price, Sel!NoOffers
  <2> QED BY <2>1, <2>2 DEF Sel!Return
<1>8. ASSUME NEW n \in Nodes,
             GetStats(n) \/ DeadlinePasses(n) \/ ScoringFails(n) \/ SendError(n)
      PROVE  UNCHANGED Sel!svars
  <2>1. UNCHANGED <<kind, call, results>>
    BY <1>8 DEF GetStats, DeadlinePasses, ScoringFails, SendError
  <2> QED BY <1>c, <2>1 DEF Sel!svars, Phase
<1>9. ASSUME NEW n \in Nodes, ScoreNode(n)
      PROVE  Sel!Gather
  <2>1. call.pc = "wait" /\ results[n] = None /\ UNCHANGED <<kind, call>>
    BY <1>9 DEF ScoreNode, SInv, GoroutineStages
  <2>2. Phase = "open" /\ Phase' = "open"
    BY <1>a, <1>b, <2>1, PhaseIs
  <2>3. \A m \in Nodes : m # n => results'[m] = results[m]
    BY <1>9 DEF ScoreNode, SInv, Values
  <2>4. \A m \in Sel!Offered : m \in Nodes /\ m # n
    BY <2>1 DEF Sel!Offered, Price
  <2>5. \A m \in Sel!Offered : offers'[m] = offers[m]
    BY <2>1, <2>3, <2>4 DEF Price
  <2> QED BY <2>1, <2>2, <2>5 DEF Sel!Gather
<1>10. ASSUME UNCHANGED vars
       PROVE  UNCHANGED Sel!svars
  BY <1>10, <1>c DEF vars, Sel!svars, Phase
<1> QED BY <1>1, <1>2, <1>3, <1>4, <1>5, <1>6, <1>7, <1>8, <1>9, <1>10
        DEF Next, CallStep, GoroutineStep, Sel!Next

(* Both schedulers keep what Selection promises the manager, for any       *)
(* number of workers and however the goroutines interleave: the answer is  *)
(* the cheapest worker that was scored, and nobody only if none was.       *)
THEOREM SchedulerImplementsSelection == Spec => ImplementsSelection
  BY InitIsInit, StepIsStep, InvHolds, PTL DEF Spec, ImplementsSelection, Sel!Spec
=============================================================================
