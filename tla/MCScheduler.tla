---------------------------- MODULE MCScheduler ----------------------------
(* Small instances of Scheduler for TLC.                                   *)
EXTENDS Scheduler

(* LIEB to the power of a load counted in quarters, in thousandths.        *)
LiebPowers == <<1000, 1114, 1241, 1382, 1540, 1715, 1910, 2128, 2370>>
LiebPower(x) == LiebPowers[x + 1]

(* An idle machine, an idle one whose CPU cannot be read, a half-sized     *)
(* loaded one, and one whose memory cannot be read.                        *)
SmallReadings ==
  { [mem |-> [used |-> 1, total |-> 4], cpu |-> 0, tasks |-> 0],
    [mem |-> [used |-> 1, total |-> 4], cpu |-> None, tasks |-> 0],
    [mem |-> [used |-> 1, total |-> 2], cpu |-> 3, tasks |-> 1],
    [mem |-> None, cpu |-> 0, tasks |-> 0] }
=============================================================================
