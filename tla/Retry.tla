------------------------------- MODULE Retry -------------------------------
(***************************************************************************)
(* httpapi.HTTPWithRetry: attempts and the waits between them, under the   *)
(* one deadline of the context its caller made. Several callers use it at  *)
(* the same time, each with a context of its own. Clocks are left out: the *)
(* deadline may pass at any moment, and it does pass in the end.           *)
(***************************************************************************)
EXTENDS Naturals

CONSTANTS Callers, RetryLimit

VARIABLE att   \* the locals of each caller's loop

Call == [pc : {"idle", "attempt", "wait", "ok", "failed"},
         tries : 0..RetryLimit, expired : BOOLEAN]

NoCall == [pc |-> "idle", tries |-> 0, expired |-> FALSE]
FirstAttempt == [pc |-> "attempt", tries |-> 1, expired |-> FALSE]

At(n, pc) == [att EXCEPT ![n].pc = pc]

(* fn returns a response, of whatever status: only a transport error is    *)
(* retried. Under an expired context there is none.                        *)
AttemptAnswered(n) ==
  /\ att[n].pc = "attempt"
  /\ ~ att[n].expired
  /\ att' = At(n, "ok")

AttemptFails_OneShort(n) ==
  /\ att[n].pc = "attempt"
  /\ att' = At(n, IF att[n].expired \/ att[n].tries >= RetryLimit - 1
                  THEN "failed" ELSE "wait")

(* fn returns an error: the loop gives up if the context is done or the    *)
(* attempts are used up, and waits otherwise.                              *)
AttemptFails(n) ==
  /\ att[n].pc = "attempt"
  /\ att' = At(n, IF att[n].expired \/ att[n].tries = RetryLimit
                  THEN "failed" ELSE "wait")

(* time.After. When the deadline has passed as well, select picks either.  *)
WaitOver(n) ==
  /\ att[n].pc = "wait"
  /\ att' = [att EXCEPT ![n].pc = "attempt", ![n].tries = @ + 1]

WaitCancelled(n) ==
  /\ att[n].pc = "wait"
  /\ att[n].expired
  /\ att' = At(n, "failed")

Expire_WaitsOnly(n) ==
  /\ att[n].pc = "wait"
  /\ ~ att[n].expired
  /\ att' = [att EXCEPT ![n].expired = TRUE]

(* The deadline covers the attempts, the waits and the reading of the body.*)
Expire(n) ==
  /\ att[n].pc \in {"attempt", "wait", "ok"}
  /\ ~ att[n].expired
  /\ att' = [att EXCEPT ![n].expired = TRUE]

(* The reasons to give up.                                                 *)
Spent(n) == att[n].expired \/ att[n].tries = RetryLimit
=============================================================================
