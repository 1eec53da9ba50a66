---------------------------- MODULE MCLifecycle ----------------------------
(* Small instances of Lifecycle for TLC.                                   *)
EXTENDS Lifecycle

(* Dispatches and restarts; stops arrive through the stop handler.         *)
SentStates == {Scheduled}
=============================================================================
