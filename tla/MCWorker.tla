------------------------------ MODULE MCWorker ------------------------------
(* Small instances of Worker for TLC.                                      *)
EXTENDS Worker

(* What a manager sends: dispatches and restarts are Scheduled; Completed  *)
(* and Failed stand for task files submitted in a state of their own.      *)
SentStates == {Scheduled, Completed, Failed}
=============================================================================
