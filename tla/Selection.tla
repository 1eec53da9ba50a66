----------------------------- MODULE Selection -----------------------------
(***************************************************************************)
(* What the manager relies on when it calls SelectWorker: while the call   *)
(* is open workers make offers, each one price, and the call is answered   *)
(* once: with the cheapest offer (the earliest of equals), or with nobody  *)
(* if there was no offer. How offers are found, and what becomes of        *)
(* workers that cannot be asked, is left to the scheduler.                 *)
(***************************************************************************)
EXTENDS Integers

CONSTANTS Nodes, None

VARIABLES
  phase,   \* "idle", "open" or "answered"
  offers,  \* the price each worker asks, None if it made no offer
  answer   \* the worker the call returned, or None

svars == <<phase, offers, answer>>

NoOffers == [n \in Nodes |-> None]
Offered == {n \in Nodes : offers[n] # None}
Best(n) ==
  /\ n \in Offered
  /\ \A m \in Offered : offers[n] <= offers[m]
  /\ \A m \in Offered : m < n => offers[n] < offers[m]

Init == phase = "idle" /\ offers = NoOffers /\ answer = None

Open ==
  /\ phase = "idle" /\ phase' = "open"
  /\ UNCHANGED <<offers, answer>>

(* An offer is made while the call is open, and is not taken back.         *)
Gather ==
  /\ phase = "open" /\ phase' = "open"
  /\ \A n \in Offered : offers'[n] = offers[n]
  /\ UNCHANGED answer

Answer ==
  /\ phase = "open" /\ phase' = "answered"
  /\ IF Offered = {} THEN answer' = None ELSE Best(answer')
  /\ UNCHANGED offers

Return ==
  /\ phase = "answered" /\ phase' = "idle"
  /\ offers' = NoOffers /\ answer' = None

Next == Open \/ Gather \/ Answer \/ Return

Spec == Init /\ [][Next]_svars

(* Every call is answered.                                                 *)
Answered == phase = "open" ~> phase = "answered"
=============================================================================
