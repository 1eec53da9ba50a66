----------------------------- MODULE MCCluster -----------------------------
(* Small instances of Cluster for TLC.                                     *)
EXTENDS Cluster, TLC

Symmetry == Permutations(Workers) \cup Permutations(Cids)

(* In Cluster a poll returns what the worker holds; the open choice of     *)
(* Manager is not used.                                                    *)
NoReplies == {}

(* Ids that Docker has not given out are interchangeable, and TLC cannot   *)
(* use symmetry where liveness is checked: of the behaviours that differ   *)
(* by a permutation of the ids, the one that takes them in order.          *)
NumberedCids == 1..4

IdsInOrder ==
  \A c, d \in Cids :
    c < d /\ docker[d].st # "unused" => docker[c].st # "unused"
=============================================================================
