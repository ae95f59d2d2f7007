--------------------------- MODULE MCFeedScenarios ---------------------------
(***************************************************************************)
(* Two instances of Feed in one run of TLC: deliveries with one poll, an   *)
(* append and no prune, of which at most one collects with advance beside  *)
(* a dispatch, and the intake of two polls beside a prune, of which        *)
(* nothing is delivered.                                                   *)
(***************************************************************************)
EXTENDS MCFeed

CONSTANTS p1, p2

DeliveryOfOnePoll ==
  /\ Range(published) \subseteq {3}
  /\ poller[p2] = IdlePoller
  /\ \E c \in Consumers : ~consumer[c].advance
  /\ pruned = {} /\ \A p \in Pruners : pruner[p] = IdlePruner

IntakeAlone ==
  /\ published = <<>> \/ 2 \in Range(published)
  /\ \A c \in Consumers : consumer[c] = IdleConsumer
  /\ \A i \in AppendItems : items[i] = NoFile
  /\ \A i \in ItemIds : delivered[i] = 0
  /\ cursor = NoPlace

Scenarios == DeliveryOfOnePoll \/ IntakeAlone
=============================================================================
