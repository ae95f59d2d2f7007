------------------------- MODULE MCDispatchScenarios -------------------------
(* Two instances of DispatchRuns in one run of TLC: two dependent intents   *)
(* that are created and retried, and one intent that is created and pruned, *)
(* over a longer time.                                                      *)
EXTENDS MCDispatchRuns

DependentIntents ==
  /\ clock <= 1
  /\ \A o \in Operators : operator[o].pc \in {"idle", "write", "cancel"}

PrunedIntent ==
  /\ intents[i2].status = "absent"
  /\ intents[i1].dependsOn = {}
  /\ \A o \in Operators : operator[o].snap.dependsOn = {}

Scenarios == DependentIntents \/ PrunedIntent
=============================================================================
