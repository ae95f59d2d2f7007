----------------------------- MODULE DispatchRuns -----------------------------
(***************************************************************************)
(* The dispatch queue of a workbench: runners and operator commands that   *)
(* share one dispatch directory.                                           *)
(***************************************************************************)
EXTENDS DispatchRunner, DispatchOperator

Init ==
  /\ InitStore
  /\ InitRunner
  /\ InitOperator

Next ==
  \/ \E r \in Runners : StartRun(r) \/ RunnerStep(r) \/ TryFails(r) \/ Crash(r)
  \/ \E o \in Operators : OperatorStart(o) \/ OperatorStep(o) \/ OperatorCrash(o)
  \/ TimePasses

Spec == Init /\ [][Next]_vars

TypeOK ==
  /\ StoreTypeOK
  /\ RunnerTypeOK
  /\ OperatorTypeOK

----------------------------------------------------------------------------
(***************************************************************************)
(* Two runners work on the same intent at once only if its claim was taken *)
(* away before, as expired or by a prune: open with "wx" is exclusive, and *)
(* the stale snapshots the claims are made from do not break it.           *)
(***************************************************************************)
Working(r, i) == runner[r].pc \in ClaimedSteps /\ runner[r].cur = i

ClaimExclusion ==
  \A i \in Intents \ takenOver : \A r, s \in Runners :
    Working(r, i) /\ Working(s, i) => r = s

(***************************************************************************)
(* A target starts only after each dependency of its intent has had the    *)
(* demanded status, however often claims were taken over and intents       *)
(* rewritten on the way.                                                   *)
(***************************************************************************)
WasReached(d) ==
  IF d.status = "terminal"
  THEN reached[d.intent] \cap TerminalStatuses # {}
  ELSE d.status \in reached[d.intent]

DependenciesReached ==
  \A r \in Runners :
    runner[r].pc \in ClaimedSteps => \A d \in runner[r].snap.dependsOn : WasReached(d)

(***************************************************************************)
(* The result of a finished intent is on disk while it is within the       *)
(* retention window: the attempt it names has the same outcome, and its    *)
(* output exists.  Late writers and prunes of older results run meanwhile. *)
(***************************************************************************)
HasEvidence(i) ==
  \E a \in AttemptIds :
    /\ intents[i].attemptIds = {a}
    /\ attempts[a] = intents[i].status
    /\ a \in outputs
    /\ a \in started[i]

RecentResultHasEvidence ==
  \A i \in Intents :
    intents[i].status \in TargetOutcomes /\ intents[i].updatedAt >= clock - Retention
      => HasEvidence(i)

(***************************************************************************)
(* No intent is put back to pending, and one that had a status disappears  *)
(* only by a prune of it: no writer of an old snapshot can requeue work.   *)
(***************************************************************************)
NeverRequeued ==
  [][\A i \in Intents :
       Readable(intents[i]) /\ intents'[i] # intents[i] =>
         \/ intents'[i].status \notin {"pending", "torn", "absent"}
         \/ \E o \in Operators : operator[o].pc = "pruneIntent" /\ operator[o].cur = i]_vars

(***************************************************************************)
(* Once an intent is terminal and no process is left that read it before   *)
(* it was, it is final: its target is not started again and its record     *)
(* stays, until it is pruned.                                              *)
(***************************************************************************)
Quiet(i) ==
  /\ isTerminalDispatchRunStatus(intents[i].status)
  /\ \A r \in Runners :
       runner[r].cur = i =>
         \/ runner[r].pc = "read"
         \/ runner[r].pc = "check" /\ isTerminalDispatchRunStatus(runner[r].snap.status)
  /\ \A o \in Operators : operator[o].cur = i => operator[o].pc \notin {"cancel", "write"}

FinalOnceQuiet ==
  [][\A i \in Intents :
       Quiet(i) =>
         \/ intents'[i].status = "absent"
         \/ /\ intents'[i] = intents[i]
            /\ started'[i] = started[i]
            /\ Quiet(i)']_vars

----------------------------------------------------------------------------
(***************************************************************************)
(* A scheduler starts run-due again and again, processes that do not die   *)
(* go on, and time passes.  Nothing makes an operator give a command or a  *)
(* process die.                                                            *)
(***************************************************************************)
Fairness ==
  /\ \A r \in Runners : WF_vars(StartRun(r) \/ RunnerStep(r))
  /\ \A o \in Operators : WF_vars(OperatorStep(o))
  /\ WF_vars(TimePasses)

FairSpec == Spec /\ Fairness

IsDue(i) == isDispatchIntentDue(intents[i], clock)
Settled(i) == isTerminalDispatchRunStatus(intents[i].status)

(* Nobody will ever write the empty claim file of i.                       *)
TornForGood(i) ==
  /\ claims[i].status = "torn"
  /\ \A r \in Runners :
       ~(runner[r].pc = "writeClaim" /\ runner[r].attempt = claims[i].attempt)

(***************************************************************************)
(* A due intent is carried to a terminal status in spite of runners that   *)
(* die or fail on the way and of claims left behind, with the exception of *)
(* a claim whose writer died between creating and writing it.              *)
(***************************************************************************)
DueSettlesUnlessTorn == \A i \in Intents : IsDue(i) ~> Settled(i) \/ TornForGood(i)

----------------------------------------------------------------------------
(* What documentation, tests and messages of the repository say, and the   *)
(* code does not do.                                                       *)

(* docs/pages/primitives/dispatch-queues.md: "One-shot intents run at most *)
(* once."                                                                  *)
RunsAtMostOnce == \A i \in Intents : Cardinality(started[i]) <= 1

(* workbench-autonomy.test.ts: "claims due dispatch intents once across    *)
(* overlapping runners": two runners, both within the lease they took, do  *)
(* not execute the same intent at once.                                    *)
WithinLease(r) == clock < runner[r].now + LeaseMs

ClaimedOnceAcrossRunners ==
  \A r, s \in Runners :
    /\ runner[r].pc = "execute" /\ runner[s].pc = "execute"
    /\ runner[r].cur = runner[s].cur
    /\ WithinLease(r) /\ WithinLease(s)
    => r = s

=============================================================================
