---------------------------- MODULE DispatchStore ----------------------------
(***************************************************************************)
(* The dispatch directory of a workbench's state root: one JSON file per   *)
(* intent, per attempt, per attempt output and per claim, shared by every  *)
(* runner and every operator command, which are separate OS processes with *)
(* no lock but the claim files themselves.                                 *)
(*                                                                         *)
(* A file that does not exist is a record with status "absent".  A file    *)
(* made by writeNewJsonFile exists, empty, from open(file, "wx") until its *)
(* content is written: it is "torn", and no reader can parse it.  Files    *)
(* made by writeJsonFileAtomic appear, or are replaced, in one step.       *)
(***************************************************************************)
EXTENDS Integers, FiniteSets

CONSTANTS
  Intents,         \* the ids (paths) intents may have
  NoId,            \* no intent id
  Runners,         \* processes in runDueDispatchRuns
  Operators,       \* processes in the create/cancel/retry/prune commands
  Commands,        \* the commands operators give
  LeaseMs,         \* length of a lease, in clock units
  Retention,       \* olderThanDays of a prune, in clock units
  RunLimit,        \* the limit option of runDueDispatchRuns
  ListLimit,       \* how many intents listDispatchRunIntents returns
  DependencyParams, \* the dependsOn lists a create may be given
  RunAtParams      \* the explicit runAt times a create may be given

CONSTANTS          \* bounds of the checked instances
  MaxClock,        \* the clock stops here
  MaxAttempts,     \* attempts that may be started
  MaxCrashes       \* processes that may die

VARIABLES
  clock,           \* new Date() everywhere
  crashes,         \* processes that have died so far
  intents,         \* dispatch/intents/<id>.json
  attempts,        \* dispatch/attempts/<id>.json
  outputs,         \* the attempts that have a dispatch/outputs/<id>.json
  claims           \* dispatch/claims/<intent id>.json

(***************************************************************************)
(* The processes, whose steps are in DispatchRunner and DispatchOperator.  *)
(***************************************************************************)
VARIABLES
  runner,          \* the local state of each runner
  operator,        \* the local state of each operator command
  nextAttempt      \* attempt ids are random: a fresh one is the next number

(***************************************************************************)
(* History, read by no action: the attempts whose target was started for   *)
(* each intent; the intents whose claim was ever removed as expired or by  *)
(* a prune, not by the end of the run that made it; and the statuses the   *)
(* file of each intent has had.                                            *)
(***************************************************************************)
VARIABLES started, takenOver, reached

envVars == <<clock, crashes>>
intentVars == <<intents, reached>>
storeVars == <<envVars, intentVars, attempts, outputs, claims>>
vars == <<storeVars, runner, operator, nextAttempt, started, takenOver>>

Clock == 0 .. MaxClock
AttemptIds == 1 .. MaxAttempts
NoAttempt == 0

TargetOutcomes == {"completed", "failed"}
TerminalStatuses == TargetOutcomes \cup {"canceled"}
IntentStatuses == TerminalStatuses \cup {"pending", "running"}

(***************************************************************************)
(* dependsOn entries.  A status left out in the code means "completed".    *)
(***************************************************************************)
Dependency == [intent : Intents, status : TerminalStatuses \cup {"terminal"}]

ASSUME DispatchConstants ==
  /\ LeaseMs \in Nat /\ Retention \in Nat 
  /\ RunLimit \in Nat \ {0} /\ ListLimit \in Nat \ {0}
  /\ MaxClock \in Nat /\ MaxAttempts \in Nat /\ MaxCrashes \in Nat
  /\ Commands \subseteq {"create", "cancel", "retry", "prune"}
  /\ IsFiniteSet(Intents) /\ NoId \notin Intents
  /\ DependencyParams \subseteq SUBSET Dependency
  /\ RunAtParams \subseteq Clock

(***************************************************************************)
(* The fields of an intent the protocol reads.  Its lease is reduced to    *)
(* its expiry; the field is meaningful while the status is "running".      *)
(***************************************************************************)
Intent == [
  status : IntentStatuses \cup {"absent", "torn"},
  runAt : Clock,
  updatedAt : Clock,
  leaseExpiresAt : 0 .. MaxClock + LeaseMs,
  dependsOn : SUBSET Dependency,
  attemptIds : SUBSET AttemptIds]

(* An attempt file, reduced to its status. *)
AttemptStatuses == TargetOutcomes \cup {"absent", "running"}

(***************************************************************************)
(* A claim file names the attempt it was written for.  Which handle an     *)
(* empty file belongs to is known by that attempt as well: a writer whose  *)
(* file was unlinked writes to the unlinked file.                          *)
(***************************************************************************)
Claim == [
  status : {"absent", "torn", "written"},
  attempt : AttemptIds \cup {NoAttempt},
  leaseExpiresAt : 0 .. MaxClock + LeaseMs]

NoIntent == [status |-> "absent", runAt |-> 0, updatedAt |-> 0,
             leaseExpiresAt |-> 0, dependsOn |-> {}, attemptIds |-> {}]
TornIntent == [NoIntent EXCEPT !.status = "torn"]
NoClaim == [status |-> "absent", attempt |-> NoAttempt, leaseExpiresAt |-> 0]

StoreTypeOK ==
  /\ clock \in Clock
  /\ crashes \in 0 .. MaxCrashes
  /\ intents \in [Intents -> Intent]
  /\ attempts \in [AttemptIds -> AttemptStatuses]
  /\ outputs \subseteq AttemptIds
  /\ claims \in [Intents -> Claim]
  /\ nextAttempt \in 1 .. MaxAttempts + 1
  /\ started \in [Intents -> SUBSET AttemptIds]
  /\ takenOver \subseteq Intents
  /\ reached \in [Intents -> SUBSET (IntentStatuses \cup {"absent", "torn"})]

InitStore ==
  /\ clock = 0
  /\ crashes = 0
  /\ intents = [i \in Intents |-> NoIntent]
  /\ attempts = [a \in AttemptIds |-> "absent"]
  /\ outputs = {}
  /\ claims = [i \in Intents |-> NoClaim]
  /\ nextAttempt = 1
  /\ started = [i \in Intents |-> {}]
  /\ takenOver = {}
  /\ reached = [i \in Intents |-> {}]

----------------------------------------------------------------------------
(* A reader that meets a missing or torn file throws.                      *)
Readable(intent) == intent.status \in IntentStatuses

isTerminalDispatchRunStatus(status) == status \in TerminalStatuses

(* Mutant of areDispatchRunDependenciesSatisfied: the end of a dependency  *)
(* is enough, however it ended.                                            *)
DependenciesEnded(dependsOn) ==
  \A d \in dependsOn : isTerminalDispatchRunStatus(intents[d.intent].status)

(* The dependency files are read one by one in the code; the instances     *)
(* give an intent at most one dependency, so one step is exact.            *)
areDispatchRunDependenciesSatisfied(dependsOn) ==
  \A d \in dependsOn :
    IF d.status = "terminal"
    THEN isTerminalDispatchRunStatus(intents[d.intent].status)
    ELSE intents[d.intent].status = d.status

(* The lease of a running intent is all that is asked for a second run:    *)
(* its dependencies are not looked at again.                               *)
isDispatchIntentDue(intent, now) ==
  \/ /\ intent.status = "pending"
     /\ intent.runAt <= now
     /\ areDispatchRunDependenciesSatisfied(intent.dependsOn)
  \/ /\ intent.status = "running"
     /\ intent.leaseExpiresAt <= now

(***************************************************************************)
(* `first` is what is left of the ids `all`, in list order, after a cut    *)
(* at `limit`: the smallest runAt first, ties in any order.                *)
(***************************************************************************)
FirstByRunAt(all, limit, first) ==
  /\ first \subseteq all
  /\ Cardinality(first) = limit \/ (first = all /\ Cardinality(all) <= limit)
  /\ \A i \in first, j \in all \ first : intents[i].runAt <= intents[j].runAt

(* Terminal history is listed too, before newer work, and counts.          *)
listDispatchRunIntents(listed) ==
  FirstByRunAt({i \in Intents : Readable(intents[i])}, ListLimit, listed)

(* The file of intent i comes to hold the record `intent`.                 *)
PutIntent(i, intent) ==
  /\ intents' = [intents EXCEPT ![i] = intent]
  /\ reached' = [reached EXCEPT ![i] = @ \cup {intent.status}]

(* releaseDispatchRunClaim: rm with force, whoever wrote the file.         *)
releaseDispatchRunClaim(i) == claims' = [claims EXCEPT ![i] = NoClaim]

TimePasses ==
  /\ clock < MaxClock
  /\ clock' = clock + 1
  /\ UNCHANGED <<crashes, intentVars, attempts, outputs, claims>>
  /\ UNCHANGED <<runner, operator, nextAttempt, started, takenOver>>

(* A process dies, or a file operation of it fails, while the bounded      *)
(* clock leaves the lease it may hold the time to expire.                  *)
Fault ==
  /\ crashes < MaxCrashes
  /\ clock + LeaseMs <= MaxClock
  /\ crashes' = crashes + 1
  /\ UNCHANGED <<clock, intentVars, attempts, outputs, claims>>

=============================================================================
