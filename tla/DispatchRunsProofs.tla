-------------------------- MODULE DispatchRunsProofs --------------------------
(***************************************************************************)
(* Proofs about DispatchRuns, for every set of intents, runners and        *)
(* operators, every lease, retention and limit, and every bound.           *)
(***************************************************************************)
EXTENDS DispatchRuns, TLAPS

(***************************************************************************)
(* The null records and the changes the actions make to a record are       *)
(* records of the declared types.                                          *)
(***************************************************************************)
LEMMA NullTypes ==
  /\ NoIntent \in Intent /\ TornIntent \in Intent
  /\ NoClaim \in Claim
  /\ IdleRunner \in RunnerState
  /\ IdleOperator \in OperatorState
  BY DispatchConstants
  DEF NoIntent, TornIntent, Intent, NoClaim, Claim, NoAttempt, IdleRunner, RunnerState,
      RunnerSteps, IdleOperator, OperatorState, OperatorSteps, Clock, TargetOutcomes,
      IntentStatuses

LEMMA InitType == Init => TypeOK
  <1> SUFFICES ASSUME Init PROVE TypeOK
    OBVIOUS
  <1>1. StoreTypeOK
    BY NullTypes, DispatchConstants
    DEF Init, InitStore, StoreTypeOK, Clock, AttemptStatuses, AttemptIds
  <1>2. RunnerTypeOK
    BY NullTypes DEF Init, InitRunner, RunnerTypeOK, IdleRunner, ClaimedSteps, TrySteps
  <1>3. OperatorTypeOK
    BY NullTypes DEF Init, InitOperator, OperatorTypeOK, IdleOperator
  <1> QED BY <1>1, <1>2, <1>3 DEF TypeOK

(* Moving a runner to a well-formed local state keeps the processes typed. *)
LEMMA StepType ==
  ASSUME TypeOK, NEW r \in Runners, NEW from, NEW to \in RunnerState, Step(r, from, to),
         to.pc \notin {"idle", "next"} => to.cur \in Intents,
         to.pc \in ClaimedSteps => to.attempt \in AttemptIds
  PROVE  RunnerTypeOK' /\ OperatorTypeOK'
  <1>1. RunnerTypeOK'
    BY DEF TypeOK, RunnerTypeOK, Step
  <1>2. OperatorTypeOK'
    BY DEF TypeOK, OperatorTypeOK, Step
  <1> QED BY <1>1, <1>2

LEMMA ActType ==
  ASSUME TypeOK, NEW o \in Operators, NEW from, NEW to \in OperatorState, Act(o, from, to),
         to.pc \notin {"idle", "prune"} => to.cur \in Intents
  PROVE  RunnerTypeOK' /\ OperatorTypeOK'
  <1>1. RunnerTypeOK'
    BY DEF TypeOK, RunnerTypeOK, Act
  <1>2. OperatorTypeOK'
    BY DEF TypeOK, OperatorTypeOK, Act
  <1> QED BY <1>1, <1>2

(* Writing a well-formed intent keeps the two variables of intents typed.  *)
LEMMA PutIntentType ==
  ASSUME TypeOK, NEW i \in Intents, NEW x \in Intent, PutIntent(i, x)
  PROVE  /\ intents' \in [Intents -> Intent]
         /\ reached' \in [Intents -> SUBSET (IntentStatuses \cup {"absent", "torn"})]
  <1>1. x.status \in IntentStatuses \cup {"absent", "torn"}
    BY DEF Intent
  <1> QED BY <1>1 DEF TypeOK, StoreTypeOK, PutIntent

(* A local state that only moves to another step keeps its type.           *)
LEMMA GotoType ==
  ASSUME TypeOK, NEW r \in Runners, NEW to \in RunnerSteps
  PROVE  /\ Goto(r, to) \in RunnerState
         /\ Goto(r, to).pc = to
         /\ Goto(r, to).cur = runner[r].cur
         /\ Goto(r, to).attempt = runner[r].attempt
         /\ Goto(r, to).snap = runner[r].snap
  BY DEF TypeOK, RunnerTypeOK, RunnerState, Goto

LEMMA LeaveType ==
  ASSUME TypeOK, NEW r \in Runners
  PROVE  Leave(r) \in RunnerState /\ Leave(r).pc = "next"
  <1>1. 0 \in Clock /\ "failed" \in TargetOutcomes /\ "next" \in RunnerSteps
    BY DispatchConstants DEF Clock, TargetOutcomes, RunnerSteps
  <1>2. runner[r] \in RunnerState
    BY DEF TypeOK, RunnerTypeOK
  <1> QED BY <1>1, <1>2, NullTypes DEF RunnerState, Leave

LEMMA StoreSame ==
  ASSUME TypeOK, UNCHANGED <<storeVars, nextAttempt, started, takenOver>>
  PROVE  StoreTypeOK'
  BY DEF TypeOK, StoreTypeOK, storeVars, envVars, intentVars

(* What is known of a runner that is not between two intents.              *)
LEMMA RunnerFields ==
  ASSUME TypeOK, NEW r \in Runners
  PROVE  /\ runner[r] \in RunnerState
         /\ runner[r].pc \notin {"idle", "next"} => runner[r].cur \in Intents
         /\ runner[r].pc \in ClaimedSteps => runner[r].attempt \in AttemptIds
         /\ runner[r].now \in Clock /\ runner[r].finishedAt \in Clock
         /\ runner[r].snap \in Intent /\ runner[r].outcome \in TargetOutcomes
         /\ runner[r].due \subseteq Due
         /\ runner[r].attempt \in AttemptIds \cup {NoAttempt}
  BY DEF TypeOK, RunnerTypeOK, RunnerState

LEMMA LeaseType ==
  ASSUME NEW t \in Clock
  PROVE  t + LeaseMs \in 0 .. MaxClock + LeaseMs
  BY DispatchConstants DEF Clock

(* The statuses of the steps a runner moves to.                            *)
LEMMA StepNames ==
  /\ RunnerSteps = {"idle", "next", "read", "check", "claim", "readClaim", "removeClaim",
                    "reclaim", "writeClaim", "markRunning", "writeAttempt", "execute",
                    "writeOutput", "finishAttempt", "finishIntent", "release"}
  /\ ClaimedSteps = {"writeClaim", "markRunning", "writeAttempt", "execute", "writeOutput",
                     "finishAttempt", "finishIntent", "release"}
  BY DEF RunnerSteps, ClaimSteps, ClaimedSteps, TrySteps

LEMMA ListType ==
  ASSUME TypeOK, NEW r \in Runners, StartRun(r)
  PROVE  TypeOK'
  <1>1. PICK batch \in SUBSET Intents :
          Step(r, "idle", [IdleRunner EXCEPT !.pc = "next", !.now = clock,
                 !.due = {[id |-> i, runAt |-> intents[i].runAt] : i \in batch}])
    BY DEF StartRun
  <1> DEFINE due == {[id |-> i, runAt |-> intents[i].runAt] : i \in batch}
             to == [IdleRunner EXCEPT !.pc = "next", !.now = clock, !.due = due]
  <1>2. due \subseteq Due
    BY DEF TypeOK, StoreTypeOK, Due, Intent
  <1>3. clock \in Clock
    BY DEF TypeOK, StoreTypeOK
  <1>4. to \in RunnerState /\ to.pc = "next"
    BY <1>2, <1>3, NullTypes, StepNames DEF RunnerState, IdleRunner
  <1>5. Step(r, "idle", to)
    BY <1>1
  <1> HIDE DEF to
  <1>6. RunnerTypeOK' /\ OperatorTypeOK'
    BY <1>4, <1>5, StepType, StepNames
  <1>7. StoreTypeOK'
    BY StoreSame DEF StartRun
  <1> QED BY <1>6, <1>7 DEF TypeOK

LEMMA QuietStepsType ==
  ASSUME TypeOK, NEW r \in Runners,
         \/ NextDue(r) \/ FinishRun(r) \/ ClaimRead(r) \/ ClaimCheckDue(r) \/ ClaimExists(r)
         \/ ReadClaim(r) \/ ReclaimLost(r) \/ FinishTarget(r)
  PROVE  TypeOK'
  <1> USE RunnerFields, StepNames
  <1>1. StoreTypeOK'
    BY StoreSame DEF NextDue, FinishRun, ClaimRead, ClaimCheckDue, ClaimExists, ReadClaim,
                     ReclaimLost, FinishTarget
  <1>2. RunnerTypeOK' /\ OperatorTypeOK'
    <2>1. CASE NextDue(r)
      <3>1. PICK d \in runner[r].due :
              Step(r, "next", [runner[r] EXCEPT !.pc = "read", !.cur = d.id, !.due = @ \ {d}])
        BY <2>1 DEF NextDue
      <3> DEFINE to == [runner[r] EXCEPT !.pc = "read", !.cur = d.id, !.due = @ \ {d}]
      <3>2. d.id \in Intents
        BY DEF Due
      <3>3. to \in RunnerState /\ to.pc = "read" /\ to.cur = d.id
        BY <3>2 DEF RunnerState
      <3>4. Step(r, "next", to)
        BY <3>1
      <3> HIDE DEF to
      <3> QED BY <3>2, <3>3, <3>4, StepType
    <2>2. CASE FinishRun(r)
      BY <2>2, NullTypes, StepType DEF FinishRun, IdleRunner
    <2>3. CASE ClaimRead(r)
      <3>1. Step(r, "read", IdleRunner) => RunnerTypeOK' /\ OperatorTypeOK'
        BY NullTypes, StepType DEF IdleRunner
      <3> DEFINE to == [runner[r] EXCEPT !.pc = "check", !.snap = intents[runner[r].cur]]
      <3>2. runner[r].cur \in Intents
        BY <2>3 DEF ClaimRead, Step
      <3>3. to \in RunnerState /\ to.pc = "check" /\ to.cur = runner[r].cur
        <4>1. runner[r] \in RunnerState /\ intents[runner[r].cur] \in Intent
          BY <3>2 DEF TypeOK, StoreTypeOK
        <4>2. "check" \in RunnerSteps
          OBVIOUS
        <4> QED BY ONLY <4>1, <4>2 DEF RunnerState
      <3>4. Step(r, "read", IdleRunner) \/ Step(r, "read", to)
        BY <2>3 DEF ClaimRead
      <3> HIDE DEF to
      <3> QED BY <3>1, <3>2, <3>3, <3>4, StepType
    <2>4. CASE ClaimCheckDue(r)
      <3>1. Step(r, "check", Goto(r, "claim")) \/ Step(r, "check", Leave(r))
        BY <2>4 DEF ClaimCheckDue
      <3>2. runner[r].cur \in Intents
        BY <3>1 DEF Step
      <3> QED BY <3>1, <3>2, GotoType, LeaveType, StepType
    <2>5. CASE ClaimExists(r)
      <3>1. Step(r, "claim", Goto(r, "readClaim"))
        BY <2>5 DEF ClaimExists
      <3>2. runner[r].cur \in Intents
        BY <3>1 DEF Step
      <3> QED BY <3>1, <3>2, GotoType, StepType
    <2>6. CASE ReadClaim(r)
      <3>1. Step(r, "readClaim", Goto(r, "removeClaim")) \/ Step(r, "readClaim", Leave(r))
        BY <2>6 DEF ReadClaim
      <3>2. runner[r].cur \in Intents
        BY <3>1 DEF Step
      <3> QED BY <3>1, <3>2, GotoType, LeaveType, StepType
    <2>7. CASE ReclaimLost(r)
      BY <2>7, LeaveType, StepType DEF ReclaimLost, Step
    <2>8. CASE FinishTarget(r)
      <3>1. PICK outcome \in TargetOutcomes :
              Step(r, "execute", [runner[r] EXCEPT !.pc = "writeOutput", !.outcome = outcome])
        BY <2>8 DEF FinishTarget
      <3> DEFINE to == [runner[r] EXCEPT !.pc = "writeOutput", !.outcome = outcome]
      <3>2. to \in RunnerState /\ to.cur = runner[r].cur /\ to.attempt = runner[r].attempt
        BY DEF RunnerState
      <3>3. Step(r, "execute", to)
        BY <3>1
      <3>4. runner[r].cur \in Intents /\ runner[r].attempt \in AttemptIds
        BY <3>1 DEF Step
      <3> HIDE DEF to
      <3> QED BY <3>2, <3>3, <3>4, StepType
    <2> QED BY <2>1, <2>2, <2>3, <2>4, <2>5, <2>6, <2>7, <2>8
  <1> QED BY <1>1, <1>2 DEF TypeOK

LEMMA ClaimStepsType ==
  ASSUME TypeOK, NEW r \in Runners,
         OpenClaim(r) \/ ReopenClaim(r) \/ RemoveExpiredClaim(r) \/ WriteClaim(r) \/ ReleaseClaim(r)
  PROVE  TypeOK'
  <1> USE RunnerFields, StepNames
  <1> DEFINE i == runner[r].cur
             a == runner[r].attempt
  <1>1. ASSUME NEW from, CreateClaimFile(r, from), from \in {"claim", "reclaim"}
        PROVE  TypeOK'
    <2> DEFINE to == [runner[r] EXCEPT !.pc = "writeClaim", !.attempt = nextAttempt]
               file == [NoClaim EXCEPT !.status = "torn", !.attempt = nextAttempt]
    <2>1. nextAttempt \in AttemptIds /\ nextAttempt + 1 \in 1 .. MaxAttempts + 1
      BY <1>1, DispatchConstants DEF CreateClaimFile, AttemptIds
    <2>2. Step(r, from, to) /\ i \in Intents
      BY <1>1 DEF CreateClaimFile, Step
    <2>3. to \in RunnerState /\ to.cur = i /\ to.attempt = nextAttempt
      BY <2>1 DEF RunnerState
    <2>4. file \in Claim
      BY <2>1, NullTypes DEF Claim, NoClaim
    <2>5. StoreTypeOK'
      BY <1>1, <2>1, <2>2, <2>4 DEF CreateClaimFile, TypeOK, StoreTypeOK, envVars, intentVars
    <2> HIDE DEF to
    <2>6. RunnerTypeOK' /\ OperatorTypeOK'
      BY <2>1, <2>2, <2>3, StepType
    <2> QED BY <2>5, <2>6 DEF TypeOK
  <1>2. CASE OpenClaim(r)
    BY <1>1, <1>2 DEF OpenClaim
  <1>3. CASE ReopenClaim(r)
    BY <1>1, <1>3 DEF ReopenClaim
  <1>4. CASE RemoveExpiredClaim(r)
    <2>1. Step(r, "removeClaim", Goto(r, "reclaim")) /\ i \in Intents
      BY <1>4 DEF RemoveExpiredClaim, Step
    <2>2. StoreTypeOK'
      BY <1>4, <2>1, NullTypes
      DEF RemoveExpiredClaim, releaseDispatchRunClaim, TypeOK, StoreTypeOK, envVars, intentVars
    <2> QED BY <2>1, <2>2, GotoType, StepType DEF TypeOK
  <1>5. CASE WriteClaim(r)
    <2> DEFINE file == [status |-> "written", attempt |-> a,
                        leaseExpiresAt |-> runner[r].now + LeaseMs]
    <2>1. Step(r, "writeClaim", Goto(r, "markRunning")) /\ i \in Intents /\ a \in AttemptIds
      BY <1>5 DEF WriteClaim, Step
    <2>2. file \in Claim
      BY <2>1, LeaseType DEF Claim
    <2>3. claims' = claims \/ claims' = [claims EXCEPT ![i] = file]
      BY <1>5 DEF WriteClaim
    <2> HIDE DEF file
    <2>4. StoreTypeOK'
      BY <1>5, <2>1, <2>2, <2>3 DEF WriteClaim, TypeOK, StoreTypeOK, envVars, intentVars
    <2> QED BY <2>1, <2>4, GotoType, StepType DEF TypeOK
  <1>6. CASE ReleaseClaim(r)
    <2>1. Step(r, "release", Leave(r)) /\ i \in Intents
      BY <1>6 DEF ReleaseClaim, Step
    <2>2. StoreTypeOK'
      BY <1>6, <2>1, NullTypes
      DEF ReleaseClaim, releaseDispatchRunClaim, TypeOK, StoreTypeOK, envVars, intentVars
    <2> QED BY <2>1, <2>2, LeaveType, StepType DEF TypeOK
  <1> QED BY <1>2, <1>3, <1>4, <1>5, <1>6

LEMMA FileStepsType ==
  ASSUME TypeOK, NEW r \in Runners,
         MarkRunning(r) \/ WriteAttempt(r) \/ WriteOutput(r) \/ FinishAttempt(r) \/ FinishIntent(r)
  PROVE  TypeOK'
  <1> USE RunnerFields, StepNames
  <1> DEFINE i == runner[r].cur
             a == runner[r].attempt
  <1>1. CASE MarkRunning(r)
    <2> DEFINE running == [runner[r].snap EXCEPT !.status = "running", !.updatedAt = runner[r].now,
                                                 !.leaseExpiresAt = runner[r].now + LeaseMs]
               to == [runner[r] EXCEPT !.pc = "writeAttempt", !.snap = running]
    <2>1. running \in Intent
      BY LeaseType DEF Intent, IntentStatuses
    <2>2. Step(r, "markRunning", to) /\ PutIntent(i, running)
      BY <1>1 DEF MarkRunning
    <2>3. i \in Intents /\ a \in AttemptIds
      BY <2>2 DEF Step
    <2> HIDE DEF running
    <2>4. to \in RunnerState /\ to.cur = i /\ to.attempt = a
      BY <2>1 DEF RunnerState
    <2> HIDE DEF to
    <2>5. RunnerTypeOK' /\ OperatorTypeOK'
      BY <2>2, <2>3, <2>4, StepType
    <2>6. StoreTypeOK'
      BY <1>1, <2>1, <2>2, <2>3, PutIntentType DEF MarkRunning, TypeOK, StoreTypeOK, envVars
    <2> QED BY <2>5, <2>6 DEF TypeOK
  <1>2. CASE WriteAttempt(r)
    <2>1. Step(r, "writeAttempt", Goto(r, "execute")) /\ i \in Intents /\ a \in AttemptIds
      BY <1>2 DEF WriteAttempt, Step
    <2>2. StoreTypeOK'
      BY <1>2, <2>1
      DEF WriteAttempt, TypeOK, StoreTypeOK, envVars, intentVars, AttemptStatuses
    <2> QED BY <2>1, <2>2, GotoType, StepType DEF TypeOK
  <1>3. CASE WriteOutput(r)
    <2> DEFINE to == [runner[r] EXCEPT !.pc = "finishAttempt", !.finishedAt = clock]
    <2>1. Step(r, "writeOutput", to) /\ i \in Intents /\ a \in AttemptIds
      BY <1>3 DEF WriteOutput, Step
    <2>2. to \in RunnerState /\ to.cur = i /\ to.attempt = a
      <3>1. runner[r] \in RunnerState /\ clock \in Clock /\ "finishAttempt" \in RunnerSteps
        BY DEF TypeOK, StoreTypeOK
      <3> QED BY ONLY <3>1 DEF RunnerState
    <2>3. StoreTypeOK'
      BY <1>3, <2>1 DEF WriteOutput, TypeOK, StoreTypeOK, envVars, intentVars
    <2> HIDE DEF to
    <2> QED BY <2>1, <2>2, <2>3, StepType DEF TypeOK
  <1>4. CASE FinishAttempt(r)
    <2>1. Step(r, "finishAttempt", Goto(r, "finishIntent")) /\ i \in Intents /\ a \in AttemptIds
      BY <1>4 DEF FinishAttempt, Step
    <2>2. StoreTypeOK'
      BY <1>4, <2>1
      DEF FinishAttempt, TypeOK, StoreTypeOK, envVars, intentVars, AttemptStatuses
    <2> QED BY <2>1, <2>2, GotoType, StepType DEF TypeOK
  <1>5. CASE FinishIntent(r)
    <2>1. Step(r, "finishIntent", Goto(r, "release")) /\ i \in Intents /\ a \in AttemptIds
      BY <1>5 DEF FinishIntent, Step
    <2>2. FinishedIntent(r) \in Intent
      <3>1. 0 \in 0 .. MaxClock + LeaseMs
        BY DispatchConstants
      <3>2. runner[r].outcome \in IntentStatuses
        BY DEF IntentStatuses, TerminalStatuses
      <3>3. runner[r].snap.attemptIds \cup {a} \in SUBSET AttemptIds
        BY <2>1 DEF Intent
      <3> QED BY <3>1, <3>2, <3>3 DEF FinishedIntent, Intent
    <2>3. StoreTypeOK'
      BY <1>5, <2>1, <2>2, PutIntentType DEF FinishIntent, TypeOK, StoreTypeOK, envVars
    <2> QED BY <2>1, <2>3, GotoType, StepType DEF TypeOK
  <1> QED BY <1>1, <1>2, <1>3, <1>4, <1>5

LEMMA FaultType ==
  ASSUME TypeOK, Fault, UNCHANGED <<nextAttempt, started, takenOver>>
  PROVE  StoreTypeOK'
  BY DispatchConstants DEF TypeOK, StoreTypeOK, Fault, intentVars

LEMMA RunnerFaultsType ==
  ASSUME TypeOK, NEW r \in Runners, TryFails(r) \/ Crash(r)
  PROVE  TypeOK'
  <1> USE RunnerFields, StepNames
  <1>1. StoreTypeOK'
    BY FaultType DEF TryFails, Crash
  <1>2. CASE TryFails(r)
    <2> DEFINE to == [runner[r] EXCEPT !.pc = "release", !.due = {}]
    <2>1. Step(r, runner[r].pc, to) /\ runner[r].pc \in TrySteps
      BY <1>2 DEF TryFails
    <2>2. to \in RunnerState /\ to.cur = runner[r].cur /\ to.attempt = runner[r].attempt
      BY DEF RunnerState
    <2>3. runner[r].cur \in Intents /\ runner[r].attempt \in AttemptIds
      BY <2>1 DEF TrySteps
    <2> HIDE DEF to
    <2> QED BY <1>1, <2>1, <2>2, <2>3, StepType DEF TypeOK
  <1>3. CASE Crash(r)
    <2>1. Step(r, runner[r].pc, IdleRunner) /\ IdleRunner.pc = "idle"
      BY <1>3 DEF Crash, IdleRunner
    <2> QED BY <1>1, <2>1, NullTypes, StepType DEF TypeOK
  <1> QED BY <1>2, <1>3

LEMMA OperatorFields ==
  ASSUME TypeOK, NEW o \in Operators
  PROVE  /\ operator[o] \in OperatorState
         /\ operator[o].pc \notin {"idle", "prune"} => operator[o].cur \in Intents
         /\ operator[o].snap \in Intent
         /\ operator[o].attempts \subseteq AttemptIds
         /\ operator[o].victims \subseteq Victim
  BY DEF TypeOK, OperatorTypeOK, OperatorState

LEMMA OpenIntentType ==
  ASSUME TypeOK, NEW o \in Operators, NEW i \in Intents, NEW runAt \in Clock,
         NEW dependsOn \in SUBSET Dependency, OpenIntent(o, i, runAt, dependsOn)
  PROVE  TypeOK'
  <1> DEFINE new == [NoIntent EXCEPT !.status = "pending", !.runAt = runAt,
                                     !.updatedAt = clock, !.dependsOn = dependsOn]
             to == [IdleOperator EXCEPT !.pc = "write", !.cur = i, !.snap = new]
  <1>1. clock \in Clock /\ "pending" \in IntentStatuses /\ "write" \in OperatorSteps
    BY DEF TypeOK, StoreTypeOK, IntentStatuses, OperatorSteps
  <1>2. new \in Intent
    BY <1>1, NullTypes DEF Intent
  <1>3. Act(o, "idle", to)
    BY DEF OpenIntent
  <1> HIDE DEF new
  <1>4. to \in OperatorState /\ to.cur = i
    BY <1>1, <1>2, NullTypes DEF OperatorState
  <1> HIDE DEF to
  <1>5. RunnerTypeOK' /\ OperatorTypeOK'
    BY <1>3, <1>4, ActType
  <1>6. StoreTypeOK'
    BY NullTypes, PutIntentType DEF OpenIntent, Act, TypeOK, StoreTypeOK, envVars
  <1> QED BY <1>5, <1>6 DEF TypeOK

LEMMA OperatorStartType ==
  ASSUME TypeOK, NEW o \in Operators, OperatorStart(o)
  PROVE  TypeOK'
  <1>1. clock \in Clock
    BY DEF TypeOK, StoreTypeOK
  <1>2. CASE \E i \in Intents : CreateDispatchRunIntent(o, i)
    BY <1>1, <1>2, OpenIntentType, DispatchConstants DEF CreateDispatchRunIntent
  <1>3. CASE \E i, j \in Intents : RetryDispatchRunIntent(o, i, j)
    <2>1. PICK original \in Intents, i \in Intents : RetryDispatchRunIntent(o, original, i)
      BY <1>3
    <2>2. intents[original].dependsOn \in SUBSET Dependency
      BY DEF TypeOK, StoreTypeOK, Intent
    <2> QED BY <1>1, <2>1, <2>2, OpenIntentType, DispatchConstants DEF RetryDispatchRunIntent
  <1>4. CASE \E i \in Intents : CancelRead(o, i)
    <2>1. PICK i \in Intents : CancelRead(o, i)
      BY <1>4
    <2> DEFINE canceled == [intents[i] EXCEPT !.status = "canceled", !.updatedAt = clock]
               to == [IdleOperator EXCEPT !.pc = "cancel", !.cur = i, !.snap = canceled]
    <2>2. canceled \in Intent
      <3>1. intents[i] \in Intent
        BY DEF TypeOK, StoreTypeOK
      <3>2. "canceled" \in IntentStatuses
        BY DEF IntentStatuses, TerminalStatuses
      <3> QED BY <1>1, <3>1, <3>2 DEF Intent
    <2>3. Act(o, "idle", to)
      BY <2>1 DEF CancelRead
    <2> HIDE DEF canceled
    <2>4. to \in OperatorState /\ to.cur = i
      BY <2>2, NullTypes DEF OperatorState, OperatorSteps
    <2> HIDE DEF to
    <2>5. StoreTypeOK'
      BY <2>1, StoreSame DEF CancelRead, Act
    <2> QED BY <2>3, <2>4, <2>5, ActType DEF TypeOK
  <1>5. CASE PruneList(o)
    <2>1. PICK listed \in SUBSET Intents :
            Act(o, "idle",
              [IdleOperator EXCEPT !.pc = "prune",
                 !.victims = {[id |-> i, attemptIds |-> intents[i].attemptIds] :
                                i \in {j \in listed : Prunable(intents[j])}}])
      BY <1>5 DEF PruneList
    <2> DEFINE victims == {[id |-> i, attemptIds |-> intents[i].attemptIds] :
                             i \in {j \in listed : Prunable(intents[j])}}
               to == [IdleOperator EXCEPT !.pc = "prune", !.victims = victims]
    <2>2. victims \subseteq Victim
      BY DEF TypeOK, StoreTypeOK, Intent, Victim
    <2>3. Act(o, "idle", to)
      BY <2>1
    <2> HIDE DEF victims
    <2>4. to \in OperatorState /\ to.pc = "prune"
      BY <2>2, NullTypes DEF OperatorState, OperatorSteps, IdleOperator
    <2> HIDE DEF to
    <2>5. StoreTypeOK'
      BY <1>5, StoreSame DEF PruneList, Act
    <2> QED BY <2>3, <2>4, <2>5, ActType DEF TypeOK
  <1> QED BY <1>2, <1>3, <1>4, <1>5 DEF OperatorStart

LEMMA OperatorStepType ==
  ASSUME TypeOK, NEW o \in Operators, OperatorStep(o) \/ OperatorCrash(o)
  PROVE  TypeOK'
  <1> USE OperatorFields
  <1> DEFINE i == operator[o].cur
  <1>1. CASE WriteIntent(o)
    <2>1. Act(o, "write", IdleOperator) /\ i \in Intents /\ IdleOperator.pc = "idle"
      BY <1>1 DEF WriteIntent, Act, IdleOperator
    <2>2. CASE PutIntent(i, operator[o].snap)
      <3>1. StoreTypeOK'
        BY <1>1, <2>1, <2>2, PutIntentType DEF WriteIntent, Act, TypeOK, StoreTypeOK, envVars
      <3> QED BY <2>1, <3>1, NullTypes, ActType DEF TypeOK
    <2>3. CASE UNCHANGED intentVars
      <3>1. StoreTypeOK'
        BY <1>1, <2>3, StoreSame DEF WriteIntent, Act, storeVars, envVars
      <3> QED BY <2>1, <3>1, NullTypes, ActType DEF TypeOK
    <2> QED BY <1>1, <2>2, <2>3 DEF WriteIntent
  <1>2. CASE CancelWrite(o)
    <2>1. Act(o, "cancel", IdleOperator) /\ i \in Intents /\ IdleOperator.pc = "idle"
      BY <1>2 DEF CancelWrite, Act, IdleOperator
    <2>2. StoreTypeOK'
      BY <1>2, <2>1, PutIntentType DEF CancelWrite, Act, TypeOK, StoreTypeOK, envVars
    <2> QED BY <2>1, <2>2, NullTypes, ActType DEF TypeOK
  <1>3. CASE PruneNext(o)
    <2>1. PICK v \in operator[o].victims :
            Act(o, "prune",
              [operator[o] EXCEPT !.pc = "pruneClaim", !.cur = v.id, !.victims = @ \ {v},
                                  !.attempts = {a \in v.attemptIds : attempts[a] # "absent"}])
      BY <1>3 DEF PruneNext
    <2> DEFINE gone == {a \in v.attemptIds : attempts[a] # "absent"}
               to == [operator[o] EXCEPT !.pc = "pruneClaim", !.cur = v.id,
                                         !.victims = @ \ {v}, !.attempts = gone]
    <2>2. v.id \in Intents /\ gone \subseteq AttemptIds
      BY DEF Victim
    <2>3. Act(o, "prune", to)
      BY <2>1
    <2> HIDE DEF gone
    <2>4. to \in OperatorState /\ to.cur = v.id
      BY <2>2 DEF OperatorState, OperatorSteps
    <2> HIDE DEF to
    <2>5. StoreTypeOK'
      BY <1>3, StoreSame DEF PruneNext, Act
    <2> QED BY <2>2, <2>3, <2>4, <2>5, ActType DEF TypeOK
  <1>4. CASE PruneDone(o)
    <2>1. StoreTypeOK'
      BY <1>4, StoreSame DEF PruneDone, Act
    <2> QED BY <1>4, <2>1, NullTypes, ActType DEF TypeOK, PruneDone, IdleOperator
  <1>5. ASSUME NEW from, NEW to \in OperatorSteps,
               Act(o, from, [operator[o] EXCEPT !.pc = to]), from \notin {"idle", "prune"}
        PROVE  RunnerTypeOK' /\ OperatorTypeOK'
    <2> DEFINE next == [operator[o] EXCEPT !.pc = to]
    <2>1. next \in OperatorState /\ next.cur = i
      BY DEF OperatorState
    <2>2. Act(o, from, next) /\ i \in Intents
      BY <1>5 DEF Act
    <2> HIDE DEF next
    <2> QED BY <2>1, <2>2, ActType
  <1>6. CASE PruneClaim(o)
    <2>1. Act(o, "pruneClaim", [operator[o] EXCEPT !.pc = "pruneOutputs"]) /\ i \in Intents
      BY <1>6 DEF PruneClaim, Act
    <2>2. StoreTypeOK'
      BY <1>6, <2>1, NullTypes
      DEF PruneClaim, Act, releaseDispatchRunClaim, TypeOK, StoreTypeOK, envVars, intentVars
    <2> QED BY <1>5, <2>1, <2>2 DEF TypeOK, OperatorSteps
  <1>7. CASE PruneOutputs(o)
    <2>1. Act(o, "pruneOutputs", [operator[o] EXCEPT !.pc = "pruneAttempts"])
      BY <1>7 DEF PruneOutputs
    <2>2. StoreTypeOK'
      BY <1>7 DEF PruneOutputs, Act, TypeOK, StoreTypeOK, envVars, intentVars
    <2> QED BY <1>5, <2>1, <2>2 DEF TypeOK, OperatorSteps
  <1>8. CASE PruneAttempts(o)
    <2>1. Act(o, "pruneAttempts", [operator[o] EXCEPT !.pc = "pruneIntent"])
      BY <1>8 DEF PruneAttempts
    <2>2. StoreTypeOK'
      BY <1>8
      DEF PruneAttempts, Act, TypeOK, StoreTypeOK, envVars, intentVars, AttemptStatuses
    <2> QED BY <1>5, <2>1, <2>2 DEF TypeOK, OperatorSteps
  <1>9. CASE PruneIntent(o)
    <2> DEFINE to == [operator[o] EXCEPT !.pc = "prune", !.cur = NoId, !.attempts = {}]
    <2>1. Act(o, "pruneIntent", to) /\ i \in Intents
      BY <1>9 DEF PruneIntent, Act
    <2>2. to \in OperatorState /\ to.pc = "prune"
      BY DEF OperatorState, OperatorSteps
    <2> HIDE DEF to
    <2>3. StoreTypeOK'
      BY <1>9, <2>1, NullTypes, PutIntentType DEF PruneIntent, Act, TypeOK, StoreTypeOK, envVars
    <2> QED BY <2>1, <2>2, <2>3, ActType DEF TypeOK
  <1>10. CASE OperatorCrash(o)
    <2>1. StoreTypeOK'
      BY <1>10, FaultType DEF OperatorCrash, Act
    <2> QED BY <1>10, <2>1, NullTypes, ActType DEF TypeOK, OperatorCrash, IdleOperator
  <1> QED BY <1>1, <1>2, <1>3, <1>4, <1>6, <1>7, <1>8, <1>9, <1>10 DEF OperatorStep

(***************************************************************************)
(* Type correctness: every file and every process keeps the shape the code *)
(* declares, whatever the processes do.                                    *)
(***************************************************************************)
LEMMA TypeStep == TypeOK /\ [Next]_vars => TypeOK'
  <1> SUFFICES ASSUME TypeOK, [Next]_vars PROVE TypeOK'
    OBVIOUS
  <1>1. ASSUME NEW r \in Runners, StartRun(r) \/ RunnerStep(r) \/ TryFails(r) \/ Crash(r)
        PROVE  TypeOK'
    BY <1>1, ListType, QuietStepsType, ClaimStepsType, FileStepsType, RunnerFaultsType
    DEF RunnerStep
  <1>2. ASSUME NEW o \in Operators, OperatorStart(o) \/ OperatorStep(o) \/ OperatorCrash(o)
        PROVE  TypeOK'
    BY <1>2, OperatorStartType, OperatorStepType
  <1>3. CASE TimePasses
    BY <1>3, DispatchConstants
    DEF TimePasses, TypeOK, StoreTypeOK, RunnerTypeOK, OperatorTypeOK, intentVars, Clock
  <1>4. CASE UNCHANGED vars
    BY <1>4
    DEF vars, TypeOK, StoreTypeOK, RunnerTypeOK, OperatorTypeOK, storeVars, envVars, intentVars
  <1> QED BY <1>1, <1>2, <1>3, <1>4 DEF Next

THEOREM TypeCorrect == Spec => []TypeOK
  <1> QED BY InitType, TypeStep, PTL DEF Spec

----------------------------------------------------------------------------
(***************************************************************************)
(* DependenciesReached is not inductive: a runner may take over an intent  *)
(* that is running, whose dependencies it does not look at.  They had been *)
(* reached when it was marked as running; and no writer but the runner     *)
(* that has claimed an intent marks it so.                                 *)
(***************************************************************************)
AllReached(dependsOn) == \A d \in dependsOn : WasReached(d)

PastCheck == ClaimedSteps \cup {"claim", "readClaim", "removeClaim", "reclaim"}

SnapReached(s) ==
  s.pc \in PastCheck \/ (s.pc = "check" /\ s.snap.status = "running")
    => AllReached(s.snap.dependsOn)

RecordsReached ==
  \A i \in Intents : intents[i].status # "absent" => intents[i].status \in reached[i]

RunningReached ==
  \A i \in Intents : intents[i].status = "running" => AllReached(intents[i].dependsOn)

OperatorSnaps ==
  \A o \in Operators :
    /\ operator[o].pc = "write" => operator[o].snap.status = "pending"
    /\ operator[o].pc = "cancel" => operator[o].snap.status = "canceled"

DependencyInv ==
  /\ TypeOK
  /\ RecordsReached
  /\ RunningReached
  /\ \A r \in Runners : SnapReached(runner[r])
  /\ OperatorSnaps

(* What has been reached stays so.                                         *)
LEMMA ReachedStays ==
  ASSUME NEW dependsOn \in SUBSET Dependency, AllReached(dependsOn),
         \A i \in Intents : reached[i] \subseteq reached'[i]
  PROVE  AllReached(dependsOn)'
  BY DEF AllReached, WasReached, Dependency

(* What is satisfied has been reached.                                     *)
LEMMA SatisfiedIsReached ==
  ASSUME RecordsReached, NEW dependsOn \in SUBSET Dependency,
         areDispatchRunDependenciesSatisfied(dependsOn)
  PROVE  AllReached(dependsOn)
  <1> SUFFICES ASSUME NEW d \in dependsOn PROVE WasReached(d)
    BY DEF AllReached
  <1>1. d.intent \in Intents /\ d.status \in TerminalStatuses \cup {"terminal"}
    BY DEF Dependency
  <1>2. "absent" \notin TerminalStatuses /\ "terminal" \notin TerminalStatuses
    BY DEF TerminalStatuses, TargetOutcomes
  <1> QED BY <1>1, <1>2 DEF areDispatchRunDependenciesSatisfied, isTerminalDispatchRunStatus,
                            RecordsReached, WasReached

(* A record that replaces another, when its dependencies have been reached *)
(* or it is not running.                                                   *)
LEMMA PutKeepsReached ==
  ASSUME DependencyInv, NEW i \in Intents, NEW x \in Intent, PutIntent(i, x),
         x.status = "running" => AllReached(x.dependsOn)
  PROVE  /\ \A j \in Intents : reached[j] \subseteq reached'[j]
         /\ RecordsReached' /\ RunningReached'
  <1>1. /\ \A j \in Intents : intents'[j] = IF j = i THEN x ELSE intents[j]
        /\ \A j \in Intents : reached'[j] = IF j = i THEN reached[j] \cup {x.status} ELSE reached[j]
    BY DEF PutIntent, DependencyInv, TypeOK, StoreTypeOK
  <1>2. \A j \in Intents : reached[j] \subseteq reached'[j]
    BY <1>1
  <1>3. RecordsReached'
    BY <1>1 DEF DependencyInv, RecordsReached
  <1>4. RunningReached'
    <2> SUFFICES ASSUME NEW j \in Intents, intents'[j].status = "running"
                 PROVE  AllReached(intents[j].dependsOn)'
      BY DEF RunningReached
    <2>1. PICK y \in Intent : y = intents'[j] /\ AllReached(y.dependsOn)
      BY <1>1 DEF DependencyInv, RunningReached, TypeOK, StoreTypeOK
    <2>2. y.dependsOn \in SUBSET Dependency
      BY DEF Intent
    <2>3. AllReached(y.dependsOn)'
      BY <1>2, <2>1, <2>2, ReachedStays
    <2> QED BY <2>1, <2>3 DEF AllReached, WasReached
  <1> QED BY <1>2, <1>3, <1>4

LEMMA NothingPutKeepsReached ==
  ASSUME DependencyInv, UNCHANGED intentVars
  PROVE  /\ \A j \in Intents : reached[j] \subseteq reached'[j]
         /\ RecordsReached' /\ RunningReached'
  BY DEF DependencyInv, intentVars, RecordsReached, RunningReached, AllReached, WasReached

(* A step of a runner; one of an operator; one of nobody.                  *)
LEMMA SnapStays ==
  ASSUME NEW s \in RunnerState, SnapReached(s), \A i \in Intents : reached[i] \subseteq reached'[i]
  PROVE  SnapReached(s)'
  <1>1. s.snap.dependsOn \in SUBSET Dependency
    BY DEF RunnerState, Intent
  <1>2. AllReached(s.snap.dependsOn) => AllReached(s.snap.dependsOn)'
    BY <1>1, ReachedStays
  <1> QED BY <1>2 DEF SnapReached

LEMMA StepKeepsReached ==
  ASSUME DependencyInv, TypeOK', NEW r \in Runners, NEW from, NEW to, Step(r, from, to),
         \A i \in Intents : reached[i] \subseteq reached'[i], RecordsReached', RunningReached',
         SnapReached(to)
  PROVE  DependencyInv'
  <1>1. \A s \in Runners : runner'[s] = IF s = r THEN to ELSE runner[s]
    BY DEF Step, DependencyInv, TypeOK, RunnerTypeOK
  <1>2. ASSUME NEW s \in Runners PROVE SnapReached(runner[s])'
    <2>1. PICK x \in RunnerState : x = runner'[s] /\ SnapReached(x)
      BY <1>1 DEF DependencyInv, TypeOK, RunnerTypeOK
    <2>2. SnapReached(x)'
      BY <2>1, SnapStays
    <2> QED BY <2>1, <2>2 DEF SnapReached, AllReached, WasReached
  <1>3. OperatorSnaps'
    BY DEF Step, DependencyInv, OperatorSnaps
  <1> QED BY <1>2, <1>3 DEF DependencyInv

LEMMA ActKeepsReached ==
  ASSUME DependencyInv, TypeOK', UNCHANGED runner,
         \A i \in Intents : reached[i] \subseteq reached'[i], RecordsReached', RunningReached',
         OperatorSnaps'
  PROVE  DependencyInv'
  <1>1. ASSUME NEW s \in Runners PROVE SnapReached(runner[s])'
    <2>1. PICK x \in RunnerState : x = runner'[s] /\ SnapReached(x)
      BY DEF DependencyInv, TypeOK, RunnerTypeOK
    <2>2. SnapReached(x)'
      BY <2>1, SnapStays
    <2> QED BY <2>1, <2>2 DEF SnapReached, AllReached, WasReached
  <1> QED BY <1>1 DEF DependencyInv

(* Steps that take a runner on with the intent and the snapshot it has.    *)
LEMMA GoOnReached ==
  ASSUME DependencyInv, TypeOK', NEW r \in Runners, NEW from, NEW to, Step(r, from, to),
         to.snap = runner[r].snap, from \in PastCheck,
         UNCHANGED intentVars
  PROVE  DependencyInv'
  <1>1. SnapReached(to)
    BY DEF Step, DependencyInv, SnapReached
  <1> QED BY <1>1, NothingPutKeepsReached, StepKeepsReached

(* Steps that leave an intent, or the run.                                 *)
LEMMA LeaveReached ==
  ASSUME DependencyInv, TypeOK', NEW r \in Runners, NEW from, NEW to, Step(r, from, to),
         to.pc \in {"idle", "next", "read"}, UNCHANGED intentVars
  PROVE  DependencyInv'
  <1>1. SnapReached(to)
    BY StepNames DEF SnapReached, PastCheck
  <1> QED BY <1>1, NothingPutKeepsReached, StepKeepsReached

LEMMA CheckReached ==
  ASSUME DependencyInv, TypeOK', NEW r \in Runners, ClaimRead(r) \/ ClaimCheckDue(r)
  PROVE  DependencyInv'
  <1> USE DEF DependencyInv
  <1>1. UNCHANGED intentVars
    BY DEF ClaimRead, ClaimCheckDue, storeVars
  <1>2. CASE ClaimRead(r)
    <2>1. CASE Step(r, "read", IdleRunner)
      BY <1>1, <2>1, LeaveReached DEF IdleRunner
    <2> DEFINE to == [runner[r] EXCEPT !.pc = "check", !.snap = intents[runner[r].cur]]
    <2>2. CASE Step(r, "read", to)
      <3>1. runner[r].cur \in Intents /\ runner[r] \in RunnerState
        BY <2>2, RunnerFields, StepNames DEF Step
      <3>2. to.pc = "check" /\ to.snap = intents[runner[r].cur]
        BY <3>1 DEF RunnerState
      <3>3. SnapReached(to)
        BY <3>1, <3>2, StepNames DEF SnapReached, PastCheck, RunningReached
      <3> HIDE DEF to
      <3> QED BY <1>1, <2>2, <3>3, NothingPutKeepsReached, StepKeepsReached
    <2> QED BY <1>2, <2>1, <2>2 DEF ClaimRead
  <1>3. CASE ClaimCheckDue(r)
    <2>1. CASE Step(r, "check", Leave(r))
      BY <1>1, <2>1, LeaveType, LeaveReached
    <2>2. CASE Step(r, "check", Goto(r, "claim")) /\ isDispatchIntentDue(runner[r].snap, runner[r].now)
      <3>1. runner[r].snap.dependsOn \in SUBSET Dependency
        BY RunnerFields DEF Intent
      <3>2. AllReached(runner[r].snap.dependsOn)
        BY <2>2, <3>1, SatisfiedIsReached DEF isDispatchIntentDue, Step, SnapReached
      <3>3. Goto(r, "claim").snap = runner[r].snap
        BY GotoType, StepNames
      <3>4. SnapReached(Goto(r, "claim"))
        BY <3>2, <3>3 DEF SnapReached
      <3> QED BY <1>1, <2>2, <3>4, NothingPutKeepsReached, StepKeepsReached
    <2> QED BY <1>3, <2>1, <2>2 DEF ClaimCheckDue
  <1> QED BY <1>2, <1>3

LEMMA MarkReached ==
  ASSUME DependencyInv, TypeOK', NEW r \in Runners, MarkRunning(r) \/ FinishIntent(r)
  PROVE  DependencyInv'
  <1> USE DEF DependencyInv
  <1>1. /\ runner[r] \in RunnerState /\ runner[r].snap \in Intent /\ runner[r].cur \in Intents
        /\ runner[r].now \in Clock /\ runner[r].finishedAt \in Clock
        /\ runner[r].outcome \in TargetOutcomes /\ runner[r].attempt \in AttemptIds
        /\ AllReached(runner[r].snap.dependsOn)
    BY RunnerFields, StepNames DEF MarkRunning, FinishIntent, Step, SnapReached, PastCheck
  <1>2. CASE MarkRunning(r)
    <2> DEFINE running == [runner[r].snap EXCEPT !.status = "running", !.updatedAt = runner[r].now,
                                                 !.leaseExpiresAt = runner[r].now + LeaseMs]
               to == [runner[r] EXCEPT !.pc = "writeAttempt", !.snap = running]
    <2>1. Step(r, "markRunning", to) /\ PutIntent(runner[r].cur, running)
      BY <1>2 DEF MarkRunning
    <2>2. running \in Intent /\ running.dependsOn = runner[r].snap.dependsOn
      BY <1>1, LeaseType DEF Intent, IntentStatuses
    <2> HIDE DEF running
    <2>3. to.snap = running
      BY <1>1 DEF RunnerState
    <2>4. SnapReached(to)
      BY <1>1, <2>2, <2>3 DEF SnapReached
    <2> HIDE DEF to
    <2> QED BY <1>1, <2>1, <2>2, <2>4, PutKeepsReached, StepKeepsReached
  <1>3. CASE FinishIntent(r)
    <2>1. Step(r, "finishIntent", Goto(r, "release")) /\ PutIntent(runner[r].cur, FinishedIntent(r))
      BY <1>3 DEF FinishIntent
    <2>2. FinishedIntent(r) \in Intent /\ FinishedIntent(r).status = runner[r].outcome
      <3>1. 0 \in 0 .. MaxClock + LeaseMs
        BY DispatchConstants
      <3>2. runner[r].outcome \in IntentStatuses
        BY <1>1 DEF TargetOutcomes, IntentStatuses, TerminalStatuses
      <3>3. runner[r].snap.attemptIds \cup {runner[r].attempt} \in SUBSET AttemptIds
        BY <1>1 DEF Intent
      <3> QED BY <1>1, <3>1, <3>2, <3>3 DEF FinishedIntent, Intent
    <2>3. FinishedIntent(r).status # "running"
      BY <1>1, <2>2 DEF TargetOutcomes
    <2>4. Goto(r, "release").snap = runner[r].snap
      BY GotoType, StepNames
    <2>5. SnapReached(Goto(r, "release"))
      BY <1>1, <2>4 DEF SnapReached
    <2> QED BY <1>1, <2>1, <2>2, <2>3, <2>5, PutKeepsReached, StepKeepsReached
  <1> QED BY <1>2, <1>3

LEMMA RunnerReached ==
  ASSUME DependencyInv, TypeOK', NEW r \in Runners,
         StartRun(r) \/ RunnerStep(r) \/ TryFails(r) \/ Crash(r)
  PROVE  DependencyInv'
  <1>1. runner[r] \in RunnerState
    BY RunnerFields DEF DependencyInv
  <1>2. {"claim", "readClaim", "removeClaim", "reclaim"} \cup ClaimedSteps = PastCheck
    BY DEF PastCheck
  <1>3. ASSUME NEW to PROVE Goto(r, to).snap = runner[r].snap
    BY <1>1 DEF Goto, RunnerState
  <1>4. CASE StartRun(r)
    <2>1. PICK batch : Step(r, "idle", [IdleRunner EXCEPT !.pc = "next", !.now = clock,
                   !.due = {[id |-> i, runAt |-> intents[i].runAt] : i \in batch}])
      BY <1>4 DEF StartRun
    <2> DEFINE to == [IdleRunner EXCEPT !.pc = "next", !.now = clock,
                   !.due = {[id |-> i, runAt |-> intents[i].runAt] : i \in batch}]
    <2>2. to.pc = "next"
      BY DEF IdleRunner
    <2>3. Step(r, "idle", to) /\ UNCHANGED intentVars
      BY <2>1, <1>4 DEF StartRun, storeVars
    <2> HIDE DEF to
    <2> QED BY <2>2, <2>3, LeaveReached
  <1>5. CASE NextDue(r)
    <2>1. PICK d \in runner[r].due :
            Step(r, "next", [runner[r] EXCEPT !.pc = "read", !.cur = d.id, !.due = @ \ {d}])
      BY <1>5 DEF NextDue
    <2> DEFINE to == [runner[r] EXCEPT !.pc = "read", !.cur = d.id, !.due = @ \ {d}]
    <2>2. to.pc = "read"
      BY <1>1 DEF RunnerState
    <2>3. Step(r, "next", to) /\ UNCHANGED intentVars
      BY <2>1, <1>5 DEF NextDue, storeVars
    <2> HIDE DEF to
    <2> QED BY <2>2, <2>3, LeaveReached
  <1>6. CASE FinishRun(r)
    BY <1>6, LeaveReached DEF FinishRun, IdleRunner, storeVars
  <1>7. CASE ClaimRead(r) \/ ClaimCheckDue(r) \/ MarkRunning(r) \/ FinishIntent(r)
    BY <1>7, CheckReached, MarkReached
  <1>8. CASE OpenClaim(r) \/ ReopenClaim(r)
    <2> DEFINE to == [runner[r] EXCEPT !.pc = "writeClaim", !.attempt = nextAttempt]
    <2>1. to.snap = runner[r].snap
      BY <1>1 DEF RunnerState
    <2>2. (Step(r, "claim", to) \/ Step(r, "reclaim", to)) /\ UNCHANGED intentVars
      BY <1>8 DEF OpenClaim, ReopenClaim, CreateClaimFile
    <2> HIDE DEF to
    <2> QED BY <1>2, <2>1, <2>2, GoOnReached
  <1>9. CASE ClaimExists(r) \/ RemoveExpiredClaim(r) \/ WriteClaim(r) \/ WriteAttempt(r) \/ FinishAttempt(r)
    <2>1. PICK from, to : from \in PastCheck /\ Step(r, from, Goto(r, to)) /\ UNCHANGED intentVars
      BY <1>2, <1>9, StepNames DEF ClaimExists, RemoveExpiredClaim, WriteClaim, WriteAttempt, FinishAttempt, storeVars
    <2> QED BY <1>3, <2>1, GoOnReached
  <1>10. CASE ReadClaim(r)
    <2>1. UNCHANGED intentVars /\ "readClaim" \in PastCheck
      BY <1>10 DEF ReadClaim, storeVars, PastCheck
    <2>2. CASE Step(r, "readClaim", Goto(r, "removeClaim"))
      BY <1>3, <2>1, <2>2, GoOnReached
    <2>3. CASE Step(r, "readClaim", Leave(r))
      BY <2>1, <2>3, LeaveType, LeaveReached DEF DependencyInv
    <2> QED BY <1>10, <2>2, <2>3 DEF ReadClaim
  <1>11. CASE ReclaimLost(r) \/ ReleaseClaim(r)
    BY <1>11, LeaveType, LeaveReached DEF DependencyInv, ReclaimLost, ReleaseClaim, storeVars
  <1>12. CASE FinishTarget(r)
    <2>1. PICK outcome \in TargetOutcomes :
            Step(r, "execute", [runner[r] EXCEPT !.pc = "writeOutput", !.outcome = outcome])
      BY <1>12 DEF FinishTarget
    <2> DEFINE to == [runner[r] EXCEPT !.pc = "writeOutput", !.outcome = outcome]
    <2>2. to.snap = runner[r].snap
      BY <1>1 DEF RunnerState
    <2>3. Step(r, "execute", to) /\ UNCHANGED intentVars
      BY <2>1, <1>12 DEF FinishTarget, storeVars
    <2> HIDE DEF to
    <2> QED BY <1>2, <2>2, <2>3, StepNames, GoOnReached
  <1>13. CASE WriteOutput(r)
    <2> DEFINE to == [runner[r] EXCEPT !.pc = "finishAttempt", !.finishedAt = clock]
    <2>1. to.snap = runner[r].snap
      BY <1>1 DEF RunnerState
    <2>2. Step(r, "writeOutput", to) /\ UNCHANGED intentVars
      BY <1>13 DEF WriteOutput
    <2> HIDE DEF to
    <2> QED BY <1>2, <2>1, <2>2, StepNames, GoOnReached
  <1>14. CASE TryFails(r)
    <2> DEFINE to == [runner[r] EXCEPT !.pc = "release", !.due = {}]
    <2>1. to.snap = runner[r].snap
      BY <1>1 DEF RunnerState
    <2>2. Step(r, runner[r].pc, to) /\ UNCHANGED intentVars /\ runner[r].pc \in TrySteps
      BY <1>14 DEF TryFails, Fault
    <2> HIDE DEF to
    <2> QED BY <2>1, <2>2, GoOnReached DEF PastCheck, ClaimedSteps
  <1>15. CASE Crash(r)
    BY <1>15, LeaveReached DEF Crash, Fault, IdleRunner
  <1> QED BY <1>4, <1>5, <1>6, <1>7, <1>8, <1>9, <1>10, <1>11, <1>12, <1>13, <1>14, <1>15 DEF RunnerStep

----------------------------------------------------------------------------
(* The snapshots of operators are those of a create or a cancel.           *)
LEMMA ActSnaps ==
  ASSUME DependencyInv, NEW o \in Operators, NEW from, NEW to, Act(o, from, to),
         to.pc = "write" => to.snap.status = "pending",
         to.pc = "cancel" => to.snap.status = "canceled"
  PROVE  OperatorSnaps' /\ UNCHANGED runner
  BY DEF DependencyInv, OperatorSnaps, Act, TypeOK, OperatorTypeOK

LEMMA OperatorStartReached ==
  ASSUME DependencyInv, TypeOK', NEW o \in Operators, OperatorStart(o)
  PROVE  DependencyInv'
  <1> USE DEF DependencyInv
  <1>1. ASSUME NEW i \in Intents, NEW runAt, NEW dependsOn, OpenIntent(o, i, runAt, dependsOn)
        PROVE  DependencyInv'
    <2> DEFINE snap == [NoIntent EXCEPT !.status = "pending", !.runAt = runAt,
                                        !.updatedAt = clock, !.dependsOn = dependsOn]
               to == [IdleOperator EXCEPT !.pc = "write", !.cur = i, !.snap = snap]
    <2>1. PutIntent(i, TornIntent) /\ Act(o, "idle", to)
      BY <1>1 DEF OpenIntent
    <2>2. TornIntent.status # "running" /\ TornIntent \in Intent
      BY NullTypes DEF TornIntent, NoIntent
    <2>3. to.pc = "write" /\ to.snap.status = "pending"
      BY DEF IdleOperator, NoIntent
    <2> HIDE DEF to
    <2> QED BY <2>1, <2>2, <2>3, PutKeepsReached, ActSnaps, ActKeepsReached
  <1>2. ASSUME NEW i \in Intents, CreateDispatchRunIntent(o, i) PROVE DependencyInv'
    BY <1>1, <1>2 DEF CreateDispatchRunIntent
  <1>3. ASSUME NEW i \in Intents, NEW j \in Intents, RetryDispatchRunIntent(o, i, j) PROVE DependencyInv'
    BY <1>1, <1>3 DEF RetryDispatchRunIntent
  <1>4. ASSUME NEW i \in Intents, CancelRead(o, i) PROVE DependencyInv'
    <2> DEFINE snap == [intents[i] EXCEPT !.status = "canceled", !.updatedAt = clock]
               to == [IdleOperator EXCEPT !.pc = "cancel", !.cur = i, !.snap = snap]
    <2>1. Act(o, "idle", to) /\ UNCHANGED intentVars
      BY <1>4 DEF CancelRead, storeVars
    <2>2. intents[i] \in Intent
      BY DEF TypeOK, StoreTypeOK
    <2>3. to.pc = "cancel" /\ to.snap.status = "canceled"
      BY <2>2 DEF IdleOperator, Intent
    <2> HIDE DEF to
    <2> QED BY <2>1, <2>3, NothingPutKeepsReached, ActSnaps, ActKeepsReached
  <1>5. CASE PruneList(o)
    <2>1. PICK to : Act(o, "idle", to) /\ to.pc = "prune" /\ UNCHANGED intentVars
      BY <1>5 DEF PruneList, IdleOperator, storeVars
    <2> QED BY <2>1, NothingPutKeepsReached, ActSnaps, ActKeepsReached
  <1> QED BY <1>2, <1>3, <1>4, <1>5 DEF OperatorStart

LEMMA OperatorStepReached ==
  ASSUME DependencyInv, TypeOK', NEW o \in Operators, OperatorStep(o) \/ OperatorCrash(o)
  PROVE  DependencyInv'
  <1> USE DEF DependencyInv
  <1>1. /\ operator[o] \in OperatorState /\ operator[o].snap \in Intent
        /\ operator[o].pc \notin {"idle", "prune"} => operator[o].cur \in Intents
    BY DEF TypeOK, OperatorTypeOK, OperatorState
  <1>2. IdleOperator.pc = "idle"
    BY DEF IdleOperator
  <1>3. CASE WriteIntent(o)
    <2>1. Act(o, "write", IdleOperator) /\ operator[o].pc = "write"
      BY <1>3 DEF WriteIntent, Act
    <2>2. operator[o].snap.status # "running"
      BY <2>1 DEF OperatorSnaps
    <2>3. PutIntent(operator[o].cur, operator[o].snap) \/ UNCHANGED intentVars
      BY <1>3 DEF WriteIntent
    <2> QED BY <1>1, <1>2, <2>1, <2>2, <2>3, PutKeepsReached, NothingPutKeepsReached, ActSnaps, ActKeepsReached
  <1>4. CASE CancelWrite(o)
    <2>1. /\ Act(o, "cancel", IdleOperator) /\ operator[o].pc = "cancel"
          /\ PutIntent(operator[o].cur, operator[o].snap)
      BY <1>4 DEF CancelWrite, Act
    <2>2. operator[o].snap.status # "running"
      BY <2>1 DEF OperatorSnaps
    <2> QED BY <1>1, <1>2, <2>1, <2>2, PutKeepsReached, ActSnaps, ActKeepsReached
  <1>5. CASE PruneNext(o)
    <2>1. PICK v \in operator[o].victims : Act(o, "prune",
            [operator[o] EXCEPT !.pc = "pruneClaim", !.cur = v.id, !.victims = @ \ {v},
                                !.attempts = {a \in v.attemptIds : attempts[a] # "absent"}])
      BY <1>5 DEF PruneNext
    <2> DEFINE to == [operator[o] EXCEPT !.pc = "pruneClaim", !.cur = v.id, !.victims = @ \ {v},
                                !.attempts = {a \in v.attemptIds : attempts[a] # "absent"}]
    <2>2. to.pc = "pruneClaim"
      BY <1>1 DEF OperatorState
    <2>3. Act(o, "prune", to) /\ UNCHANGED intentVars
      BY <1>5, <2>1 DEF PruneNext, storeVars
    <2> HIDE DEF to
    <2> QED BY <2>2, <2>3, NothingPutKeepsReached, ActSnaps, ActKeepsReached
  <1>6. ASSUME NEW next \in {"pruneOutputs", "pruneAttempts", "pruneIntent"}, NEW from,
               Act(o, from, [operator[o] EXCEPT !.pc = next]), UNCHANGED intentVars
        PROVE  DependencyInv'
    <2> DEFINE to == [operator[o] EXCEPT !.pc = next]
    <2>1. to.pc = next
      BY <1>1 DEF OperatorState
    <2>2. Act(o, from, to)
      BY <1>6
    <2> HIDE DEF to
    <2> QED BY <1>6, <2>1, <2>2, NothingPutKeepsReached, ActSnaps, ActKeepsReached
  <1>7. CASE PruneClaim(o) \/ PruneOutputs(o) \/ PruneAttempts(o)
    BY <1>6, <1>7 DEF PruneClaim, PruneOutputs, PruneAttempts
  <1>8. CASE PruneIntent(o)
    <2> DEFINE to == [operator[o] EXCEPT !.pc = "prune", !.cur = NoId, !.attempts = {}]
    <2>1. /\ Act(o, "pruneIntent", to) /\ operator[o].pc = "pruneIntent"
          /\ PutIntent(operator[o].cur, NoIntent)
      BY <1>8 DEF PruneIntent, Act
    <2>2. to.pc = "prune" /\ NoIntent.status # "running" /\ NoIntent \in Intent
      BY <1>1, NullTypes DEF OperatorState, NoIntent
    <2> HIDE DEF to
    <2> QED BY <1>1, <2>1, <2>2, PutKeepsReached, ActSnaps, ActKeepsReached
  <1>9. CASE PruneDone(o)
    BY <1>2, <1>9, NothingPutKeepsReached, ActSnaps, ActKeepsReached DEF PruneDone, storeVars
  <1>10. CASE OperatorCrash(o)
    BY <1>2, <1>10, NothingPutKeepsReached, ActSnaps, ActKeepsReached DEF OperatorCrash, Fault
  <1> QED BY <1>3, <1>4, <1>5, <1>7, <1>8, <1>9, <1>10 DEF OperatorStep

LEMMA DependencyInvariance == Spec => []DependencyInv
  <1>1. Init => DependencyInv
    <2> SUFFICES ASSUME Init PROVE DependencyInv
      OBVIOUS
    <2>1. TypeOK
      BY InitType
    <2>2. RecordsReached /\ RunningReached
      BY DEF Init, InitStore, NoIntent, RecordsReached, RunningReached
    <2>3. \A r \in Runners : SnapReached(runner[r])
      BY StepNames DEF Init, InitRunner, IdleRunner, SnapReached, PastCheck
    <2>4. OperatorSnaps
      BY DEF Init, InitOperator, IdleOperator, OperatorSnaps
    <2> QED BY <2>1, <2>2, <2>3, <2>4 DEF DependencyInv
  <1>2. DependencyInv /\ [Next]_vars => DependencyInv'
    <2> SUFFICES ASSUME DependencyInv, [Next]_vars PROVE DependencyInv'
      OBVIOUS
    <2>1. TypeOK'
      BY TypeStep DEF DependencyInv
    <2>2. ASSUME NEW r \in Runners, StartRun(r) \/ RunnerStep(r) \/ TryFails(r) \/ Crash(r)
          PROVE  DependencyInv'
      BY <2>1, <2>2, RunnerReached
    <2>3. ASSUME NEW o \in Operators, OperatorStart(o) \/ OperatorStep(o) \/ OperatorCrash(o)
          PROVE  DependencyInv'
      BY <2>1, <2>3, OperatorStartReached, OperatorStepReached
    <2>4. CASE TimePasses \/ UNCHANGED vars
      <3>1. UNCHANGED <<runner, operator, intents, reached>>
        BY <2>4 DEF TimePasses, vars, storeVars, intentVars
      <3>2. OperatorSnaps'
        BY <3>1 DEF DependencyInv, OperatorSnaps
      <3> QED BY <2>1, <3>1, <3>2, NothingPutKeepsReached, ActKeepsReached DEF intentVars
    <2> QED BY <2>2, <2>3, <2>4 DEF Next
  <1> QED BY <1>1, <1>2, PTL DEF Spec

(***************************************************************************)
(* No target is started before its dependencies have been reached, however *)
(* claims were taken over and intents rewritten on the way.                *)
(***************************************************************************)
THEOREM DependenciesHold == Spec => []DependenciesReached
  <1>1. DependencyInv => DependenciesReached
    BY DEF DependencyInv, SnapReached, PastCheck, AllReached, DependenciesReached
  <1> QED BY <1>1, DependencyInvariance, PTL

----------------------------------------------------------------------------
(***************************************************************************)
(* NeverRequeued.  A write leaves every other file alone, and what it puts *)
(* where a readable record was is never a pending one: the exclusive open  *)
(* and the content after it find no readable record, a runner's write is   *)
(* running or an outcome, and a cancel's carries the canceled snapshot     *)
(* OperatorSnaps speaks of.                                                *)
(***************************************************************************)
Pruned(i) == \E o \in Operators : operator[o].pc = "pruneIntent" /\ operator[o].cur = i

NotRequeued(i) ==
  Readable(intents[i]) /\ intents'[i] # intents[i] =>
    intents'[i].status \notin {"pending", "torn", "absent"} \/ Pruned(i)

LEMMA PutRequeuesNothing ==
  ASSUME TypeOK, NEW i, NEW x, PutIntent(i, x),
         \/ x.status \notin {"pending", "torn", "absent"}
         \/ ~ Readable(intents[i])
         \/ Pruned(i)
  PROVE  \A j \in Intents : NotRequeued(j)
  <1> SUFFICES ASSUME NEW j \in Intents PROVE NotRequeued(j)
    OBVIOUS
  <1>1. CASE j = i
    <2>1. intents'[j] = x
      BY <1>1 DEF PutIntent, TypeOK, StoreTypeOK
    <2> QED BY <1>1, <2>1 DEF NotRequeued
  <1>2. CASE j # i
    <2>1. intents'[j] = intents[j]
      BY <1>2 DEF PutIntent, TypeOK, StoreTypeOK
    <2> QED BY <2>1 DEF NotRequeued
  <1> QED BY <1>1, <1>2

LEMMA RunnerRequeuesNothing ==
  ASSUME DependencyInv, NEW r \in Runners,
         StartRun(r) \/ RunnerStep(r) \/ TryFails(r) \/ Crash(r)
  PROVE  \A i \in Intents : NotRequeued(i)
  <1>1. TypeOK /\ runner[r] \in RunnerState
    BY RunnerFields DEF DependencyInv
  <1>2. CASE MarkRunning(r)
    <2> DEFINE running == [runner[r].snap EXCEPT !.status = "running", !.updatedAt = runner[r].now,
                                                 !.leaseExpiresAt = runner[r].now + LeaseMs]
    <2>1. PutIntent(runner[r].cur, running)
      BY <1>2 DEF MarkRunning
    <2>2. running.status = "running"
      BY <1>1 DEF RunnerState, Intent
    <2> HIDE DEF running
    <2> QED BY <1>1, <2>1, <2>2, PutRequeuesNothing
  <1>3. CASE FinishIntent(r)
    <2>1. PutIntent(runner[r].cur, FinishedIntent(r)) /\ runner[r].pc = "finishIntent"
      BY <1>3 DEF FinishIntent, Step
    <2>2. runner[r].outcome \in TargetOutcomes
      BY <1>1, <2>1, RunnerFields
    <2>3. FinishedIntent(r).status = runner[r].outcome
      BY <1>1 DEF FinishedIntent, RunnerState, Intent
    <2> QED BY <1>1, <2>1, <2>2, <2>3, PutRequeuesNothing DEF TargetOutcomes
  <1>4. CASE UNCHANGED intents
    BY <1>4 DEF NotRequeued
  <1>5. CASE RunnerStep(r) /\ ~ MarkRunning(r) /\ ~ FinishIntent(r)
    <2>1. UNCHANGED intents
      BY <1>5
      DEF RunnerStep, NextDue, FinishRun, ClaimRead, ClaimCheckDue, OpenClaim, ClaimExists, CreateClaimFile,
          WriteClaim, ReadClaim, RemoveExpiredClaim, ReopenClaim, ReclaimLost, WriteAttempt,
          FinishTarget, WriteOutput, FinishAttempt, ReleaseClaim, storeVars, intentVars
    <2> QED BY <1>4, <2>1
  <1>6. CASE StartRun(r) \/ TryFails(r) \/ Crash(r)
    <2>1. UNCHANGED intents
      BY <1>6 DEF StartRun, TryFails, Crash, Fault, storeVars, intentVars
    <2> QED BY <1>4, <2>1
  <1> QED BY <1>2, <1>3, <1>5, <1>6

LEMMA OperatorRequeuesNothing ==
  ASSUME DependencyInv, NEW o \in Operators,
         OperatorStart(o) \/ OperatorStep(o) \/ OperatorCrash(o)
  PROVE  \A i \in Intents : NotRequeued(i)
  <1>1. TypeOK /\ OperatorSnaps
    BY DEF DependencyInv
  <1>2. ASSUME NEW i \in Intents, NEW runAt, NEW dependsOn, OpenIntent(o, i, runAt, dependsOn)
        PROVE  \A j \in Intents : NotRequeued(j)
    <2>1. PutIntent(i, TornIntent) /\ ~ Readable(intents[i])
      BY <1>2 DEF OpenIntent, Readable, IntentStatuses, TerminalStatuses, TargetOutcomes
    <2> QED BY <1>1, <2>1, PutRequeuesNothing
  <1>3. CASE \E i \in Intents : CreateDispatchRunIntent(o, i)
    BY <1>2, <1>3 DEF CreateDispatchRunIntent
  <1>4. CASE \E i, j \in Intents : RetryDispatchRunIntent(o, i, j)
    BY <1>2, <1>4 DEF RetryDispatchRunIntent
  <1>5. CASE UNCHANGED intents
    BY <1>5 DEF NotRequeued
  <1>6. CASE WriteIntent(o)
    <2>1. CASE PutIntent(operator[o].cur, operator[o].snap) /\ intents[operator[o].cur].status = "torn"
      <3>1. ~ Readable(intents[operator[o].cur])
        BY <2>1 DEF Readable, IntentStatuses, TerminalStatuses, TargetOutcomes
      <3> QED BY <1>1, <2>1, <3>1, PutRequeuesNothing
    <2> QED BY <1>5, <1>6, <2>1 DEF WriteIntent, intentVars
  <1>7. CASE CancelWrite(o)
    <2>1. PutIntent(operator[o].cur, operator[o].snap) /\ operator[o].pc = "cancel"
      BY <1>7 DEF CancelWrite, Act
    <2>2. operator[o].snap.status = "canceled"
      BY <1>1, <2>1 DEF OperatorSnaps
    <2> QED BY <1>1, <2>1, <2>2, PutRequeuesNothing
  <1>8. CASE PruneIntent(o)
    <2>1. PutIntent(operator[o].cur, NoIntent) /\ Pruned(operator[o].cur)
      BY <1>8 DEF PruneIntent, Act, Pruned
    <2> QED BY <1>1, <2>1, PutRequeuesNothing
  <1>9. CASE \/ \E i \in Intents : CancelRead(o, i)
             \/ PruneList(o) \/ PruneNext(o) \/ PruneDone(o) \/ PruneClaim(o) \/ PruneOutputs(o)
             \/ PruneAttempts(o) \/ OperatorCrash(o)
    <2>1. UNCHANGED intents
      BY <1>9 DEF CancelRead, PruneList, PruneNext, PruneDone, PruneClaim, PruneOutputs,
                  PruneAttempts, OperatorCrash, Fault, storeVars, intentVars
    <2> QED BY <1>5, <2>1
  <1> QED BY <1>3, <1>4, <1>6, <1>7, <1>8, <1>9 DEF OperatorStart, OperatorStep

(***************************************************************************)
(* No writer of an old snapshot puts an intent back in the queue.          *)
(***************************************************************************)
THEOREM NothingIsRequeued == Spec => NeverRequeued
  <1>1. ASSUME DependencyInv, Next PROVE \A i \in Intents : NotRequeued(i)
    <2>1. CASE TimePasses
      BY <2>1 DEF TimePasses, storeVars, intentVars, NotRequeued
    <2> QED BY <1>1, <2>1, RunnerRequeuesNothing, OperatorRequeuesNothing DEF Next
  <1>2. DependencyInv /\ [Next]_vars =>
          [\A i \in Intents :
             Readable(intents[i]) /\ intents'[i] # intents[i] =>
               \/ intents'[i].status \notin {"pending", "torn", "absent"}
               \/ \E o \in Operators : operator[o].pc = "pruneIntent" /\ operator[o].cur = i]_vars
    BY <1>1 DEF NotRequeued, Pruned
  <1> QED BY <1>2, DependencyInvariance, PTL DEF Spec, NeverRequeued
-----------------------------------------------------------------------------
(***************************************************************************)
(* The claim files give mutual exclusion until a claim is taken over.      *)
(***************************************************************************)

(***************************************************************************)
(* ClaimExclusion is not inductive by itself: a state where r works on an  *)
(* intent without a claim file satisfies it, and lets s create the file.   *)
(* What keeps s out is that the file is there for as long as r works.      *)
(***************************************************************************)
ClaimHeld ==
  \A i \in Intents \ takenOver : \A r \in Runners :
    Working(r, i) => claims[i].status # "absent"

ClaimInv == TypeOK /\ ClaimExclusion /\ ClaimHeld

(* A step by which nobody begins to work, and no claim file goes that is   *)
(* not recorded as taken over, keeps the invariant.                        *)
LEMMA NobodyBegins ==
  ASSUME ClaimExclusion, ClaimHeld, takenOver \subseteq takenOver',
         \A s \in Runners, i \in Intents : Working(s, i)' => Working(s, i),
         \A i \in Intents \ takenOver' :
           claims[i].status # "absent" => claims'[i].status # "absent"
  PROVE  ClaimExclusion' /\ ClaimHeld'
  BY DEF ClaimExclusion, ClaimHeld

(* A runner that goes on with the intent it had claimed, or stays outside  *)
(* the claimed steps, does not begin to work.                              *)
LEMMA GoesOn ==
  ASSUME TypeOK, NEW r \in Runners, NEW from, NEW to, Step(r, from, to),
         to.pc \in ClaimedSteps => from \in ClaimedSteps /\ to.cur = runner[r].cur
  PROVE  \A s \in Runners, i \in Intents : Working(s, i)' => Working(s, i)
  BY DEF TypeOK, RunnerTypeOK, Step, Working

(* Steps of a runner that leave the claim files alone.                     *)
LEMMA QuietRunnerStep ==
  ASSUME ClaimInv, NEW r \in Runners, NEW from, NEW to, Step(r, from, to),
         to.pc \in ClaimedSteps => from \in ClaimedSteps /\ to.cur = runner[r].cur,
         UNCHANGED <<claims, takenOver>>
  PROVE  ClaimExclusion' /\ ClaimHeld'
  BY GoesOn, NobodyBegins DEF ClaimInv

(* open(claimPath, "wx"): the file was not there, so nobody was at work.   *)
LEMMA ClaimCreated ==
  ASSUME ClaimInv, NEW r \in Runners, NEW from, CreateClaimFile(r, from),
         from \in {"claim", "reclaim"}
  PROVE  ClaimExclusion' /\ ClaimHeld'
  <1> DEFINE i == runner[r].cur
             to == [runner[r] EXCEPT !.pc = "writeClaim", !.attempt = nextAttempt]
  <1>1. /\ Step(r, from, to) /\ claims[i].status = "absent" /\ UNCHANGED takenOver
        /\ claims' = [claims EXCEPT ![i] = [NoClaim EXCEPT !.status = "torn",
                                                           !.attempt = nextAttempt]]
    BY DEF CreateClaimFile
  <1>2. i \in Intents /\ runner[r] \in RunnerState
    BY <1>1, RunnerFields DEF Step, ClaimInv
  <1>3. to.cur = i
    BY <1>2 DEF RunnerState
  <1>4. claims'[i].status = "torn" /\ \A j \in Intents \ {i} : claims'[j] = claims[j]
    BY <1>1, <1>2 DEF ClaimInv, TypeOK, StoreTypeOK, NoClaim
  <1> HIDE DEF to
  <1>5. \A s \in Runners, j \in Intents :
          Working(s, j)' => Working(s, j) \/ (s = r /\ j = i)
    BY <1>1, <1>3 DEF ClaimInv, TypeOK, RunnerTypeOK, Step, Working
  <1>6. i \notin takenOver => \A s \in Runners : ~Working(s, i)
    BY <1>1, <1>2 DEF ClaimInv, ClaimHeld
  <1>7. ClaimExclusion'
    BY <1>1, <1>5, <1>6 DEF ClaimInv, ClaimExclusion
  <1>8. ClaimHeld'
    BY <1>1, <1>4, <1>5 DEF ClaimInv, ClaimHeld
  <1> QED BY <1>7, <1>8

(* The end of a run removes its own claim: if the claim was not taken over *)
(* before, nobody else was at work on the intent.                          *)
LEMMA ClaimReleased ==
  ASSUME ClaimInv, NEW r \in Runners, ReleaseClaim(r)
  PROVE  ClaimExclusion' /\ ClaimHeld'
  <1> DEFINE i == runner[r].cur
  <1>1. /\ Step(r, "release", Leave(r)) /\ UNCHANGED takenOver
        /\ claims' = [claims EXCEPT ![i] = NoClaim]
    BY DEF ReleaseClaim, releaseDispatchRunClaim
  <1>2. i \in Intents /\ Working(r, i) /\ Leave(r).pc \notin ClaimedSteps
    BY <1>1, RunnerFields, LeaveType, StepNames DEF Step, Working, ClaimInv
  <1>3. \A s \in Runners, j \in Intents : Working(s, j)' => Working(s, j) /\ s # r
    BY <1>1, <1>2 DEF ClaimInv, TypeOK, RunnerTypeOK, Step, Working
  <1>4. \A j \in Intents \ {i} : claims'[j] = claims[j]
    BY <1>1 DEF ClaimInv, TypeOK, StoreTypeOK
  <1>5. ClaimExclusion'
    BY <1>1, <1>3 DEF ClaimInv, ClaimExclusion
  <1>6. ClaimHeld'
    BY <1>1, <1>2, <1>3, <1>4 DEF ClaimInv, ClaimExclusion, ClaimHeld
  <1> QED BY <1>5, <1>6

(* A claim removed by another than its writer is recorded as taken over.   *)
LEMMA ClaimTaken ==
  ASSUME ClaimInv, NEW i \in Intents, releaseDispatchRunClaim(i),
         takenOver' = takenOver \cup {i},
         \A s \in Runners, j \in Intents : Working(s, j)' => Working(s, j)
  PROVE  ClaimExclusion' /\ ClaimHeld'
  <1>1. \A j \in Intents \ {i} : claims'[j] = claims[j]
    BY DEF releaseDispatchRunClaim, ClaimInv, TypeOK, StoreTypeOK
  <1> QED BY <1>1, NobodyBegins DEF ClaimInv

LEMMA RunnerStepClaims ==
  ASSUME ClaimInv, NEW r \in Runners,
         StartRun(r) \/ RunnerStep(r) \/ TryFails(r) \/ Crash(r)
  PROVE  ClaimExclusion' /\ ClaimHeld'
  <1> USE StepNames
  <1>1. TypeOK /\ runner[r] \in RunnerState
    BY RunnerFields DEF ClaimInv
  <1>2. CASE StartRun(r)
    BY <1>1, <1>2, QuietRunnerStep DEF StartRun, storeVars, IdleRunner
  <1>3. CASE NextDue(r)
    BY <1>1, <1>3, QuietRunnerStep DEF NextDue, storeVars, RunnerState
  <1>4. CASE FinishRun(r)
    BY <1>4, QuietRunnerStep DEF FinishRun, storeVars, IdleRunner
  <1>5. CASE ClaimRead(r)
    BY <1>1, <1>5, QuietRunnerStep DEF ClaimRead, storeVars, IdleRunner, RunnerState
  <1>6. CASE ClaimCheckDue(r)
    BY <1>1, <1>6, GotoType, LeaveType, QuietRunnerStep DEF ClaimCheckDue, storeVars
  <1>7. CASE OpenClaim(r) \/ ReopenClaim(r)
    BY <1>7, ClaimCreated DEF OpenClaim, ReopenClaim
  <1>8. CASE ClaimExists(r)
    BY <1>1, <1>8, GotoType, QuietRunnerStep DEF ClaimExists, storeVars
  <1>9. CASE ReadClaim(r)
    BY <1>1, <1>9, GotoType, LeaveType, QuietRunnerStep DEF ReadClaim, storeVars
  <1>10. CASE RemoveExpiredClaim(r)
    <2>1. Step(r, "removeClaim", Goto(r, "reclaim")) /\ runner[r].cur \in Intents
      BY <1>1, <1>10, RunnerFields DEF RemoveExpiredClaim, Step
    <2>2. \A s \in Runners, i \in Intents : Working(s, i)' => Working(s, i)
      BY <1>1, <2>1, GotoType, GoesOn
    <2> QED BY <1>10, <2>1, <2>2, ClaimTaken DEF RemoveExpiredClaim
  <1>11. CASE ReclaimLost(r)
    BY <1>1, <1>11, LeaveType, QuietRunnerStep DEF ReclaimLost, storeVars
  <1>12. CASE WriteClaim(r)
    <2>1. Step(r, "writeClaim", Goto(r, "markRunning")) /\ UNCHANGED takenOver
      BY <1>12 DEF WriteClaim
    <2>2. \A s \in Runners, i \in Intents : Working(s, i)' => Working(s, i)
      BY <1>1, <2>1, GotoType, GoesOn
    <2>3. \A i \in Intents : claims[i].status # "absent" => claims'[i].status # "absent"
      BY <1>1, <1>12 DEF WriteClaim, TypeOK, StoreTypeOK
    <2> QED BY <2>1, <2>2, <2>3, NobodyBegins DEF ClaimInv
  <1>13. CASE MarkRunning(r)
    BY <1>1, <1>13, QuietRunnerStep DEF MarkRunning, RunnerState
  <1>14. CASE WriteAttempt(r)
    BY <1>1, <1>14, GotoType, QuietRunnerStep DEF WriteAttempt
  <1>15. CASE FinishTarget(r)
    BY <1>1, <1>15, QuietRunnerStep DEF FinishTarget, storeVars, RunnerState
  <1>16. CASE WriteOutput(r)
    BY <1>1, <1>16, QuietRunnerStep DEF WriteOutput, RunnerState
  <1>17. CASE FinishAttempt(r)
    BY <1>1, <1>17, GotoType, QuietRunnerStep DEF FinishAttempt
  <1>18. CASE FinishIntent(r)
    BY <1>1, <1>18, GotoType, QuietRunnerStep DEF FinishIntent
  <1>19. CASE ReleaseClaim(r)
    BY <1>19, ClaimReleased
  <1>20. CASE TryFails(r)
    BY <1>1, <1>20, QuietRunnerStep DEF TryFails, TrySteps, Fault, RunnerState
  <1>21. CASE Crash(r)
    BY <1>1, <1>21, QuietRunnerStep DEF Crash, Fault, IdleRunner
  <1> QED BY <1>2, <1>3, <1>4, <1>5, <1>6, <1>7, <1>8, <1>9, <1>10, <1>11, <1>12, <1>13,
             <1>14, <1>15, <1>16, <1>17, <1>18, <1>19, <1>20, <1>21 DEF RunnerStep

LEMMA OperatorStepClaims ==
  ASSUME ClaimInv, NEW o \in Operators, OperatorStart(o) \/ OperatorStep(o) \/ OperatorCrash(o)
  PROVE  ClaimExclusion' /\ ClaimHeld'
  <1>1. UNCHANGED runner
    BY DEF OperatorStart, OperatorStep, OperatorCrash, CreateDispatchRunIntent,
           RetryDispatchRunIntent, OpenIntent, WriteIntent, CancelRead, CancelWrite, PruneList,
           PruneNext, PruneDone, PruneClaim, PruneOutputs, PruneAttempts, PruneIntent, Act
  <1>2. \A s \in Runners, i \in Intents : Working(s, i)' => Working(s, i)
    BY <1>1 DEF Working
  <1>3. CASE PruneClaim(o)
    <2>1. operator[o].cur \in Intents
      BY <1>3, OperatorFields DEF PruneClaim, Act, ClaimInv
    <2> QED BY <1>2, <1>3, <2>1, ClaimTaken DEF PruneClaim
  <1>4. CASE ~PruneClaim(o)
    <2>1. UNCHANGED <<claims, takenOver>>
      BY <1>4
      DEF OperatorStart, OperatorStep, OperatorCrash, CreateDispatchRunIntent,
          RetryDispatchRunIntent, OpenIntent, WriteIntent, CancelRead, CancelWrite, PruneList,
          PruneNext, PruneDone, PruneOutputs, PruneAttempts, PruneIntent, Fault, storeVars
    <2> QED BY <1>2, <2>1, NobodyBegins DEF ClaimInv
  <1> QED BY <1>3, <1>4

LEMMA ClaimInvInit == Init => ClaimInv
  <1> SUFFICES ASSUME Init PROVE ClaimExclusion /\ ClaimHeld
    BY InitType DEF ClaimInv
  <1>1. \A r \in Runners, i \in Intents : ~Working(r, i)
    BY StepNames DEF Init, InitRunner, IdleRunner, Working
  <1> QED BY <1>1 DEF ClaimExclusion, ClaimHeld

LEMMA ClaimInvStep == ClaimInv /\ [Next]_vars => ClaimInv'
  <1> SUFFICES ASSUME ClaimInv, [Next]_vars PROVE ClaimInv'
    OBVIOUS
  <1>1. TypeOK'
    BY TypeStep DEF ClaimInv
  <1>2. ASSUME NEW r \in Runners, StartRun(r) \/ RunnerStep(r) \/ TryFails(r) \/ Crash(r)
        PROVE  ClaimExclusion' /\ ClaimHeld'
    BY <1>2, RunnerStepClaims
  <1>3. ASSUME NEW o \in Operators, OperatorStart(o) \/ OperatorStep(o) \/ OperatorCrash(o)
        PROVE  ClaimExclusion' /\ ClaimHeld'
    BY <1>3, OperatorStepClaims
  <1>4. CASE TimePasses \/ UNCHANGED vars
    <2>1. UNCHANGED <<runner, claims, takenOver>>
      BY <1>4 DEF TimePasses, vars, storeVars
    <2>2. \A s \in Runners, i \in Intents : Working(s, i)' => Working(s, i)
      BY <2>1 DEF Working
    <2> QED BY <1>1, <2>1, <2>2, NobodyBegins DEF ClaimInv
  <1> QED BY <1>1, <1>2, <1>3, <1>4 DEF Next, ClaimInv

(***************************************************************************)
(* For every set of runners and intents and every timing: two processes    *)
(* execute the same intent at once only after its claim was removed by     *)
(* somebody other than the process that wrote it.                          *)
(***************************************************************************)
THEOREM ClaimsExclude == Spec => []ClaimExclusion
  <1>1. ClaimInv => ClaimExclusion
    BY DEF ClaimInv
  <1> QED BY <1>1, ClaimInvInit, ClaimInvStep, PTL DEF Spec

----------------------------------------------------------------------------
(***************************************************************************)
(* The evidence of recent results.  An attempt is in the hand of one       *)
(* runner from its claim until its result is recorded, and from then on    *)
(* used: it is the attempt of one finished intent, and nobody writes to    *)
(* its files but a prune, which comes when that intent has grown old.      *)
(***************************************************************************)
BeforeResult == ClaimedSteps \ {"release"}
Used(a) ==
  /\ a \in AttemptIds /\ a < nextAttempt
  /\ \A r \in Runners : runner[r].pc \in BeforeResult => runner[r].attempt # a

Old(intent) == intent.updatedAt < clock - Retention
Gone(a) == Used(a) /\ \A j \in Intents : a \in intents[j].attemptIds => Old(intents[j])

HandsDiffer ==
  /\ \A r \in Runners : runner[r].pc \in BeforeResult => runner[r].attempt < nextAttempt
  /\ \A r, s \in Runners :
       runner[r].pc \in BeforeResult /\ runner[s].pc \in BeforeResult
         /\ runner[r].attempt = runner[s].attempt => r = s

NoneYet(intent) == intent.status \notin TargetOutcomes => intent.attemptIds = {}

IntentEvidence(i) ==
  /\ NoneYet(intents[i])
  /\ intents[i].status \in TargetOutcomes =>
       \E a \in AttemptIds :
         /\ intents[i].attemptIds = {a} /\ Used(a)
         /\ Old(intents[i]) \/ (attempts[a] = intents[i].status /\ a \in outputs /\ a \in started[i])

(* What a runner in state s has put on disk, and that its snapshot has no  *)
(* attempt of its own.                                                     *)
RunnerEvidence(s) ==
  /\ s.pc = "check" => NoneYet(s.snap)
  /\ s.pc \in {"claim", "readClaim", "removeClaim", "reclaim"} \cup BeforeResult
       => s.snap.attemptIds = {}
  /\ s.pc \in {"execute", "writeOutput", "finishAttempt", "finishIntent"} => s.attempt \in started[s.cur]
  /\ s.pc \in {"finishAttempt", "finishIntent"} => s.attempt \in outputs
  /\ s.pc = "finishIntent" => attempts[s.attempt] = s.outcome

(* What an operator in state s writes has no result; what it prunes is old.*)
OperatorEvidence(s) ==
  /\ s.pc \in {"write", "cancel"} => s.snap.attemptIds = {} /\ s.snap.status \notin TargetOutcomes
  /\ \A v \in s.victims : \A a \in v.attemptIds : Gone(a)
  /\ \A a \in s.attempts : Gone(a)

OneIntentEach ==
  \A i, j \in Intents : \A a \in intents[i].attemptIds : a \in intents[j].attemptIds => i = j

EvidenceInv ==
  /\ TypeOK /\ HandsDiffer /\ OneIntentEach
  /\ \A i \in Intents : IntentEvidence(i)
  /\ \A r \in Runners : RunnerEvidence(runner[r])
  /\ \A o \in Operators : OperatorEvidence(operator[o])

(* What every step does: used attempts stay used and go to no other intent.*)
Onward ==
  /\ clock \in Int /\ clock' \in Int /\ clock <= clock'
  /\ \A a : Used(a) => (Used(a))'
  /\ \A j \in Intents : intents'[j] = intents[j] \/ \A a \in intents'[j].attemptIds : ~Used(a)
  /\ \A i, j \in Intents : intents'[i] # intents[i] /\ intents'[j] # intents[j] => i = j

SteadyAttempt(a) == attempts'[a] = attempts[a] /\ (a \in outputs => a \in outputs')

(* Files are touched only in the hand of a runner, or when they are old.   *)
SteadyStore ==
  /\ \A i \in Intents : started[i] \subseteq started'[i]
  /\ \A a : Used(a) => SteadyAttempt(a) \/ Gone(a)
  /\ \A r \in Runners :
       runner[r].pc \in BeforeResult => SteadyAttempt(runner[r].attempt) \/ runner'[r] # runner[r]

LEMMA OldStays ==
  ASSUME TypeOK, Onward
  PROVE  /\ \A j \in Intents : intents'[j] = intents[j] /\ Old(intents[j]) => (Old(intents[j]))'
         /\ \A a : Gone(a) => (Gone(a))'
  <1>1. ASSUME NEW j \in Intents, intents'[j] = intents[j], Old(intents[j]) PROVE (Old(intents[j]))'
    <2>1. PICK t : t = intents[j].updatedAt /\ t \in Int
      BY DispatchConstants DEF TypeOK, StoreTypeOK, Intent, Clock
    <2>2. t < clock' - Retention
      BY <1>1, <2>1, DispatchConstants DEF Old, Onward
    <2> QED BY <1>1, <2>1, <2>2 DEF Old
  <1>2. ASSUME NEW a, Gone(a) PROVE (Gone(a))'
    <2>1. (Used(a))' /\ Used(a)
      BY <1>2 DEF Gone, Onward
    <2>2. ASSUME NEW j \in Intents, a \in intents'[j].attemptIds PROVE (Old(intents[j]))'
      <3>1. intents'[j] = intents[j]
        BY <2>1, <2>2 DEF Onward
      <3> QED BY <1>1, <1>2, <2>2, <3>1 DEF Gone
    <2> QED BY <2>1, <2>2 DEF Gone
  <1> QED BY <1>1, <1>2
(* Records and processes that did not change keep what was known of them.  *)
LEMMA EvidenceKept ==
  ASSUME EvidenceInv, TypeOK', HandsDiffer', Onward, SteadyStore,
         \A i \in Intents : intents'[i] = intents[i] \/ IntentEvidence(i)',
         \A r \in Runners : runner'[r] = runner[r] \/ RunnerEvidence(runner[r])',
         \A o \in Operators : operator'[o] = operator[o] \/ OperatorEvidence(operator[o])'
  PROVE  EvidenceInv'
  <1>1. ASSUME NEW i \in Intents, intents'[i] = intents[i] PROVE IntentEvidence(i)'
    <2>1. IntentEvidence(i)
      BY DEF EvidenceInv
    <2>2. NoneYet(intents[i])'
      BY <1>1, <2>1 DEF IntentEvidence, NoneYet
    <2>3. ASSUME intents[i].status \in TargetOutcomes
          PROVE  (\E a \in AttemptIds :
                    /\ intents[i].attemptIds = {a} /\ Used(a)
                    /\ \/ Old(intents[i])
                       \/ attempts[a] = intents[i].status /\ a \in outputs /\ a \in started[i])'
      <3>1. PICK a \in AttemptIds :
              /\ intents[i].attemptIds = {a} /\ Used(a)
              /\ Old(intents[i]) \/ (attempts[a] = intents[i].status /\ a \in outputs /\ a \in started[i])
        BY <2>1, <2>3 DEF IntentEvidence
      <3>2. (Used(a))' /\ a \in AttemptIds'
        BY <3>1 DEF Onward, AttemptIds
      <3>3. CASE Old(intents[i]) \/ Gone(a)
        <4>1. Old(intents[i])
          BY <3>1, <3>3 DEF Gone
        <4>2. (Old(intents[i]))'
          BY <1>1, <4>1, OldStays DEF EvidenceInv
        <4> QED BY <1>1, <3>1, <3>2, <4>2
      <3>4. CASE SteadyAttempt(a) /\ ~Old(intents[i])
        BY <1>1, <3>1, <3>2, <3>4 DEF SteadyAttempt, SteadyStore
      <3> QED BY <3>1, <3>3, <3>4 DEF SteadyStore
    <2> QED BY <1>1, <2>2, <2>3 DEF IntentEvidence
  <1>2. ASSUME NEW r \in Runners, runner'[r] = runner[r] PROVE RunnerEvidence(runner[r])'
    <2>1. RunnerEvidence(runner[r])
      BY DEF EvidenceInv
    <2>2. runner[r].pc \in BeforeResult => SteadyAttempt(runner[r].attempt) /\ runner[r].cur \in Intents
      BY <1>2, RunnerFields, StepNames DEF SteadyStore, EvidenceInv, BeforeResult
    <2>3. {"execute", "writeOutput", "finishAttempt", "finishIntent"} \subseteq BeforeResult
      BY StepNames DEF BeforeResult
    <2> QED BY <1>2, <2>1, <2>2, <2>3 DEF RunnerEvidence, NoneYet, SteadyAttempt, SteadyStore,
                                          BeforeResult
  <1>3. ASSUME NEW o \in Operators, operator'[o] = operator[o] PROVE OperatorEvidence(operator[o])'
    <2>1. OperatorEvidence(operator[o]) /\ \A a : Gone(a) => (Gone(a))'
      BY OldStays DEF EvidenceInv
    <2>2. \A v \in operator'[o].victims : \A a \in v.attemptIds : (Gone(a))'
      BY <1>3, <2>1 DEF OperatorEvidence
    <2>3. \A a \in operator'[o].attempts : (Gone(a))'
      BY <1>3, <2>1 DEF OperatorEvidence
    <2> QED BY <1>3, <2>1, <2>2, <2>3 DEF OperatorEvidence
  <1>4. OneIntentEach'
    <2>1. \A i \in Intents : \A a \in intents[i].attemptIds : Used(a)
      BY DEF EvidenceInv, IntentEvidence, NoneYet
    <2> QED BY <2>1 DEF EvidenceInv, OneIntentEach, Onward
  <1> QED BY <1>1, <1>2, <1>3, <1>4 DEF EvidenceInv

(* A runner keeps the attempt in its hand, lets go of it, or takes a fresh *)
(* one.                                                                    *)
LEMMA HandsMove ==
  ASSUME EvidenceInv, NEW r \in Runners, NEW from, NEW to, Step(r, from, to),
         \/ to.pc \notin BeforeResult
         \/ from \in BeforeResult /\ to.attempt = runner[r].attempt
         \/ to.attempt = nextAttempt /\ nextAttempt' = nextAttempt + 1,
         nextAttempt' \in {nextAttempt, nextAttempt + 1}
  PROVE  HandsDiffer' /\ \A a : Used(a) => (Used(a))'
  <1>1. \A s \in Runners : runner'[s] = IF s = r THEN to ELSE runner[s]
    BY DEF Step, EvidenceInv, TypeOK, RunnerTypeOK
  <1>2. nextAttempt \in Nat /\ AttemptIds \subseteq Nat
    BY DispatchConstants DEF EvidenceInv, TypeOK, StoreTypeOK, AttemptIds
  <1>3. runner[r].pc = from
    BY DEF Step
  <1>4. \A s \in Runners : runner[s].pc \in BeforeResult => runner[s].attempt \in Nat
    BY <1>2, RunnerFields DEF EvidenceInv, BeforeResult
  <1>5. /\ \A s \in Runners : runner[s].pc \in BeforeResult => runner[s].attempt < nextAttempt
        /\ \A s, t \in Runners :
             runner[s].pc \in BeforeResult /\ runner[t].pc \in BeforeResult
               /\ runner[s].attempt = runner[t].attempt => s = t
    BY DEF EvidenceInv, HandsDiffer
  <1>6. ASSUME NEW s \in Runners, runner'[s].pc \in BeforeResult
        PROVE  /\ runner'[s].attempt < nextAttempt'
               /\ \/ runner[s].pc \in BeforeResult /\ runner'[s].attempt = runner[s].attempt
                  \/ s = r /\ runner'[s].attempt = nextAttempt
    BY <1>1, <1>2, <1>3, <1>4, <1>5, <1>6
  <1>7. ASSUME NEW s \in Runners, NEW t \in Runners,
               runner'[s].pc \in BeforeResult, runner'[t].pc \in BeforeResult,
               runner'[s].attempt = runner'[t].attempt
        PROVE  s = t
    <2>1. /\ \/ runner[s].pc \in BeforeResult /\ runner'[s].attempt = runner[s].attempt
             \/ s = r /\ runner'[s].attempt = nextAttempt
          /\ \/ runner[t].pc \in BeforeResult /\ runner'[t].attempt = runner[t].attempt
             \/ t = r /\ runner'[t].attempt = nextAttempt
      BY <1>6, <1>7
    <2> QED BY <1>2, <1>4, <1>5, <1>7, <2>1
  <1>8. ASSUME NEW a, Used(a) PROVE (Used(a))'
    <2>1. a \in AttemptIds /\ a < nextAttempt'
      <3>1. a \in AttemptIds /\ a < nextAttempt
        BY <1>8 DEF Used
      <3>2. nextAttempt' = nextAttempt \/ nextAttempt' = nextAttempt + 1
        OBVIOUS
      <3> QED BY <1>2, <3>1, <3>2
    <2>2. ASSUME NEW s \in Runners, runner'[s].pc \in BeforeResult PROVE runner'[s].attempt # a
      <3>1. CASE runner[s].pc \in BeforeResult /\ runner'[s].attempt = runner[s].attempt
        BY <1>8, <3>1 DEF Used
      <3>2. CASE runner'[s].attempt = nextAttempt
        BY <1>2, <1>8, <3>2 DEF Used
      <3> QED BY <1>6, <2>2, <3>1, <3>2
    <2> QED BY <2>1, <2>2 DEF Used, AttemptIds
  <1> QED BY <1>6, <1>7, <1>8 DEF HandsDiffer

LEMMA HandsStayWhenOperatorsAct ==
  ASSUME EvidenceInv, UNCHANGED <<runner, nextAttempt>>
  PROVE  HandsDiffer' /\ \A a : Used(a) => (Used(a))'
  BY DEF EvidenceInv, HandsDiffer, Used

(* A runner's step that leaves the intents and the history as they are.    *)
LEMMA RunnerKeepsEvidence ==
  ASSUME EvidenceInv, TypeOK', NEW r \in Runners, NEW from, NEW to, Step(r, from, to),
         UNCHANGED <<clock, intents>>,
         \/ to.pc \notin BeforeResult
         \/ from \in BeforeResult /\ to.attempt = runner[r].attempt
         \/ to.attempt = nextAttempt /\ nextAttempt' = nextAttempt + 1,
         nextAttempt' \in {nextAttempt, nextAttempt + 1},
         \A i \in Intents : started[i] \subseteq started'[i],
         \A a \in AttemptIds :
           SteadyAttempt(a) \/ (from \in BeforeResult /\ a = runner[r].attempt /\ to.pc # from),
         RunnerEvidence(to)'
  PROVE  EvidenceInv'
  <1>1. HandsDiffer' /\ \A a : Used(a) => (Used(a))'
    BY HandsMove
  <1>2. Onward
    BY <1>1, DispatchConstants DEF Onward, EvidenceInv, TypeOK, StoreTypeOK, Clock
  <1>3. \A s \in Runners : runner'[s] = IF s = r THEN to ELSE runner[s]
    BY DEF Step, EvidenceInv, TypeOK, RunnerTypeOK
  <1>4. SteadyStore
    <2>1. \A a : Used(a) => SteadyAttempt(a)
      BY DEF Used, Step
    <2>2. ASSUME NEW s \in Runners, runner[s].pc \in BeforeResult, runner'[s] = runner[s]
          PROVE  SteadyAttempt(runner[s].attempt)
      <3>1. CASE ~(from \in BeforeResult /\ to.pc # from /\ runner[s].attempt = runner[r].attempt)
        <4>1. runner[s].attempt \in AttemptIds
          BY <2>2, RunnerFields DEF EvidenceInv, BeforeResult
        <4> QED BY <3>1, <4>1
      <3>2. CASE from \in BeforeResult /\ to.pc # from /\ runner[s].attempt = runner[r].attempt
        BY <1>3, <2>2, <3>2 DEF Step, EvidenceInv, HandsDiffer
      <3> QED BY <3>1, <3>2
    <2> QED BY <2>1, <2>2 DEF SteadyStore
  <1>5. \A s \in Runners : runner'[s] = runner[s] \/ RunnerEvidence(runner[s])'
    BY <1>3 DEF RunnerEvidence, NoneYet
  <1> QED BY <1>1, <1>2, <1>4, <1>5, EvidenceKept DEF Step
(* Steps to where nothing is in hand, and steps of the claim.              *)
LEMMA ForgetsEvidence ==
  ASSUME EvidenceInv, TypeOK', NEW r \in Runners, NEW from, NEW to, Step(r, from, to),
         to.pc \in {"idle", "next", "read", "release"},
         UNCHANGED <<clock, intents, attempts, outputs, started, nextAttempt>>
  PROVE  EvidenceInv'
  <1>1. to.pc \notin BeforeResult /\ RunnerEvidence(to)'
    BY StepNames DEF BeforeResult, RunnerEvidence
  <1> QED BY <1>1, RunnerKeepsEvidence DEF SteadyAttempt

LEMMA ClaimsEvidence ==
  ASSUME EvidenceInv, TypeOK', NEW r \in Runners, NEW from, NEW to, Step(r, from, to),
         to.pc \in {"claim", "readClaim", "removeClaim", "reclaim", "writeClaim", "markRunning"},
         to.snap.attemptIds = {},
         \/ to.pc \notin BeforeResult /\ nextAttempt' = nextAttempt
         \/ from = "writeClaim" /\ to.attempt = runner[r].attempt /\ nextAttempt' = nextAttempt
         \/ to.attempt = nextAttempt /\ nextAttempt' = nextAttempt + 1,
         UNCHANGED <<clock, intents, attempts, outputs, started>>
  PROVE  EvidenceInv'
  <1>1. RunnerEvidence(to)'
    BY DEF RunnerEvidence
  <1>2. "writeClaim" \in BeforeResult
    BY StepNames DEF BeforeResult
  <1> QED BY <1>1, <1>2, RunnerKeepsEvidence DEF SteadyAttempt

LEMMA EarlyStepsKeepEvidence ==
  ASSUME EvidenceInv, TypeOK', NEW r \in Runners,
         \/ StartRun(r) \/ NextDue(r) \/ FinishRun(r) \/ ClaimRead(r) \/ ClaimCheckDue(r)
         \/ OpenClaim(r) \/ ClaimExists(r) \/ ReadClaim(r) \/ RemoveExpiredClaim(r)
         \/ ReopenClaim(r) \/ ReclaimLost(r) \/ WriteClaim(r)
  PROVE  EvidenceInv'
  <1>1. runner[r] \in RunnerState /\ RunnerEvidence(runner[r])
    BY RunnerFields DEF EvidenceInv
  <1>2. ASSUME NEW to PROVE /\ Goto(r, to).pc = to /\ Goto(r, to).snap = runner[r].snap
                            /\ Goto(r, to).attempt = runner[r].attempt
    BY <1>1 DEF Goto, RunnerState
  <1>3. UNCHANGED <<clock, intents, attempts, outputs, started>>
    BY DEF StartRun, NextDue, FinishRun, ClaimRead, ClaimCheckDue, OpenClaim, CreateClaimFile,
           ClaimExists, ReadClaim, RemoveExpiredClaim, ReopenClaim, ReclaimLost, WriteClaim,
           storeVars, envVars, intentVars
  <1>4. CASE StartRun(r) \/ NextDue(r) \/ FinishRun(r) \/ ReclaimLost(r)
    <2>1. nextAttempt' = nextAttempt
      BY <1>4 DEF StartRun, NextDue, FinishRun, ReclaimLost
    <2>2. CASE StartRun(r)
      <3>1. PICK batch : Step(r, "idle", [IdleRunner EXCEPT !.pc = "next", !.now = clock,
                   !.due = {[id |-> i, runAt |-> intents[i].runAt] : i \in batch}])
        BY <2>2 DEF StartRun
      <3> DEFINE to == [IdleRunner EXCEPT !.pc = "next", !.now = clock,
                   !.due = {[id |-> i, runAt |-> intents[i].runAt] : i \in batch}]
      <3>2. Step(r, "idle", to) /\ to.pc = "next"
        BY <3>1 DEF IdleRunner
      <3> HIDE DEF to
      <3> QED BY <1>3, <2>1, <3>2, ForgetsEvidence
    <2>3. CASE NextDue(r)
      <3>1. PICK d \in runner[r].due :
              Step(r, "next", [runner[r] EXCEPT !.pc = "read", !.cur = d.id, !.due = @ \ {d}])
        BY <2>3 DEF NextDue
      <3> DEFINE to == [runner[r] EXCEPT !.pc = "read", !.cur = d.id, !.due = @ \ {d}]
      <3>2. Step(r, "next", to) /\ to.pc = "read"
        BY <1>1, <3>1 DEF RunnerState
      <3> HIDE DEF to
      <3> QED BY <1>3, <2>1, <3>2, ForgetsEvidence
    <2>4. CASE FinishRun(r) \/ ReclaimLost(r)
      <3>1. Step(r, "next", IdleRunner) \/ Step(r, "reclaim", Leave(r))
        BY <2>4 DEF FinishRun, ReclaimLost
      <3>2. Leave(r).pc = "next" /\ IdleRunner.pc = "idle"
        BY LeaveType DEF EvidenceInv, IdleRunner
      <3> QED BY <1>3, <2>1, <3>1, <3>2, ForgetsEvidence
    <2> QED BY <1>4, <2>2, <2>3, <2>4
  <1>5. CASE ClaimRead(r)
    <2>1. nextAttempt' = nextAttempt
      BY <1>5 DEF ClaimRead
    <2>2. CASE Step(r, "read", IdleRunner)
      BY <1>3, <2>1, <2>2, ForgetsEvidence DEF IdleRunner
    <2>3. CASE Step(r, "read", [runner[r] EXCEPT !.pc = "check", !.snap = intents[runner[r].cur]])
      <3>1. runner[r].cur \in Intents
        BY <2>3, RunnerFields, StepNames DEF Step, EvidenceInv
      <3> DEFINE checking == [runner[r] EXCEPT !.pc = "check", !.snap = intents[runner[r].cur]]
      <3>5. /\ Step(r, "read", checking) /\ checking.pc = "check"
            /\ checking.snap = intents[runner[r].cur]
        BY <1>1, <2>3 DEF RunnerState
      <3> HIDE DEF checking
      <3>2. PICK to : Step(r, "read", to) /\ to.pc = "check" /\ to.snap = intents[runner[r].cur]
        BY <3>5
      <3>3. NoneYet(to.snap)
        BY <3>1, <3>2 DEF EvidenceInv, IntentEvidence
      <3>4. (RunnerEvidence(to))' /\ to.pc \notin BeforeResult
        BY <3>2, <3>3, StepNames DEF RunnerEvidence, BeforeResult, NoneYet
      <3> QED BY <1>3, <2>1, <3>2, <3>4, RunnerKeepsEvidence DEF SteadyAttempt
    <2> QED BY <1>5, <2>2, <2>3 DEF ClaimRead
  <1>6. CASE ClaimCheckDue(r)
    <2>1. nextAttempt' = nextAttempt /\ runner[r].pc = "check"
      BY <1>6 DEF ClaimCheckDue, Step
    <2>2. CASE Step(r, "check", Leave(r))
      BY <1>3, <2>1, <2>2, LeaveType, ForgetsEvidence DEF EvidenceInv
    <2>3. CASE Step(r, "check", Goto(r, "claim")) /\ isDispatchIntentDue(runner[r].snap, runner[r].now)
      <3>1. runner[r].snap.attemptIds = {}
        BY <1>1, <2>1, <2>3 DEF isDispatchIntentDue, RunnerEvidence, NoneYet, TargetOutcomes
      <3>2. PICK to : Step(r, "check", to) /\ to.pc = "claim" /\ to.snap.attemptIds = {}
        BY <1>2, <2>3, <3>1
      <3>3. to.pc \notin BeforeResult
        BY <3>2, StepNames DEF BeforeResult
      <3> QED BY <1>3, <2>1, <3>2, <3>3, ClaimsEvidence
    <2> QED BY <1>6, <2>2, <2>3 DEF ClaimCheckDue
  <1>7. CASE OpenClaim(r) \/ ReopenClaim(r)
    <2>1. PICK from \in {"claim", "reclaim"} :
            /\ Step(r, from, [runner[r] EXCEPT !.pc = "writeClaim", !.attempt = nextAttempt])
            /\ nextAttempt' = nextAttempt + 1
      BY <1>7 DEF OpenClaim, ReopenClaim, CreateClaimFile
    <2> DEFINE to == [runner[r] EXCEPT !.pc = "writeClaim", !.attempt = nextAttempt]
    <2>2. /\ Step(r, from, to) /\ to.pc = "writeClaim" /\ to.attempt = nextAttempt
          /\ to.snap = runner[r].snap
      BY <1>1, <2>1 DEF RunnerState
    <2> HIDE DEF to
    <2>3. runner[r].snap.attemptIds = {}
      BY <1>1, <2>1 DEF Step, RunnerEvidence
    <2> QED BY <1>3, <2>1, <2>2, <2>3, ClaimsEvidence
  <1>8. CASE ClaimExists(r) \/ RemoveExpiredClaim(r) \/ Step(r, "readClaim", Goto(r, "removeClaim"))
    <2>1. PICK from \in {"claim", "readClaim", "removeClaim"}, next \in {"readClaim", "removeClaim", "reclaim"} :
            Step(r, from, Goto(r, next))
      BY <1>8 DEF ClaimExists, RemoveExpiredClaim
    <2>2. PICK to : Step(r, from, to) /\ to.pc = next /\ to.snap = runner[r].snap
      BY <1>2, <2>1
    <2>3. runner[r].snap.attemptIds = {} /\ next \notin BeforeResult
      BY <1>1, <2>1, StepNames DEF Step, RunnerEvidence, BeforeResult
    <2>4. nextAttempt' = nextAttempt
      <3>1. CASE ClaimExists(r) \/ RemoveExpiredClaim(r)
        BY <3>1 DEF ClaimExists, RemoveExpiredClaim
      <3>2. CASE Step(r, "readClaim", Goto(r, "removeClaim"))
        <4>1. ReadClaim(r)
          BY <3>2 DEF Step, StartRun, NextDue, FinishRun, ClaimRead, ClaimCheckDue, OpenClaim,
                      CreateClaimFile, ClaimExists, RemoveExpiredClaim, ReopenClaim, ReclaimLost,
                      WriteClaim
        <4> QED BY <4>1 DEF ReadClaim
      <3> QED BY <1>8, <3>1, <3>2
    <2> QED BY <1>3, <2>2, <2>3, <2>4, ClaimsEvidence
  <1>9. CASE ReadClaim(r)
    <2>1. CASE Step(r, "readClaim", Leave(r))
      BY <1>3, <1>9, <2>1, LeaveType, ForgetsEvidence DEF EvidenceInv, ReadClaim
    <2> QED BY <1>8, <1>9, <2>1 DEF ReadClaim
  <1>10. CASE WriteClaim(r)
    <2>1. Step(r, "writeClaim", Goto(r, "markRunning")) /\ nextAttempt' = nextAttempt
      BY <1>10 DEF WriteClaim
    <2>2. PICK to : /\ Step(r, "writeClaim", to) /\ to.pc = "markRunning"
                    /\ to.snap = runner[r].snap /\ to.attempt = runner[r].attempt
      BY <1>2, <2>1
    <2>3. runner[r].snap.attemptIds = {}
      BY <1>1, <2>1, StepNames DEF Step, RunnerEvidence, BeforeResult
    <2> QED BY <1>3, <2>1, <2>2, <2>3, ClaimsEvidence
  <1> QED BY <1>4, <1>5, <1>6, <1>7, <1>8, <1>9, <1>10

(* The record of one intent is replaced by one with no attempt, or with    *)
(* one that was not used before.                                           *)
LEMMA PutIsOnward ==
  ASSUME EvidenceInv, NEW i \in Intents, NEW x, PutIntent(i, x), UNCHANGED clock,
         \A a \in x.attemptIds : ~Used(a),
         \A a : Used(a) => (Used(a))'
  PROVE  Onward /\ \A j \in Intents : intents'[j] = IF j = i THEN x ELSE intents[j]
  <1>1. \A j \in Intents : intents'[j] = IF j = i THEN x ELSE intents[j]
    BY DEF PutIntent, EvidenceInv, TypeOK, StoreTypeOK
  <1>2. clock \in Int
    BY DispatchConstants DEF EvidenceInv, TypeOK, StoreTypeOK, Clock
  <1> QED BY <1>1, <1>2 DEF Onward

LEMMA MarkKeepsEvidence ==
  ASSUME EvidenceInv, TypeOK', NEW r \in Runners, MarkRunning(r)
  PROVE  EvidenceInv'
  <1>1. /\ runner[r] \in RunnerState /\ runner[r].snap.attemptIds = {}
        /\ runner[r].cur \in Intents /\ runner[r].snap \in Intent /\ runner[r].pc = "markRunning"
    BY RunnerFields, StepNames DEF EvidenceInv, MarkRunning, Step, RunnerEvidence, BeforeResult
  <1> DEFINE running == [runner[r].snap EXCEPT !.status = "running", !.updatedAt = runner[r].now,
                                               !.leaseExpiresAt = runner[r].now + LeaseMs]
             next == [runner[r] EXCEPT !.pc = "writeAttempt", !.snap = running]
  <1>2. running.status = "running" /\ running.attemptIds = {}
    BY <1>1 DEF Intent
  <1>3. PutIntent(runner[r].cur, running) /\ Step(r, "markRunning", next)
    BY DEF MarkRunning
  <1>4. next.pc = "writeAttempt" /\ next.snap = running /\ next.attempt = runner[r].attempt
    BY <1>1 DEF RunnerState
  <1> HIDE DEF running, next
  <1>5. PICK to : Step(r, "markRunning", to) /\ to.pc = "writeAttempt" /\ to.snap.attemptIds = {}
                  /\ to.attempt = runner[r].attempt
    BY <1>2, <1>3, <1>4
  <1>6. UNCHANGED <<clock, attempts, outputs, nextAttempt, started>>
    BY DEF MarkRunning, envVars
  <1>7. HandsDiffer' /\ \A a : Used(a) => (Used(a))'
    BY <1>5, <1>6, HandsMove, StepNames DEF BeforeResult
  <1>8. Onward /\ \A j \in Intents : intents'[j] = IF j = runner[r].cur THEN running ELSE intents[j]
    BY <1>1, <1>2, <1>3, <1>6, <1>7, PutIsOnward
  <1>9. SteadyStore
    BY <1>6 DEF SteadyStore, SteadyAttempt
  <1>10. \A i \in Intents : intents'[i] = intents[i] \/ IntentEvidence(i)'
    BY <1>2, <1>8 DEF IntentEvidence, NoneYet, TargetOutcomes
  <1>11. \A s \in Runners : runner'[s] = IF s = r THEN to ELSE runner[s]
    BY <1>5 DEF Step, EvidenceInv, TypeOK, RunnerTypeOK
  <1>12. \A s \in Runners : runner'[s] = runner[s] \/ RunnerEvidence(runner[s])'
    BY <1>5, <1>11 DEF RunnerEvidence
  <1> QED BY <1>5, <1>7, <1>8, <1>9, <1>10, <1>12, EvidenceKept DEF Step

LEMMA FileStepsKeepEvidence ==
  ASSUME EvidenceInv, TypeOK', NEW r \in Runners,
         WriteAttempt(r) \/ FinishTarget(r) \/ WriteOutput(r) \/ FinishAttempt(r)
  PROVE  EvidenceInv'
  <1> DEFINE a == runner[r].attempt
             i == runner[r].cur
  <1>1. runner[r] \in RunnerState /\ RunnerEvidence(runner[r])
    BY RunnerFields DEF EvidenceInv
  <1>2. PICK from \in {"writeAttempt", "execute", "writeOutput", "finishAttempt"} : runner[r].pc = from
    BY DEF WriteAttempt, FinishTarget, WriteOutput, FinishAttempt, Step
  <1>3. from \in BeforeResult /\ a \in AttemptIds /\ i \in Intents /\ runner[r].snap.attemptIds = {}
    BY <1>1, <1>2, RunnerFields, StepNames DEF BeforeResult, RunnerEvidence, EvidenceInv
  <1>4. UNCHANGED <<clock, intents, nextAttempt>>
    BY DEF WriteAttempt, FinishTarget, WriteOutput, FinishAttempt, storeVars, envVars, intentVars
  <1>5. /\ attempts \in [AttemptIds -> AttemptStatuses] /\ outputs \subseteq AttemptIds
        /\ started \in [Intents -> SUBSET AttemptIds]
    BY DEF EvidenceInv, TypeOK, StoreTypeOK
  <1>6. ASSUME NEW to, Step(r, from, to), to.pc \in BeforeResult \ {from}, to.attempt = a,
               \A j \in Intents : started[j] \subseteq started'[j],
               \A b \in AttemptIds : SteadyAttempt(b) \/ b = a,
               RunnerEvidence(to)'
        PROVE  EvidenceInv'
    BY <1>3, <1>4, <1>6, RunnerKeepsEvidence
  <1>7. \A pc : Goto(r, pc).pc = pc /\ Goto(r, pc).snap = runner[r].snap /\ Goto(r, pc).attempt = a
                /\ Goto(r, pc).cur = i /\ Goto(r, pc).outcome = runner[r].outcome
    BY <1>1 DEF Goto, RunnerState
  <1>8. CASE WriteAttempt(r)
    <2>1. Step(r, "writeAttempt", Goto(r, "execute"))
      BY <1>8 DEF WriteAttempt
    <2>2. PICK to : Step(r, "writeAttempt", to) /\ to.pc = "execute" /\ to.snap = runner[r].snap
                    /\ to.attempt = a /\ to.cur = i
      BY <1>7, <2>1
    <2>3. a \in started'[i] /\ \A j \in Intents : started[j] \subseteq started'[j]
      BY <1>3, <1>5, <1>8 DEF WriteAttempt
    <2>4. \A b \in AttemptIds : SteadyAttempt(b) \/ b = a
      BY <1>5, <1>8 DEF WriteAttempt, SteadyAttempt
    <2>5. RunnerEvidence(to)'
      BY <1>3, <2>2, <2>3 DEF RunnerEvidence
    <2> QED BY <1>2, <1>6, <2>2, <2>3, <2>4, <2>5, StepNames DEF BeforeResult, Step
  <1>9. CASE FinishTarget(r)
    <2>1. PICK outcome \in TargetOutcomes :
            Step(r, "execute", [runner[r] EXCEPT !.pc = "writeOutput", !.outcome = outcome])
      BY <1>9 DEF FinishTarget
    <2> DEFINE next == [runner[r] EXCEPT !.pc = "writeOutput", !.outcome = outcome]
    <2>2. Step(r, "execute", next) /\ next.pc = "writeOutput" /\ next.snap = runner[r].snap
          /\ next.attempt = a /\ next.cur = i
      BY <1>1, <2>1 DEF RunnerState
    <2> HIDE DEF next
    <2>3. PICK to : Step(r, "execute", to) /\ to.pc = "writeOutput" /\ to.snap = runner[r].snap
                    /\ to.attempt = a /\ to.cur = i
      BY <2>2
    <2>4. UNCHANGED <<attempts, outputs, started>>
      BY <1>9 DEF FinishTarget, storeVars
    <2>5. a \in started[i]
      BY <1>1, <2>3 DEF RunnerEvidence, Step
    <2>6. RunnerEvidence(to)'
      BY <1>3, <2>3, <2>4, <2>5 DEF RunnerEvidence
    <2> QED BY <1>2, <1>6, <2>3, <2>4, <2>6, StepNames DEF BeforeResult, Step, SteadyAttempt
  <1>10. CASE WriteOutput(r)
    <2> DEFINE next == [runner[r] EXCEPT !.pc = "finishAttempt", !.finishedAt = clock]
    <2>1. Step(r, "writeOutput", next) /\ next.pc = "finishAttempt" /\ next.snap = runner[r].snap
          /\ next.attempt = a /\ next.cur = i
      BY <1>1, <1>10 DEF RunnerState, WriteOutput
    <2> HIDE DEF next
    <2>2. PICK to : Step(r, "writeOutput", to) /\ to.pc = "finishAttempt" /\ to.snap = runner[r].snap
                    /\ to.attempt = a /\ to.cur = i
      BY <2>1
    <2>3. UNCHANGED <<attempts, started>> /\ outputs' = outputs \cup {a}
      BY <1>10 DEF WriteOutput
    <2>4. a \in started[i]
      BY <1>1, <2>2 DEF RunnerEvidence, Step
    <2>5. RunnerEvidence(to)'
      BY <1>3, <2>2, <2>3, <2>4 DEF RunnerEvidence
    <2> QED BY <1>2, <1>6, <2>2, <2>3, <2>5, StepNames DEF BeforeResult, Step, SteadyAttempt
  <1>11. CASE FinishAttempt(r)
    <2>1. Step(r, "finishAttempt", Goto(r, "finishIntent"))
      BY <1>11 DEF FinishAttempt
    <2>2. PICK to : Step(r, "finishAttempt", to) /\ to.pc = "finishIntent" /\ to.snap = runner[r].snap
                    /\ to.attempt = a /\ to.cur = i /\ to.outcome = runner[r].outcome
      BY <1>7, <2>1
    <2>3. UNCHANGED <<outputs, started>> /\ attempts' = [attempts EXCEPT ![a] = runner[r].outcome]
      BY <1>11 DEF FinishAttempt
    <2>4. a \in started[i] /\ a \in outputs
      BY <1>1, <2>2 DEF RunnerEvidence, Step
    <2>5. RunnerEvidence(to)'
      BY <1>3, <1>5, <2>2, <2>3, <2>4 DEF RunnerEvidence
    <2>6. \A b \in AttemptIds : SteadyAttempt(b) \/ b = a
      BY <1>5, <2>3 DEF SteadyAttempt
    <2> QED BY <1>2, <1>6, <2>2, <2>3, <2>5, <2>6, StepNames DEF BeforeResult, Step
  <1> QED BY <1>8, <1>9, <1>10, <1>11

(* The finished intent takes the attempt out of the hand of its runner:    *)
(* nobody else has it, and its files are written.                          *)
LEMMA FinishKeepsEvidence ==
  ASSUME EvidenceInv, TypeOK', NEW r \in Runners, FinishIntent(r)
  PROVE  EvidenceInv'
  <1>1. /\ runner[r] \in RunnerState /\ RunnerEvidence(runner[r]) /\ runner[r].pc = "finishIntent"
        /\ runner[r].snap \in Intent /\ runner[r].outcome \in TargetOutcomes
        /\ "finishIntent" \in BeforeResult
    BY RunnerFields, StepNames DEF EvidenceInv, FinishIntent, Step, BeforeResult
  <1>2. PICK a \in AttemptIds, i \in Intents : a = runner[r].attempt /\ i = runner[r].cur
    BY <1>1, RunnerFields, StepNames DEF EvidenceInv
  <1>3. /\ runner[r].snap.attemptIds = {}
        /\ a \in started[i] /\ a \in outputs /\ attempts[a] = runner[r].outcome
    BY <1>1, <1>2 DEF RunnerEvidence
  <1>4. PICK x : x = FinishedIntent(r)
    OBVIOUS
  <1>5. x.attemptIds = {a} /\ x.status = attempts[a] /\ x.status \in TargetOutcomes
    BY <1>1, <1>2, <1>3, <1>4 DEF FinishedIntent, Intent
  <1>6. PutIntent(i, x) /\ UNCHANGED <<clock, attempts, outputs, nextAttempt, started>>
    BY <1>2, <1>4 DEF FinishIntent, envVars
  <1>7. PICK to : Step(r, "finishIntent", to) /\ to.pc = "release"
    BY <1>1 DEF FinishIntent, Goto, RunnerState
  <1>8. HandsDiffer' /\ \A b : Used(b) => (Used(b))'
    BY <1>6, <1>7, HandsMove, StepNames DEF BeforeResult
  <1>9. ~Used(a)
    BY <1>1, <1>2 DEF Used
  <1>10. Onward /\ \A j \in Intents : intents'[j] = IF j = i THEN x ELSE intents[j]
    BY <1>5, <1>6, <1>8, <1>9, PutIsOnward
  <1>11. \A s \in Runners : runner'[s] = IF s = r THEN to ELSE runner[s]
    BY <1>7 DEF Step, EvidenceInv, TypeOK, RunnerTypeOK
  <1>12. (Used(a))'
    <2>1. a < nextAttempt'
      BY <1>1, <1>2, <1>6 DEF EvidenceInv, HandsDiffer
    <2>2. ASSUME NEW s \in Runners, runner'[s].pc \in BeforeResult PROVE runner'[s].attempt # a
      <3>1. s # r /\ runner'[s] = runner[s]
        BY <1>7, <1>11, <2>2, StepNames DEF BeforeResult
      <3> QED BY <1>1, <1>2, <2>2, <3>1 DEF EvidenceInv, HandsDiffer
    <2> QED BY <2>1, <2>2 DEF Used, AttemptIds
  <1>13. IntentEvidence(i)'
    BY <1>3, <1>5, <1>6, <1>10, <1>12 DEF IntentEvidence, NoneYet
  <1>14. SteadyStore
    BY <1>6 DEF SteadyStore, SteadyAttempt
  <1>15. \A s \in Runners : runner'[s] = runner[s] \/ RunnerEvidence(runner[s])'
    BY <1>7, <1>11, StepNames DEF RunnerEvidence, BeforeResult
  <1> QED BY <1>7, <1>8, <1>10, <1>13, <1>14, <1>15, EvidenceKept DEF Step

LEMMA RunnerKeepsItsEvidence ==
  ASSUME EvidenceInv, TypeOK', NEW r \in Runners,
         StartRun(r) \/ RunnerStep(r) \/ TryFails(r) \/ Crash(r)
  PROVE  EvidenceInv'
  <1>1. CASE ReleaseClaim(r)
    <2>1. Step(r, "release", Leave(r)) /\ Leave(r).pc = "next"
      BY <1>1, LeaveType DEF ReleaseClaim, EvidenceInv
    <2>2. UNCHANGED <<clock, intents, attempts, outputs, started, nextAttempt>>
      BY <1>1 DEF ReleaseClaim, envVars, intentVars
    <2> QED BY <2>1, <2>2, ForgetsEvidence
  <1>2. CASE TryFails(r) \/ Crash(r)
    <2>1. UNCHANGED <<clock, intents, attempts, outputs, started, nextAttempt>>
      BY <1>2 DEF TryFails, Crash, Fault, intentVars
    <2>2. PICK from, to : Step(r, from, to) /\ to.pc \in {"idle", "release"}
      <3>1. runner[r] \in RunnerState
        BY RunnerFields DEF EvidenceInv
      <3>2. CASE TryFails(r)
        <4> DEFINE next == [runner[r] EXCEPT !.pc = "release", !.due = {}]
        <4>1. Step(r, runner[r].pc, next) /\ next.pc = "release"
          BY <3>1, <3>2 DEF TryFails, RunnerState
        <4> HIDE DEF next
        <4> QED BY <4>1
      <3>3. CASE Crash(r)
        BY <3>3 DEF Crash, IdleRunner
      <3> QED BY <1>2, <3>2, <3>3
    <2> QED BY <2>1, <2>2, ForgetsEvidence
  <1> QED BY <1>1, <1>2, EarlyStepsKeepEvidence, MarkKeepsEvidence, FileStepsKeepEvidence,
             FinishKeepsEvidence DEF RunnerStep

(* A command of an operator that writes at most one intent, without result.*)
LEMMA OperatorKeepsEvidence ==
  ASSUME EvidenceInv, TypeOK', NEW o \in Operators, NEW from, NEW to, Act(o, from, to),
         NEW i, NEW x,
         \/ UNCHANGED intents
         \/ /\ i \in Intents /\ PutIntent(i, x)
            /\ x.attemptIds = {} /\ x.status \notin TargetOutcomes,
         UNCHANGED clock,
         \A a \in AttemptIds : SteadyAttempt(a) \/ Gone(a),
         OperatorEvidence(to)
  PROVE  EvidenceInv'
  <1>1. UNCHANGED <<runner, nextAttempt, started>>
    BY DEF Act
  <1>2. HandsDiffer' /\ \A a : Used(a) => (Used(a))'
    BY <1>1, HandsStayWhenOperatorsAct
  <1>3. Onward
    <2>1. CASE UNCHANGED intents
      BY <1>2, <2>1, DispatchConstants DEF Onward, EvidenceInv, TypeOK, StoreTypeOK, Clock
    <2>2. CASE i \in Intents /\ PutIntent(i, x) /\ x.attemptIds = {}
      BY <1>2, <2>2, PutIsOnward
    <2> QED BY <2>1, <2>2
  <1>4. SteadyStore
    <2>1. \A r \in Runners : runner[r].pc \in BeforeResult => runner[r].attempt \in AttemptIds
      BY RunnerFields DEF EvidenceInv, BeforeResult
    <2>2. \A r \in Runners : runner[r].pc \in BeforeResult => ~Gone(runner[r].attempt)
      BY DEF Gone, Used
    <2> QED BY <1>1, <2>1, <2>2 DEF SteadyStore, Used
  <1>5. \A j \in Intents : intents'[j] = intents[j] \/ IntentEvidence(j)'
    <2>1. CASE UNCHANGED intents
      BY <2>1
    <2>2. CASE /\ i \in Intents /\ PutIntent(i, x)
               /\ x.attemptIds = {} /\ x.status \notin TargetOutcomes
      <3>1. \A j \in Intents : intents'[j] = IF j = i THEN x ELSE intents[j]
        BY <1>2, <2>2, PutIsOnward
      <3> QED BY <2>2, <3>1 DEF IntentEvidence, NoneYet
    <2> QED BY <2>1, <2>2
  <1>6. \A p \in Operators : operator'[p] = IF p = o THEN to ELSE operator[p]
    BY DEF Act, EvidenceInv, TypeOK, OperatorTypeOK
  <1>7. \A p \in Operators : operator'[p] = operator[p] \/ OperatorEvidence(operator[p])'
    <2>1. \A a : Gone(a) => (Gone(a))'
      BY <1>3, OldStays DEF EvidenceInv
    <2>2. (OperatorEvidence(to))'
      BY <2>1 DEF OperatorEvidence
    <2>3. ASSUME NEW p \in Operators, operator'[p] = to PROVE OperatorEvidence(operator[p])'
      <3>1. \A v \in to.victims : \A a \in v.attemptIds : (Gone(a))'
        BY <2>2 DEF OperatorEvidence
      <3>2. \A a \in to.attempts : (Gone(a))'
        BY <2>2 DEF OperatorEvidence
      <3> QED BY <2>2, <2>3, <3>1, <3>2 DEF OperatorEvidence
    <2> QED BY <1>6, <2>3
  <1> QED BY <1>1, <1>2, <1>3, <1>4, <1>5, <1>7, EvidenceKept

LEMMA OperatorStartKeepsEvidence ==
  ASSUME EvidenceInv, TypeOK', NEW o \in Operators, OperatorStart(o)
  PROVE  EvidenceInv'
  <1>1. ASSUME NEW to, Act(o, "idle", to), UNCHANGED <<clock, intents, attempts, outputs>>,
               OperatorEvidence(to)
        PROVE  EvidenceInv'
    BY <1>1, OperatorKeepsEvidence DEF SteadyAttempt
  <1>2. ASSUME NEW i \in Intents, NEW runAt, NEW dependsOn, OpenIntent(o, i, runAt, dependsOn)
        PROVE  EvidenceInv'
    <2> DEFINE new == [NoIntent EXCEPT !.status = "pending", !.runAt = runAt,
                                       !.updatedAt = clock, !.dependsOn = dependsOn]
               next == [IdleOperator EXCEPT !.pc = "write", !.cur = i, !.snap = new]
    <2>1. new.attemptIds = {} /\ new.status = "pending"
      BY DEF NoIntent
    <2>2. Act(o, "idle", next) /\ PutIntent(i, TornIntent) /\ UNCHANGED <<clock, attempts, outputs>>
      BY <1>2 DEF OpenIntent, envVars
    <2>3. TornIntent.attemptIds = {} /\ TornIntent.status = "torn"
      BY DEF TornIntent, NoIntent
    <2> HIDE DEF new
    <2>4. next.snap = new /\ next.victims = {} /\ next.attempts = {}
      BY DEF IdleOperator
    <2> HIDE DEF next
    <2>5. OperatorEvidence(next)
      BY <2>1, <2>4 DEF OperatorEvidence, TargetOutcomes
    <2>6. \A a \in AttemptIds : SteadyAttempt(a)
      BY <2>2 DEF SteadyAttempt
    <2>7. PICK to, x : /\ Act(o, "idle", to) /\ OperatorEvidence(to)
                       /\ PutIntent(i, x) /\ x.attemptIds = {} /\ x.status \notin TargetOutcomes
      BY <2>2, <2>3, <2>5 DEF TargetOutcomes
    <2> QED BY <2>2, <2>6, <2>7, OperatorKeepsEvidence
  <1>3. CASE (\E i \in Intents : CreateDispatchRunIntent(o, i))
               \/ (\E i, j \in Intents : RetryDispatchRunIntent(o, i, j))
    BY <1>2, <1>3 DEF CreateDispatchRunIntent, RetryDispatchRunIntent
  <1>4. CASE \E i \in Intents : CancelRead(o, i)
    <2>1. PICK i \in Intents : CancelRead(o, i)
      BY <1>4
    <2> DEFINE canceled == [intents[i] EXCEPT !.status = "canceled", !.updatedAt = clock]
               to == [IdleOperator EXCEPT !.pc = "cancel", !.cur = i, !.snap = canceled]
    <2>2. intents[i] \in Intent /\ intents[i].attemptIds = {}
      BY <2>1 DEF CancelRead, EvidenceInv, TypeOK, StoreTypeOK, IntentEvidence, NoneYet, TargetOutcomes
    <2>3. canceled.attemptIds = {} /\ canceled.status = "canceled"
      BY <2>2 DEF Intent
    <2>4. Act(o, "idle", to) /\ UNCHANGED <<clock, intents, attempts, outputs>>
      BY <2>1 DEF CancelRead, storeVars, envVars, intentVars
    <2> HIDE DEF canceled
    <2>5. to.snap = canceled /\ to.victims = {} /\ to.attempts = {}
      BY DEF IdleOperator
    <2> HIDE DEF to
    <2>6. OperatorEvidence(to)
      BY <2>3, <2>5 DEF OperatorEvidence, TargetOutcomes
    <2> QED BY <1>1, <2>4, <2>6
  <1>5. CASE PruneList(o)
    <2>1. PICK listed \in SUBSET Intents :
            Act(o, "idle",
              [IdleOperator EXCEPT !.pc = "prune",
                 !.victims = {[id |-> i, attemptIds |-> intents[i].attemptIds] :
                                i \in {j \in listed : Prunable(intents[j])}}])
      BY <1>5 DEF PruneList
    <2> DEFINE victims == {[id |-> i, attemptIds |-> intents[i].attemptIds] :
                             i \in {j \in listed : Prunable(intents[j])}}
               to == [IdleOperator EXCEPT !.pc = "prune", !.victims = victims]
    <2>2. ASSUME NEW i \in Intents, Prunable(intents[i]), NEW a \in intents[i].attemptIds
          PROVE  Gone(a)
      <3>1. Used(a) /\ Old(intents[i])
        BY <2>2 DEF EvidenceInv, IntentEvidence, NoneYet, Prunable, Old
      <3>2. \A j \in Intents : a \in intents[j].attemptIds => j = i
        BY <2>2 DEF EvidenceInv, OneIntentEach
      <3> QED BY <3>1, <3>2 DEF Gone
    <2>3. \A v \in victims : \A a \in v.attemptIds : Gone(a)
      BY <2>2
    <2>4. Act(o, "idle", to) /\ UNCHANGED <<clock, intents, attempts, outputs>>
      BY <1>5, <2>1 DEF PruneList, storeVars, envVars, intentVars
    <2> HIDE DEF victims
    <2>5. to.pc = "prune" /\ to.victims = victims /\ to.attempts = {}
      BY DEF IdleOperator
    <2> HIDE DEF to
    <2>6. OperatorEvidence(to)
      BY <2>3, <2>5 DEF OperatorEvidence
    <2> QED BY <1>1, <2>4, <2>6
  <1> QED BY <1>3, <1>4, <1>5 DEF OperatorStart

LEMMA OperatorStepKeepsEvidence ==
  ASSUME EvidenceInv, TypeOK', NEW o \in Operators, OperatorStep(o) \/ OperatorCrash(o)
  PROVE  EvidenceInv'
  <1>1. operator[o] \in OperatorState /\ OperatorEvidence(operator[o])
    BY OperatorFields DEF EvidenceInv
  <1>2. OperatorEvidence(IdleOperator)
    BY DEF OperatorEvidence, IdleOperator
  <1>3. ASSUME NEW from, NEW to, Act(o, from, to), UNCHANGED <<clock, intents, attempts, outputs>>,
               OperatorEvidence(to)
        PROVE  EvidenceInv'
    BY <1>3, OperatorKeepsEvidence DEF SteadyAttempt
  <1>4. ASSUME NEW to, to.victims \subseteq operator[o].victims,
               to.attempts \subseteq operator[o].attempts, to.pc \notin {"write", "cancel"}
        PROVE  OperatorEvidence(to)
    BY <1>1, <1>4 DEF OperatorEvidence
  <1>5. CASE WriteIntent(o) \/ CancelWrite(o)
    <2>1. PICK from \in {"write", "cancel"} : Act(o, from, IdleOperator)
      BY <1>5 DEF WriteIntent, CancelWrite
    <2>2. PICK i, x : i = operator[o].cur /\ x = operator[o].snap
      OBVIOUS
    <2>3. i \in Intents /\ x.attemptIds = {} /\ x.status \notin TargetOutcomes
      BY <1>1, <2>1, <2>2, OperatorFields DEF Act, OperatorEvidence, EvidenceInv
    <2>4. (UNCHANGED intents \/ PutIntent(i, x)) /\ UNCHANGED <<clock, attempts, outputs>>
      BY <1>5, <2>2 DEF WriteIntent, CancelWrite, envVars, intentVars
    <2> QED BY <1>2, <2>1, <2>3, <2>4, OperatorKeepsEvidence DEF SteadyAttempt
  <1>6. CASE PruneNext(o)
    <2>1. PICK v \in operator[o].victims :
            Act(o, "prune", [operator[o] EXCEPT !.pc = "pruneClaim", !.cur = v.id,
                  !.victims = @ \ {v}, !.attempts = {a \in v.attemptIds : attempts[a] # "absent"}])
      BY <1>6 DEF PruneNext
    <2> DEFINE to == [operator[o] EXCEPT !.pc = "pruneClaim", !.cur = v.id,
                  !.victims = @ \ {v}, !.attempts = {a \in v.attemptIds : attempts[a] # "absent"}]
    <2>2. /\ Act(o, "prune", to) /\ to.pc = "pruneClaim"
          /\ to.victims \subseteq operator[o].victims /\ to.attempts \subseteq v.attemptIds
      BY <1>1, <2>1 DEF OperatorState
    <2> HIDE DEF to
    <2>3. OperatorEvidence(to)
      BY <1>1, <2>2 DEF OperatorEvidence
    <2>4. UNCHANGED <<clock, intents, attempts, outputs>>
      BY <1>6 DEF PruneNext, storeVars, envVars, intentVars
    <2> QED BY <1>3, <2>2, <2>3, <2>4
  <1>7. CASE PruneDone(o) \/ OperatorCrash(o)
    <2>1. UNCHANGED <<clock, intents, attempts, outputs>>
      BY <1>7 DEF PruneDone, OperatorCrash, Fault, storeVars, envVars, intentVars
    <2>2. PICK from : Act(o, from, IdleOperator)
      BY <1>7 DEF PruneDone, OperatorCrash
    <2> QED BY <1>2, <1>3, <2>1, <2>2
  <1>8. CASE PruneClaim(o) \/ PruneOutputs(o) \/ PruneAttempts(o)
    <2>1. PICK from, next \in {"pruneClaim", "pruneOutputs", "pruneAttempts", "pruneIntent"} :
            Act(o, from, [operator[o] EXCEPT !.pc = next])
      BY <1>8 DEF PruneClaim, PruneOutputs, PruneAttempts
    <2> DEFINE to == [operator[o] EXCEPT !.pc = next]
    <2>2. /\ Act(o, from, to) /\ to.pc = next
          /\ to.victims = operator[o].victims /\ to.attempts = operator[o].attempts
      BY <1>1, <2>1 DEF OperatorState
    <2> HIDE DEF to
    <2>3. OperatorEvidence(to)
      BY <1>4, <2>2
    <2>4. UNCHANGED <<clock, intents>>
      BY <1>8 DEF PruneClaim, PruneOutputs, PruneAttempts, envVars, intentVars
    <2>5. \A a \in AttemptIds : SteadyAttempt(a) \/ a \in operator[o].attempts
      BY <1>8 DEF PruneClaim, PruneOutputs, PruneAttempts, SteadyAttempt
    <2>6. \A a \in AttemptIds : SteadyAttempt(a) \/ Gone(a)
      BY <1>1, <2>5 DEF OperatorEvidence
    <2> QED BY <2>2, <2>3, <2>4, <2>6, OperatorKeepsEvidence
  <1>9. CASE PruneIntent(o)
    <2> DEFINE next == [operator[o] EXCEPT !.pc = "prune", !.cur = NoId, !.attempts = {}]
    <2>1. /\ Act(o, "pruneIntent", next) /\ next.pc = "prune"
          /\ next.victims = operator[o].victims /\ next.attempts = {}
      BY <1>1, <1>9 DEF PruneIntent, OperatorState
    <2> HIDE DEF next
    <2>2. OperatorEvidence(next)
      BY <1>4, <2>1
    <2>3. operator[o].cur \in Intents
      BY <2>1, OperatorFields DEF Act, EvidenceInv
    <2>4. NoIntent.attemptIds = {} /\ NoIntent.status \notin TargetOutcomes
      BY DEF NoIntent, TargetOutcomes
    <2>5. PutIntent(operator[o].cur, NoIntent) /\ UNCHANGED <<clock, attempts, outputs>>
      BY <1>9 DEF PruneIntent, envVars
    <2>6. PICK to, i, x :
            /\ Act(o, "pruneIntent", to) /\ OperatorEvidence(to)
            /\ i \in Intents /\ PutIntent(i, x)
            /\ x.attemptIds = {} /\ x.status \notin TargetOutcomes
      BY <2>1, <2>2, <2>3, <2>4, <2>5
    <2> QED BY <2>5, <2>6, OperatorKeepsEvidence DEF SteadyAttempt
  <1> QED BY <1>5, <1>6, <1>7, <1>8, <1>9 DEF OperatorStep

LEMMA EvidenceInvInit == Init => EvidenceInv
  <1> SUFFICES ASSUME Init PROVE EvidenceInv
    OBVIOUS
  <1>1. \A r \in Runners : runner[r].pc = "idle"
    BY DEF Init, InitRunner, IdleRunner
  <1>2. \A i \in Intents : intents[i].status = "absent" /\ intents[i].attemptIds = {}
    BY DEF Init, InitStore, NoIntent
  <1>3. \A o \in Operators : OperatorEvidence(operator[o])
    BY DEF Init, InitOperator, OperatorEvidence, IdleOperator
  <1>4. \A r \in Runners : RunnerEvidence(runner[r])
    BY <1>1, StepNames DEF RunnerEvidence, BeforeResult
  <1>5. \A i \in Intents : IntentEvidence(i)
    BY <1>2 DEF IntentEvidence, NoneYet, TargetOutcomes
  <1>6. HandsDiffer /\ OneIntentEach
    BY <1>1, <1>2, StepNames DEF HandsDiffer, BeforeResult, OneIntentEach
  <1> QED BY <1>3, <1>4, <1>5, <1>6, InitType DEF EvidenceInv

LEMMA EvidenceInvStep == EvidenceInv /\ [Next]_vars => EvidenceInv'
  <1> SUFFICES ASSUME EvidenceInv, [Next]_vars PROVE EvidenceInv'
    OBVIOUS
  <1>1. TypeOK'
    BY TypeStep DEF EvidenceInv
  <1>2. ASSUME UNCHANGED <<intents, attempts, outputs, runner, operator, nextAttempt, started>>,
               clock' \in {clock, clock + 1}
        PROVE  EvidenceInv'
    <2>1. HandsDiffer' /\ \A a : Used(a) => (Used(a))'
      BY <1>2, HandsStayWhenOperatorsAct
    <2>2. Onward
      BY <1>2, <2>1, DispatchConstants DEF Onward, EvidenceInv, TypeOK, StoreTypeOK, Clock
    <2>3. SteadyStore
      BY <1>2 DEF SteadyStore, SteadyAttempt
    <2> QED BY <1>1, <1>2, <2>1, <2>2, <2>3, EvidenceKept
  <1>3. CASE TimePasses \/ UNCHANGED vars
    BY <1>2, <1>3 DEF TimePasses, vars, storeVars, envVars, intentVars
  <1> QED BY <1>1, <1>3, RunnerKeepsItsEvidence, OperatorStartKeepsEvidence,
             OperatorStepKeepsEvidence DEF Next

(***************************************************************************)
(* A finished intent younger than the retention of a prune has its         *)
(* evidence on disk: the one attempt it names has the same status, its     *)
(* output exists and its target was started for this intent.  Runners that *)
(* were overtaken write only to attempts of their own, and a prune, which  *)
(* removes files long after it has read the list, removes only what is old.*)
(***************************************************************************)
THEOREM RecentHasEvidence == Spec => []RecentResultHasEvidence
  <1>1. EvidenceInv => RecentResultHasEvidence
    <2> SUFFICES ASSUME EvidenceInv, NEW i \in Intents, intents[i].status \in TargetOutcomes,
                        intents[i].updatedAt >= clock - Retention
                 PROVE  HasEvidence(i)
      BY DEF RecentResultHasEvidence
    <2>1. intents[i].updatedAt \in Int /\ clock - Retention \in Int
      BY DispatchConstants DEF EvidenceInv, TypeOK, StoreTypeOK, Intent, Clock
    <2>2. ~Old(intents[i])
      BY <2>1 DEF Old
    <2>3. IntentEvidence(i)
      BY DEF EvidenceInv
    <2> QED BY <2>2, <2>3 DEF IntentEvidence, HasEvidence
  <1> QED BY <1>1, EvidenceInvInit, EvidenceInvStep, PTL DEF Spec

-----------------------------------------------------------------------------
(***************************************************************************)
(* FinalOnceQuiet.  Of a process that has a quiet intent in hand, a runner *)
(* is about to read it or to find it terminal in what it read, and an      *)
(* operator prunes it; and who takes it in hand begins so.                 *)
(***************************************************************************)
HarmlessRunner(s) ==
  \/ s.pc = "read"
  \/ s.pc = "check" /\ isTerminalDispatchRunStatus(s.snap.status)

StaysFinal(i) ==
  \/ intents'[i].status = "absent"
  \/ /\ intents'[i] = intents[i]
     /\ started'[i] = started[i]
     /\ Quiet(i)'

LEMMA RunnerLeavesFinal ==
  ASSUME TypeOK, NEW i \in Intents, Quiet(i), NEW r \in Runners, NEW from, NEW to,
         Step(r, from, to), intents'[i] = intents[i], started'[i] = started[i],
         to.cur = i => HarmlessRunner(to)
  PROVE  StaysFinal(i)
  <1>1. runner'[r] = to /\ \A s \in Runners \ {r} : runner'[s] = runner[s]
    BY DEF Step, TypeOK, RunnerTypeOK
  <1>2. operator' = operator
    BY DEF Step
  <1>3. \A s \in Runners : runner'[s].cur = i =>
          runner'[s].pc = "read" \/ (runner'[s].pc = "check" /\ isTerminalDispatchRunStatus(runner'[s].snap.status))
    BY <1>1 DEF Quiet, HarmlessRunner
  <1> QED BY <1>2, <1>3 DEF StaysFinal, Quiet

LEMMA OperatorLeavesFinal ==
  ASSUME TypeOK, NEW i \in Intents, Quiet(i), NEW o \in Operators, NEW from, NEW to,
         Act(o, from, to), intents'[i] = intents[i],
         to.cur = i => to.pc \notin {"cancel", "write"}
  PROVE  StaysFinal(i)
  <1>1. operator'[o] = to /\ \A p \in Operators \ {o} : operator'[p] = operator[p]
    BY DEF Act, TypeOK, OperatorTypeOK
  <1>2. runner' = runner /\ started' = started
    BY DEF Act
  <1>3. \A p \in Operators : operator'[p].cur = i => operator'[p].pc \notin {"cancel", "write"}
    BY <1>1 DEF Quiet
  <1> QED BY <1>2, <1>3 DEF StaysFinal, Quiet

(* A runner that does not have the intent in hand, and goes on with what   *)
(* it has or leaves it, does not come to have it.                          *)
LEMMA RunnerKeepsFinal ==
  ASSUME TypeOK, NEW i \in Intents, Quiet(i), NEW r \in Runners,
         StartRun(r) \/ RunnerStep(r) \/ TryFails(r) \/ Crash(r)
  PROVE  StaysFinal(i)
  <1>1. /\ runner[r] \in RunnerState /\ NoId # i
        /\ runner[r].pc \notin {"idle", "next"} => runner[r].cur \in Intents
        /\ runner[r].cur = i => HarmlessRunner(runner[r])
    BY DispatchConstants DEF TypeOK, RunnerTypeOK, Quiet, HarmlessRunner
  <1>2. CASE \/ StartRun(r) \/ FinishRun(r) \/ Crash(r)
    <2>1. PICK from, to : Step(r, from, to) /\ to.cur = NoId
      <3>1. CASE StartRun(r)
        <4>1. PICK due : Step(r, "idle", [IdleRunner EXCEPT !.pc = "next", !.now = clock, !.due = due])
          BY <3>1 DEF StartRun
        <4>2. [IdleRunner EXCEPT !.pc = "next", !.now = clock, !.due = due].cur = NoId
          BY DEF IdleRunner
        <4> QED BY <4>1, <4>2
      <3>2. CASE FinishRun(r) \/ Crash(r)
        <4>1. Step(r, runner[r].pc, IdleRunner) /\ IdleRunner.cur = NoId
          BY <3>2 DEF FinishRun, Crash, Step, IdleRunner
        <4> QED BY <4>1
      <3> QED BY <1>2, <3>1, <3>2
    <2>2. intents' = intents /\ started' = started
      BY <1>2 DEF StartRun, FinishRun, Crash, Fault, storeVars, intentVars
    <2> QED BY <1>1, <2>1, <2>2, RunnerLeavesFinal
  <1>3. CASE NextDue(r)
    <2>1. PICK d \in runner[r].due :
            Step(r, "next", [runner[r] EXCEPT !.pc = "read", !.cur = d.id, !.due = @ \ {d}])
      BY <1>3 DEF NextDue
    <2>2. intents' = intents /\ started' = started
      BY <1>3 DEF NextDue, storeVars, intentVars
    <2>3. [runner[r] EXCEPT !.pc = "read", !.cur = d.id, !.due = @ \ {d}].pc = "read"
      BY <1>1 DEF RunnerState
    <2> QED BY <2>1, <2>2, <2>3, RunnerLeavesFinal DEF HarmlessRunner
  <1>4. CASE ClaimRead(r)
    <2>1. PICK to : /\ to = (IF Readable(intents[runner[r].cur])
                             THEN [runner[r] EXCEPT !.pc = "check", !.snap = intents[runner[r].cur]]
                             ELSE IdleRunner)
                    /\ Step(r, "read", to)
      BY <1>4 DEF ClaimRead
    <2>2. intents' = intents /\ started' = started
      BY <1>4 DEF ClaimRead, storeVars, intentVars
    <2>3. to.cur = i => to.pc = "check" /\ to.snap = intents[i]
      BY <1>1, <2>1 DEF RunnerState, IdleRunner
    <2> QED BY <2>1, <2>2, <2>3, RunnerLeavesFinal DEF HarmlessRunner, Quiet
  <1>5. CASE ClaimCheckDue(r)
    <2>1. PICK to : /\ to = (IF isDispatchIntentDue(runner[r].snap, runner[r].now)
                             THEN Goto(r, "claim") ELSE Leave(r))
                    /\ Step(r, "check", to)
      BY <1>5 DEF ClaimCheckDue
    <2>2. intents' = intents /\ started' = started
      BY <1>5 DEF ClaimCheckDue, storeVars, intentVars
    <2>3. runner[r].cur = i => ~ isDispatchIntentDue(runner[r].snap, runner[r].now)
      BY <1>1, <2>1 DEF HarmlessRunner, Step, isDispatchIntentDue, isTerminalDispatchRunStatus,
                        TerminalStatuses, TargetOutcomes
    <2>4. to.cur # i
      BY <1>1, <2>1, <2>3 DEF Goto, Leave, RunnerState
    <2> QED BY <2>1, <2>2, <2>4, RunnerLeavesFinal
  <1>6. CASE runner[r].cur # i /\ (MarkRunning(r) \/ FinishIntent(r))
    <2>1. PICK from, to, x : Step(r, from, to) /\ to.cur = runner[r].cur /\ PutIntent(runner[r].cur, x)
      BY <1>1, <1>6 DEF MarkRunning, FinishIntent, Goto, RunnerState
    <2>2. intents'[i] = intents[i] /\ started' = started
      BY <1>6, <2>1 DEF MarkRunning, FinishIntent, PutIntent, TypeOK, StoreTypeOK
    <2> QED BY <1>6, <2>1, <2>2, RunnerLeavesFinal
  <1>7. CASE runner[r].cur # i /\ WriteAttempt(r)
    <2>1. Step(r, "writeAttempt", Goto(r, "execute")) /\ Goto(r, "execute").cur = runner[r].cur
      BY <1>1, <1>7 DEF WriteAttempt, Goto, RunnerState
    <2>2. intents' = intents /\ started'[i] = started[i]
      BY <1>7 DEF WriteAttempt, intentVars, TypeOK, StoreTypeOK
    <2> QED BY <1>7, <2>1, <2>2, RunnerLeavesFinal
  <1>8. CASE runner[r].cur # i /\ \/ OpenClaim(r) \/ ClaimExists(r) \/ ReadClaim(r) \/ RemoveExpiredClaim(r)
                                  \/ ReopenClaim(r) \/ ReclaimLost(r) \/ WriteClaim(r) \/ FinishTarget(r)
                                  \/ WriteOutput(r) \/ FinishAttempt(r) \/ ReleaseClaim(r) \/ TryFails(r)
    <2>1. PICK from, to : /\ Step(r, from, to)
                          /\ \/ to = Leave(r)
                             \/ \E pc : to = Goto(r, pc)
                             \/ \E attempt : to = [runner[r] EXCEPT !.pc = "writeClaim", !.attempt = attempt]
                             \/ \E outcome : to = [runner[r] EXCEPT !.pc = "writeOutput", !.outcome = outcome]
                             \/ to = [runner[r] EXCEPT !.pc = "finishAttempt", !.finishedAt = clock]
                             \/ to = [runner[r] EXCEPT !.pc = "release", !.due = {}]
      <3>1. CASE ReadClaim(r)
        BY <3>1 DEF ReadClaim
      <3>2. CASE OpenClaim(r) \/ ReopenClaim(r)
        <4>1. PICK from : Step(r, from, [runner[r] EXCEPT !.pc = "writeClaim", !.attempt = nextAttempt])
          BY <3>2 DEF OpenClaim, ReopenClaim, CreateClaimFile
        <4> QED BY <4>1
      <3>3. CASE FinishTarget(r) \/ WriteOutput(r) \/ TryFails(r)
        BY <3>3 DEF FinishTarget, WriteOutput, TryFails
      <3>4. CASE \/ ClaimExists(r) \/ RemoveExpiredClaim(r) \/ ReclaimLost(r) \/ WriteClaim(r)
                 \/ FinishAttempt(r) \/ ReleaseClaim(r)
        BY <3>4 DEF ClaimExists, RemoveExpiredClaim, ReclaimLost, WriteClaim, FinishAttempt, ReleaseClaim
      <3> QED BY <1>8, <3>1, <3>2, <3>3, <3>4
    <2>2. to.cur \in {runner[r].cur, NoId}
      BY <1>1, <2>1 DEF Goto, Leave, RunnerState
    <2>3. intents' = intents /\ started' = started
      BY <1>8 DEF OpenClaim, ClaimExists, ReadClaim, RemoveExpiredClaim, ReopenClaim, ReclaimLost,
           CreateClaimFile, WriteClaim, FinishTarget, WriteOutput, FinishAttempt, ReleaseClaim, TryFails,
           Fault, storeVars, intentVars
    <2> QED BY <1>1, <1>8, <2>1, <2>2, <2>3, RunnerLeavesFinal
  <1>9. CASE runner[r].cur = i
    <2>1. runner[r].pc \in {"read", "check"}
      BY <1>1, <1>9 DEF HarmlessRunner
    <2>2. ClaimRead(r) \/ ClaimCheckDue(r) \/ Crash(r)
      BY <2>1 DEF StartRun, RunnerStep, TryFails, NextDue, FinishRun, OpenClaim, ClaimExists, ReadClaim,
           RemoveExpiredClaim, ReopenClaim, ReclaimLost, CreateClaimFile, WriteClaim, MarkRunning,
           WriteAttempt, FinishTarget, WriteOutput, FinishAttempt, FinishIntent, ReleaseClaim, Step, TrySteps
    <2> QED BY <1>2, <1>4, <1>5, <2>2
  <1> QED BY <1>2, <1>3, <1>4, <1>5, <1>6, <1>7, <1>8, <1>9 DEF RunnerStep

LEMMA OperatorKeepsFinal ==
  ASSUME TypeOK, NEW i \in Intents, Quiet(i), NEW o \in Operators,
         OperatorStart(o) \/ OperatorStep(o) \/ OperatorCrash(o)
  PROVE  StaysFinal(i)
  <1>1. /\ operator[o] \in OperatorState /\ NoId # i
        /\ operator[o].cur = i => operator[o].pc \notin {"cancel", "write"}
        /\ intents[i].status \notin {"absent", "torn", "pending"}
    BY DispatchConstants DEF TypeOK, OperatorTypeOK, Quiet, isTerminalDispatchRunStatus, TerminalStatuses, TargetOutcomes
  <1>2. ASSUME NEW j \in Intents, NEW runAt, NEW dependsOn, OpenIntent(o, j, runAt, dependsOn)
        PROVE  StaysFinal(i)
    <2>1. j # i
      BY <1>1, <1>2 DEF OpenIntent
    <2>2. PICK to, snap : Act(o, "idle", to) /\ to = [IdleOperator EXCEPT !.pc = "write", !.cur = j, !.snap = snap]
      BY <1>2 DEF OpenIntent
    <2>3. to.cur = j
      BY <2>2 DEF IdleOperator
    <2>4. intents'[i] = intents[i]
      BY <1>2, <2>1 DEF OpenIntent, PutIntent, TypeOK, StoreTypeOK
    <2> QED BY <2>1, <2>2, <2>3, <2>4, OperatorLeavesFinal
  <1>3. CASE \/ \E j \in Intents : CreateDispatchRunIntent(o, j)
             \/ \E j, k \in Intents : RetryDispatchRunIntent(o, j, k)
    BY <1>2, <1>3 DEF CreateDispatchRunIntent, RetryDispatchRunIntent
  <1>4. ASSUME NEW j \in Intents, CancelRead(o, j) PROVE StaysFinal(i)
    <2>1. j # i
      BY <1>1, <1>4 DEF CancelRead
    <2>2. PICK to, snap : Act(o, "idle", to) /\ to = [IdleOperator EXCEPT !.pc = "cancel", !.cur = j, !.snap = snap]
      BY <1>4 DEF CancelRead
    <2>3. to.cur = j
      BY <2>2 DEF IdleOperator
    <2>4. intents' = intents
      BY <1>4 DEF CancelRead, storeVars, intentVars
    <2> QED BY <2>1, <2>2, <2>3, <2>4, OperatorLeavesFinal
  <1>5. CASE PruneList(o) \/ PruneNext(o) \/ PruneDone(o) \/ PruneClaim(o) \/ PruneOutputs(o)
             \/ PruneAttempts(o) \/ OperatorCrash(o)
    <2> DEFINE Harmless(to) == to.pc \in {"idle", "prune", "pruneClaim", "pruneOutputs", "pruneAttempts",
                                          "pruneIntent"}
    <2>1. PICK from, to : Act(o, from, to) /\ Harmless(to)
      <3>1. CASE PruneList(o)
        <4>1. PICK victims : Act(o, "idle", [IdleOperator EXCEPT !.pc = "prune", !.victims = victims])
          BY <3>1 DEF PruneList
        <4>2. [IdleOperator EXCEPT !.pc = "prune", !.victims = victims].pc = "prune"
          BY DEF IdleOperator
        <4> QED BY <4>1, <4>2
      <3>2. CASE PruneNext(o)
        <4>1. PICK v \in operator[o].victims :
                Act(o, "prune",
                    [operator[o] EXCEPT !.pc = "pruneClaim", !.cur = v.id, !.victims = @ \ {v},
                                        !.attempts = {a \in v.attemptIds : attempts[a] # "absent"}])
          BY <3>2 DEF PruneNext
        <4>2. [operator[o] EXCEPT !.pc = "pruneClaim", !.cur = v.id, !.victims = @ \ {v},
                  !.attempts = {a \in v.attemptIds : attempts[a] # "absent"}].pc = "pruneClaim"
          BY <1>1 DEF OperatorState
        <4> QED BY <4>1, <4>2
      <3>3. CASE PruneDone(o) \/ OperatorCrash(o)
        <4>1. Act(o, operator[o].pc, IdleOperator) /\ IdleOperator.pc = "idle"
          BY <3>3 DEF PruneDone, OperatorCrash, Act, IdleOperator
        <4> QED BY <4>1
      <3>4. CASE PruneClaim(o) \/ PruneOutputs(o) \/ PruneAttempts(o)
        <4>1. PICK pc \in {"pruneOutputs", "pruneAttempts", "pruneIntent"} :
                Act(o, operator[o].pc, [operator[o] EXCEPT !.pc = pc])
          BY <3>4 DEF PruneClaim, PruneOutputs, PruneAttempts, Act
        <4>2. [operator[o] EXCEPT !.pc = pc].pc = pc
          BY <1>1 DEF OperatorState
        <4> QED BY <4>1, <4>2
      <3> QED BY <1>5, <3>1, <3>2, <3>3, <3>4
    <2>2. intents' = intents
      BY <1>5 DEF PruneList, PruneNext, PruneDone, PruneClaim, PruneOutputs, PruneAttempts, OperatorCrash,
                  Fault, storeVars, intentVars
    <2> QED BY <2>1, <2>2, OperatorLeavesFinal
  <1>6. CASE WriteIntent(o) \/ CancelWrite(o)
    <2>1. /\ operator[o].pc \in {"cancel", "write"} /\ IdleOperator.cur = NoId
          /\ \E from : Act(o, from, IdleOperator)
      BY <1>6 DEF WriteIntent, CancelWrite, Act, IdleOperator
    <2>2. intents'[i] = intents[i]
      BY <1>1, <1>6, <2>1 DEF WriteIntent, CancelWrite, PutIntent, intentVars, TypeOK, StoreTypeOK
    <2> QED BY <1>1, <2>1, <2>2, OperatorLeavesFinal
  <1>7. CASE PruneIntent(o)
    <2>1. PutIntent(operator[o].cur, NoIntent)
      BY <1>7 DEF PruneIntent
    <2>2. CASE operator[o].cur = i
      BY <2>1, <2>2 DEF PutIntent, NoIntent, TypeOK, StoreTypeOK, StaysFinal
    <2>3. CASE operator[o].cur # i
      <3>1. intents'[i] = intents[i]
        BY <2>1, <2>3 DEF PutIntent, TypeOK, StoreTypeOK
      <3>2. PICK to : /\ Act(o, "pruneIntent", to)
                      /\ to = [operator[o] EXCEPT !.pc = "prune", !.cur = NoId, !.attempts = {}]
        BY <1>7 DEF PruneIntent
      <3>3. to.cur = NoId
        BY <1>1, <3>2 DEF OperatorState
      <3> QED BY <1>1, <3>1, <3>2, <3>3, OperatorLeavesFinal
    <2> QED BY <2>2, <2>3
  <1> QED BY <1>3, <1>4, <1>5, <1>6, <1>7 DEF OperatorStart, OperatorStep

(***************************************************************************)
(* Whatever runners and operators are still at work on other intents, or   *)
(* have just listed this one: a terminal intent nobody read before it      *)
(* ended is not run again, and its record stays until it is pruned.        *)
(***************************************************************************)
THEOREM QuietIsFinal == Spec => FinalOnceQuiet
  <1>1. ASSUME TypeOK, [Next]_vars, NEW i \in Intents, Quiet(i) PROVE StaysFinal(i)
    <2>1. CASE TimePasses \/ UNCHANGED vars
      <3>1. UNCHANGED <<intents, started, runner, operator>>
        BY <2>1 DEF TimePasses, vars, storeVars, intentVars
      <3> QED BY <1>1, <3>1 DEF StaysFinal, Quiet
    <2> QED BY <1>1, <2>1, RunnerKeepsFinal, OperatorKeepsFinal DEF Next
  <1>2. TypeOK /\ [Next]_vars =>
          [\A i \in Intents :
             Quiet(i) =>
               \/ intents'[i].status = "absent"
               \/ /\ intents'[i] = intents[i]
                  /\ started'[i] = started[i]
                  /\ Quiet(i)']_vars
    BY <1>1 DEF StaysFinal
  <1> QED BY <1>2, TypeCorrect, PTL DEF Spec, FinalOnceQuiet
=============================================================================
