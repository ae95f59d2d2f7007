---------------------------- MODULE DispatchRunner ----------------------------
(***************************************************************************)
(* runDueDispatchRuns: a process that lists the due intents once, then     *)
(* claims and executes them one after the other.  Every await of the code  *)
(* is a step, so any other process may act between two of them.            *)
(*                                                                         *)
(* `runner[r].now` is the time the run started: the code reads the clock   *)
(* once and judges due-ness, claims and leases by that time for the whole  *)
(* batch.                                                                  *)
(***************************************************************************)
EXTENDS DispatchStore

(* Where a runner is in the claim protocol and in the execution.           *)
ClaimSteps == {"read", "check", "claim", "readClaim", "removeClaim", "reclaim"}
TrySteps == {"writeAttempt", "execute", "writeOutput", "finishAttempt",
             "finishIntent"}
ClaimedSteps == {"writeClaim", "markRunning"} \cup TrySteps \cup {"release"}
RunnerSteps == {"idle", "next"} \cup ClaimSteps \cup ClaimedSteps

Due == [id : Intents, runAt : Clock]

(* The state of a process between two runs.                                *)
IdleRunner == [pc |-> "idle", now |-> 0, due |-> {}, cur |-> NoId,
               snap |-> NoIntent, attempt |-> NoAttempt,
               outcome |-> "failed", finishedAt |-> 0]

RunnerState == [
  pc : RunnerSteps,
  now : Clock,
  due : SUBSET Due,
  cur : Intents \cup {NoId},
  snap : Intent,
  attempt : AttemptIds \cup {NoAttempt},
  outcome : TargetOutcomes,
  finishedAt : Clock]

RunnerTypeOK ==
  /\ runner \in [Runners -> RunnerState]
  /\ \A r \in Runners : runner[r].pc \notin {"idle", "next"} => runner[r].cur \in Intents
  /\ \A r \in Runners : runner[r].pc \in ClaimedSteps => runner[r].attempt \in AttemptIds

InitRunner == runner = [r \in Runners |-> IdleRunner]

----------------------------------------------------------------------------
(* Runner r, at step `from`, goes on with the local state `to`.            *)
Step(r, from, to) ==
  /\ runner[r].pc = from
  /\ runner' = [runner EXCEPT ![r] = to]
  /\ UNCHANGED operator

(* Runner r only moves on to step `to`.                                    *)
Goto(r, to) == [runner[r] EXCEPT !.pc = to]

(* The intent r was working on is done with, or not to be had.             *)
Leave(r) == [runner[r] EXCEPT !.pc = "next", !.cur = NoId, !.snap = NoIntent,
             !.attempt = NoAttempt, !.outcome = "failed", !.finishedAt = 0]

(* Attempts are bounded: a run starts while ids remain for all it and its  *)
(* competitors may claim.                                                  *)
AttemptsRemain ==
  nextAttempt + Cardinality(Intents) * Cardinality(Runners) <= MaxAttempts + 1

(***************************************************************************)
(* The due intents of the list, cut at the limit of the run.  The claim    *)
(* reads and checks each of them again: the list only narrows down what is *)
(* tried, so it is taken in one step.                                      *)
(***************************************************************************)
DueBatch(batch) ==
  \E listed \in SUBSET Intents :
    /\ listDispatchRunIntents(listed)
    /\ FirstByRunAt({i \in listed : isDispatchIntentDue(intents[i], clock)}, RunLimit, batch)

StartRun(r) ==
  /\ AttemptsRemain
  /\ \E batch \in SUBSET Intents :
       /\ DueBatch(batch)
       /\ Step(r, "idle",
               [IdleRunner EXCEPT !.pc = "next", !.now = clock,
                  !.due = {[id |-> i, runAt |-> intents[i].runAt] : i \in batch}])
  /\ UNCHANGED <<storeVars, nextAttempt, started, takenOver>>

NextDue(r) ==
  /\ \E d \in runner[r].due :
       /\ \A x \in runner[r].due : d.runAt <= x.runAt
       /\ Step(r, "next", [runner[r] EXCEPT !.pc = "read", !.cur = d.id, !.due = @ \ {d}])
  /\ UNCHANGED <<storeVars, nextAttempt, started, takenOver>>

FinishRun(r) ==
  /\ runner[r].due = {}
  /\ Step(r, "next", IdleRunner)
  /\ UNCHANGED <<storeVars, nextAttempt, started, takenOver>>

----------------------------------------------------------------------------
(* claimDispatchRunIntent                                                  *)

(* A missing or unreadable intent throws, and that ends the whole run.     *)
ClaimRead(r) ==
  LET current == intents[runner[r].cur] IN
  /\ Step(r, "read", IF Readable(current)
                     THEN [runner[r] EXCEPT !.pc = "check", !.snap = current]
                     ELSE IdleRunner)
  /\ UNCHANGED <<storeVars, nextAttempt, started, takenOver>>

(* Mutant of ClaimCheckDue: the listing is trusted, and not looked at      *)
(* again.                                                                  *)
ClaimTrustsList(r) ==
  /\ Step(r, "check", Goto(r, "claim"))
  /\ UNCHANGED <<storeVars, nextAttempt, started, takenOver>>

ClaimCheckDue(r) ==
  /\ Step(r, "check", IF isDispatchIntentDue(runner[r].snap, runner[r].now)
                      THEN Goto(r, "claim")
                      ELSE Leave(r))
  /\ UNCHANGED <<storeVars, nextAttempt, started, takenOver>>

(* Mutant of CreateClaimFile: open(claimPath, "w").                        *)
CreateOrReplaceClaimFile(r, from) ==
  LET i == runner[r].cur IN
  /\ nextAttempt \in AttemptIds
  /\ Step(r, from, [runner[r] EXCEPT !.pc = "writeClaim", !.attempt = nextAttempt])
  /\ claims' = [claims EXCEPT ![i] = [NoClaim EXCEPT !.status = "torn", !.attempt = nextAttempt]]
  /\ nextAttempt' = nextAttempt + 1
  /\ UNCHANGED <<envVars, intentVars, attempts, outputs, started, takenOver>>

(* open(claimPath, "wx") on a path where no file is.  An id is left, since *)
(* AttemptsRemain held when the run started.                               *)
CreateClaimFile(r, from) ==
  LET i == runner[r].cur IN
  /\ nextAttempt \in AttemptIds
  /\ Step(r, from, [runner[r] EXCEPT !.pc = "writeClaim", !.attempt = nextAttempt])
  /\ claims[i].status = "absent"
  /\ claims' = [claims EXCEPT ![i] = [NoClaim EXCEPT !.status = "torn", !.attempt = nextAttempt]]
  /\ nextAttempt' = nextAttempt + 1
  /\ UNCHANGED <<envVars, intentVars, attempts, outputs, started, takenOver>>

OpenClaim(r) == CreateClaimFile(r, "claim")

ClaimExists(r) ==
  /\ Step(r, "claim", Goto(r, "readClaim"))
  /\ claims[runner[r].cur].status # "absent"
  /\ UNCHANGED <<storeVars, nextAttempt, started, takenOver>>

(* Mutant of ReadClaim: a claim is left whether its lease has expired or   *)
(* not.                                                                    *)
RespectClaimForever(r) ==
  /\ Step(r, "readClaim", Leave(r))
  /\ UNCHANGED <<storeVars, nextAttempt, started, takenOver>>

(* A claim that cannot be read, or whose lease has not expired, is left.   *)
ReadClaim(r) ==
  LET existing == claims[runner[r].cur]
      expired == existing.status = "written" /\ existing.leaseExpiresAt <= runner[r].now
  IN
  /\ Step(r, "readClaim", IF expired THEN Goto(r, "removeClaim") ELSE Leave(r))
  /\ UNCHANGED <<storeVars, nextAttempt, started, takenOver>>

(* rm(claimPath, force): whatever claim is there by now.                   *)
RemoveExpiredClaim(r) ==
  LET i == runner[r].cur IN
  /\ Step(r, "removeClaim", Goto(r, "reclaim"))
  /\ releaseDispatchRunClaim(i)
  /\ takenOver' = takenOver \cup {i}
  /\ UNCHANGED <<envVars, intentVars, attempts, outputs, nextAttempt, started>>

ReopenClaim(r) == CreateClaimFile(r, "reclaim")

(* Mutant of ReclaimLost: the EEXIST of the second open is not looked at.  *)
ReclaimLostIgnored(r) ==
  /\ Step(r, "reclaim", Goto(r, "markRunning"))
  /\ claims[runner[r].cur].status # "absent"
  /\ UNCHANGED <<storeVars, nextAttempt, started, takenOver>>

ReclaimLost(r) ==
  /\ Step(r, "reclaim", Leave(r))
  /\ claims[runner[r].cur].status # "absent"
  /\ UNCHANGED <<storeVars, nextAttempt, started, takenOver>>

(* handle.writeFile: to the file the handle was opened on, if it is still  *)
(* there.                                                                  *)
WriteClaim(r) ==
  LET i == runner[r].cur
      a == runner[r].attempt
  IN
  /\ Step(r, "writeClaim", Goto(r, "markRunning"))
  /\ claims' = IF claims[i].attempt = a
               THEN [claims EXCEPT ![i] = [status |-> "written", attempt |-> a,
                                           leaseExpiresAt |-> runner[r].now + LeaseMs]]
               ELSE claims
  /\ UNCHANGED <<envVars, intentVars, attempts, outputs, nextAttempt, started, takenOver>>

(* The intent goes to running from the snapshot read before the claim.     *)
MarkRunning(r) ==
  LET running == [runner[r].snap EXCEPT !.status = "running", !.updatedAt = runner[r].now,
                                        !.leaseExpiresAt = runner[r].now + LeaseMs]
  IN
  /\ Step(r, "markRunning", [runner[r] EXCEPT !.pc = "writeAttempt", !.snap = running])
  /\ PutIntent(runner[r].cur, running)
  /\ UNCHANGED <<envVars, attempts, outputs, claims, nextAttempt, started, takenOver>>

----------------------------------------------------------------------------
(* The try block of runDueDispatchRuns, and its finally                    *)

WriteAttempt(r) ==
  LET a == runner[r].attempt IN
  /\ Step(r, "writeAttempt", Goto(r, "execute"))
  /\ attempts' = [attempts EXCEPT ![a] = "running"]
  /\ started' = [started EXCEPT ![runner[r].cur] = @ \cup {a}]
  /\ UNCHANGED <<envVars, intentVars, outputs, claims, nextAttempt, takenOver>>

(* executeDispatchRunTarget returns: every error of a target is an         *)
(* outcome "failed", never an exception.                                   *)
FinishTarget(r) ==
  /\ \E outcome \in TargetOutcomes :
       Step(r, "execute", [runner[r] EXCEPT !.pc = "writeOutput", !.outcome = outcome])
  /\ UNCHANGED <<storeVars, nextAttempt, started, takenOver>>

WriteOutput(r) ==
  /\ Step(r, "writeOutput", [runner[r] EXCEPT !.pc = "finishAttempt", !.finishedAt = clock])
  /\ outputs' = outputs \cup {runner[r].attempt}
  /\ UNCHANGED <<envVars, intentVars, attempts, claims, nextAttempt, started, takenOver>>

FinishAttempt(r) ==
  /\ Step(r, "finishAttempt", Goto(r, "finishIntent"))
  /\ attempts' = [attempts EXCEPT ![runner[r].attempt] = runner[r].outcome]
  /\ UNCHANGED <<envVars, intentVars, outputs, claims, nextAttempt, started, takenOver>>

(* The finished intent is built from the claim's snapshot and replaces     *)
(* whatever the file holds by now.                                         *)
FinishedIntent(r) ==
  [runner[r].snap EXCEPT !.status = runner[r].outcome, !.updatedAt = runner[r].finishedAt,
                         !.attemptIds = @ \cup {runner[r].attempt}, !.leaseExpiresAt = 0]

FinishIntent(r) ==
  /\ Step(r, "finishIntent", Goto(r, "release"))
  /\ PutIntent(runner[r].cur, FinishedIntent(r))
  /\ UNCHANGED <<envVars, attempts, outputs, claims, nextAttempt, started, takenOver>>

ReleaseClaim(r) ==
  /\ Step(r, "release", Leave(r))
  /\ releaseDispatchRunClaim(runner[r].cur)
  /\ UNCHANGED <<envVars, intentVars, attempts, outputs, nextAttempt, started, takenOver>>

(* A file operation of the try block throws: the claim is released and the *)
(* error ends the run.  Counted with the crashes.                          *)
TryFails(r) ==
  /\ Fault
  /\ runner[r].pc \in TrySteps \ {"execute"}
  /\ Step(r, runner[r].pc, [runner[r] EXCEPT !.pc = "release", !.due = {}])
  /\ UNCHANGED <<nextAttempt, started, takenOver>>

(* The process dies where it is; the next run is a new process.            *)
Crash(r) ==
  /\ Fault
  /\ runner[r].pc # "idle"
  /\ Step(r, runner[r].pc, IdleRunner)
  /\ UNCHANGED <<nextAttempt, started, takenOver>>

RunnerStep(r) ==
  \/ NextDue(r) \/ FinishRun(r)
  \/ ClaimRead(r) \/ ClaimCheckDue(r) \/ OpenClaim(r) \/ ClaimExists(r)
  \/ ReadClaim(r) \/ RemoveExpiredClaim(r) \/ ReopenClaim(r) \/ ReclaimLost(r)
  \/ WriteClaim(r) \/ MarkRunning(r)
  \/ WriteAttempt(r) \/ FinishTarget(r) \/ WriteOutput(r) \/ FinishAttempt(r)
  \/ FinishIntent(r) \/ ReleaseClaim(r)

=============================================================================
