--------------------------- MODULE DispatchOperator ---------------------------
(***************************************************************************)
(* The commands an operator runs on the dispatch directory while runners   *)
(* work in it: create (and the enqueue commands that end in a create),     *)
(* cancel, retry and prune.  Each is a process of its own; it reads files  *)
(* in one step and writes or removes them in later ones.                   *)
(***************************************************************************)
EXTENDS DispatchStore

OperatorSteps == {"idle", "write", "cancel", "prune", "pruneClaim", "pruneOutputs",
                  "pruneAttempts", "pruneIntent"}

(* What a prune has read of an intent it will remove.                      *)
Victim == [id : Intents, attemptIds : SUBSET AttemptIds]

IdleOperator == [pc |-> "idle", cur |-> NoId, snap |-> NoIntent,
                 victims |-> {}, attempts |-> {}]

OperatorState == [
  pc : OperatorSteps,
  cur : Intents \cup {NoId},
  snap : Intent,
  victims : SUBSET Victim,
  attempts : SUBSET AttemptIds]

OperatorTypeOK ==
  /\ operator \in [Operators -> OperatorState]
  /\ \A o \in Operators : operator[o].pc \notin {"idle", "prune"} => operator[o].cur \in Intents

InitOperator == operator = [o \in Operators |-> IdleOperator]

----------------------------------------------------------------------------
Act(o, from, to) ==
  /\ operator[o].pc = from
  /\ operator' = [operator EXCEPT ![o] = to]
  /\ UNCHANGED <<runner, nextAttempt, started>>

(* Mutant of OpenIntent: open(path, "w").                                  *)
ReplaceIntent(o, i, runAt, dependsOn) ==
  /\ PutIntent(i, TornIntent)
  /\ Act(o, "idle",
         [IdleOperator EXCEPT
            !.pc = "write", !.cur = i,
            !.snap = [NoIntent EXCEPT !.status = "pending", !.runAt = runAt,
                                      !.updatedAt = clock, !.dependsOn = dependsOn]])
  /\ UNCHANGED <<envVars, attempts, outputs, claims, takenOver>>

(***************************************************************************)
(* open(path, "wx") of a new intent: it fails, changing nothing, where a   *)
(* file is.  The record written afterwards is made before the open.        *)
(***************************************************************************)
OpenIntent(o, i, runAt, dependsOn) ==
  /\ intents[i].status = "absent"
  /\ PutIntent(i, TornIntent)
  /\ Act(o, "idle",
         [IdleOperator EXCEPT
            !.pc = "write", !.cur = i,
            !.snap = [NoIntent EXCEPT !.status = "pending", !.runAt = runAt,
                                      !.updatedAt = clock, !.dependsOn = dependsOn]])
  /\ UNCHANGED <<envVars, attempts, outputs, claims, takenOver>>

(* createDispatchRunIntent: runAt is the caller's or the present.          *)
CreateDispatchRunIntent(o, i) ==
  \E runAt \in RunAtParams \cup {clock}, dependsOn \in DependencyParams :
    OpenIntent(o, i, runAt, dependsOn)

(* retryDispatchRunIntent: a new id for the work of a terminal intent,     *)
(* with its dependencies, which no write changes after the create.         *)
RetryDispatchRunIntent(o, original, i) ==
  /\ isTerminalDispatchRunStatus(intents[original].status)
  /\ \E runAt \in RunAtParams \cup {clock} :
       OpenIntent(o, i, runAt, intents[original].dependsOn)

(* The content of a new intent, if its empty file is still there.          *)
WriteIntent(o) ==
  LET i == operator[o].cur IN
  /\ Act(o, "write", IdleOperator)
  /\ IF intents[i].status = "torn" THEN PutIntent(i, operator[o].snap)
                                  ELSE UNCHANGED intentVars
  /\ UNCHANGED <<envVars, attempts, outputs, claims, takenOver>>

(* cancelDispatchRunIntent reads a pending intent...                       *)
CancelRead(o, i) ==
  /\ intents[i].status = "pending"
  /\ Act(o, "idle", [IdleOperator EXCEPT
                       !.pc = "cancel", !.cur = i,
                       !.snap = [intents[i] EXCEPT !.status = "canceled", !.updatedAt = clock]])
  /\ UNCHANGED <<storeVars, takenOver>>

(* ... and replaces the file, without the claim and without a second look. *)
CancelWrite(o) ==
  /\ Act(o, "cancel", IdleOperator)
  /\ PutIntent(operator[o].cur, operator[o].snap)
  /\ UNCHANGED <<envVars, attempts, outputs, claims, takenOver>>

----------------------------------------------------------------------------
(* pruneDispatchRunHistory                                                 *)
(* Mutant of Prunable: off by one at the edge of the retention window.     *)
PrunableAtTheEdge(intent) ==
  isTerminalDispatchRunStatus(intent.status) /\ intent.updatedAt <= clock - Retention

Prunable(intent) ==
  isTerminalDispatchRunStatus(intent.status) /\ intent.updatedAt < clock - Retention

PruneList(o) ==
  /\ \E listed \in SUBSET Intents :
       /\ listDispatchRunIntents(listed)
       /\ Act(o, "idle",
              [IdleOperator EXCEPT !.pc = "prune",
                 !.victims = {[id |-> i, attemptIds |-> intents[i].attemptIds] :
                                i \in {j \in listed : Prunable(intents[j])}}])
  /\ UNCHANGED <<storeVars, takenOver>>

(* The attempts of the next victim that can be read are the ones removed.  *)
PruneNext(o) ==
  /\ \E v \in operator[o].victims :
       Act(o, "prune",
           [operator[o] EXCEPT !.pc = "pruneClaim", !.cur = v.id, !.victims = @ \ {v},
                               !.attempts = {a \in v.attemptIds : attempts[a] # "absent"}])
  /\ UNCHANGED <<storeVars, takenOver>>

PruneDone(o) ==
  /\ operator[o].victims = {}
  /\ Act(o, "prune", IdleOperator)
  /\ UNCHANGED <<storeVars, takenOver>>

PruneClaim(o) ==
  /\ Act(o, "pruneClaim", [operator[o] EXCEPT !.pc = "pruneOutputs"])
  /\ releaseDispatchRunClaim(operator[o].cur)
  /\ takenOver' = takenOver \cup {operator[o].cur}
  /\ UNCHANGED <<envVars, intentVars, attempts, outputs>>

(* A finished attempt names its output; a running one has none yet.        *)
PruneOutputs(o) ==
  /\ Act(o, "pruneOutputs", [operator[o] EXCEPT !.pc = "pruneAttempts"])
  /\ outputs' = outputs \ operator[o].attempts
  /\ UNCHANGED <<envVars, intentVars, attempts, claims, takenOver>>

PruneAttempts(o) ==
  /\ Act(o, "pruneAttempts", [operator[o] EXCEPT !.pc = "pruneIntent"])
  /\ attempts' = [a \in AttemptIds |-> IF a \in operator[o].attempts THEN "absent"
                                                                  ELSE attempts[a]]
  /\ UNCHANGED <<envVars, intentVars, outputs, claims, takenOver>>

PruneIntent(o) ==
  /\ Act(o, "pruneIntent", [operator[o] EXCEPT !.pc = "prune", !.cur = NoId, !.attempts = {}])
  /\ PutIntent(operator[o].cur, NoIntent)
  /\ UNCHANGED <<envVars, attempts, outputs, claims, takenOver>>

(* The command dies where it is: a torn intent, or half a prune, remains.  *)
OperatorCrash(o) ==
  /\ Fault
  /\ operator[o].pc # "idle"
  /\ Act(o, operator[o].pc, IdleOperator)
  /\ UNCHANGED takenOver

OperatorStart(o) ==
  \/ "create" \in Commands /\ \E i \in Intents : CreateDispatchRunIntent(o, i)
  \/ "retry" \in Commands /\ \E i, j \in Intents : RetryDispatchRunIntent(o, i, j)
  \/ "cancel" \in Commands /\ \E i \in Intents : CancelRead(o, i)
  \/ "prune" \in Commands /\ PruneList(o)

OperatorStep(o) ==
  \/ WriteIntent(o) \/ CancelWrite(o)
  \/ PruneNext(o) \/ PruneDone(o) \/ PruneClaim(o) \/ PruneOutputs(o)
  \/ PruneAttempts(o) \/ PruneIntent(o)

=============================================================================
