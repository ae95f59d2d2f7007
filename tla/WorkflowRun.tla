----------------------------- MODULE WorkflowRun -----------------------------
(***************************************************************************)
(* A run of a workflow script: a child process that starts turns and waits *)
(* for them through its host, the process that has spawned it and ends it  *)
(* when its time is over.  The app-server with its threads is external.    *)
(* Spawning, the context sent to the child and the listeners on its exit   *)
(* are one step: the child cannot exit before the host awaits it.          *)
(***************************************************************************)
EXTENDS Naturals, FiniteSets

CONSTANTS
  WorkflowTurns,   \* the turns the script may start
  WaitTimeout, PollInterval,   \* of turn.wait
  ThrowOnFailure,  \* the option of turn.wait
  EmptyReads       \* bound: reads of a thread whose rollout is still empty

ASSUME WorkflowConstants ==
  WaitTimeout \in Nat /\ PollInterval \in Nat /\ EmptyReads \in Nat

VARIABLES
  run,         \* the host: "none", "running", "killed", "result" or "error"
  script,      \* the child: "none", "running", "returned", "thrown", "gone"
  starts,      \* the calls of turn.start, one for every turn
  waits,       \* the polling of turn.waitAll, one for every turn
  waitAll,     \* the call of turn.waitAll
  threads,     \* the app-server: the threads started for a turn
  turnState,   \* the app-server: the status of every turn
  emptyReads

workflowVars == <<run, script, starts, waits, waitAll, threads, turnState,
                  emptyReads>>

(* A wait has some time left, and sleeps for some of it.                   *)
NoWait == [pc |-> "none", left |-> 0, sleep |-> 0, seen |-> "none"]
FailureStatus == {"failed", "interrupted"}
EndStatus == {"completed"} \cup FailureStatus

WorkflowInit ==
  /\ run = "none" /\ script = "none"
  /\ starts = [t \in WorkflowTurns |-> "none"]
  /\ waits = [t \in WorkflowTurns |-> NoWait]
  /\ waitAll = [pc |-> "none", turns |-> {}]
  /\ threads = [t \in WorkflowTurns |-> FALSE]
  /\ turnState = [t \in WorkflowTurns |-> "none"]
  /\ emptyReads = 0

runWorkflowScript ==
  /\ run = "none"
  /\ run' = "running" /\ script' = "running"
  /\ UNCHANGED <<starts, waits, waitAll, threads, turnState, emptyReads>>

----------------------------------------------------------------------------
(* The script: callHost sends, and what it awaits is up to the script.     *)
ScriptLives == script = "running" /\ run \in {"running", "killed"}

callStart(t) ==
  /\ ScriptLives /\ starts[t] = "none"
  /\ starts' = [starts EXCEPT ![t] = "sent"]
  /\ UNCHANGED <<run, script, waits, waitAll, threads, turnState, emptyReads>>

callWaitAll ==
  LET known == {t \in WorkflowTurns : starts[t] = "answered"} IN
  /\ ScriptLives /\ waitAll.pc = "none" /\ known # {}
  /\ waitAll' = [pc |-> "sent", turns |-> known]
  /\ UNCHANGED <<run, script, starts, waits, threads, turnState, emptyReads>>

(* The module returns or throws, having awaited its calls or not; the      *)
(* result is the last line with its prefix, then the channel is closed.    *)
ScriptEnds(how) ==
  /\ ScriptLives
  /\ script' = how
  /\ UNCHANGED <<run, starts, waits, waitAll, threads, turnState, emptyReads>>

----------------------------------------------------------------------------
(* The host: a call is handled whatever becomes of the child meanwhile.    *)
(* sendChildMessage: an answer to a closed channel is dropped.             *)
AnswerOf(done) == IF ScriptLives THEN done ELSE "dropped"

(* startWorkflowTurnWithRequest: a thread, then a turn on it.              *)
startThread(t) ==
  /\ starts[t] = "sent"
  /\ starts' = [starts EXCEPT ![t] = "threadStarted"]
  /\ threads' = [threads EXCEPT ![t] = TRUE]
  /\ UNCHANGED <<run, script, waits, waitAll, turnState, emptyReads>>

startTurn(t) ==
  /\ starts[t] = "threadStarted"
  /\ turnState' = [turnState EXCEPT ![t] = "inProgress"]
  /\ starts' = [starts EXCEPT ![t] = AnswerOf("answered")]
  /\ UNCHANGED <<run, script, waits, waitAll, threads, emptyReads>>

(* Either request may fail; a thread that was started remains.             *)
startFails(t) ==
  /\ starts[t] \in {"sent", "threadStarted"}
  /\ starts' = [starts EXCEPT ![t] = AnswerOf("rejected")]
  /\ UNCHANGED <<run, script, waits, waitAll, threads, turnState, emptyReads>>

(* Promise.all over one waitWorkflowTurnWithRequest per turn.              *)
handleWaitAll ==
  /\ waitAll.pc = "sent"
  /\ waitAll' = [waitAll EXCEPT !.pc = "handled"]
  /\ waits' = [t \in WorkflowTurns |->
       IF t \in waitAll.turns
       THEN [pc |-> "read", left |-> WaitTimeout, sleep |-> 0, seen |-> "none"]
       ELSE NoWait]
  /\ UNCHANGED <<run, script, starts, threads, turnState, emptyReads>>

Overdue(t) == waits[t].left = 0
NextLook(t) == IF PollInterval < waits[t].left THEN PollInterval ELSE waits[t].left

WaitStep(t, to) ==
  /\ waits' = [waits EXCEPT ![t] = to]
  /\ UNCHANGED <<run, script, starts, waitAll, threads, turnState>>

(* The app-server answers thread/read; the answer travels back.            *)
readTurn(t) ==
  /\ waits[t].pc = "read"
  /\ WaitStep(t, [waits[t] EXCEPT !.pc = "seen", !.seen = turnState[t]])
  /\ UNCHANGED emptyReads

(* isTransientThreadReadError: the rollout of the thread is still empty.   *)
readEmpty(t) ==
  /\ waits[t].pc = "read" /\ turnState[t] = "inProgress"
  /\ emptyReads < EmptyReads /\ emptyReads' = emptyReads + 1
  /\ WaitStep(t, [waits[t] EXCEPT !.pc = "seen", !.seen = "empty"])

readFails(t) ==
  /\ waits[t].pc = "read"
  /\ WaitStep(t, [waits[t] EXCEPT !.pc = "rejected", !.seen = "error"])
  /\ UNCHANGED emptyReads

(* Mutant of SettleWait: the time is checked before the status.            *)
SettleWaitByTime(t) ==
  LET seen == waits[t].seen IN
  /\ waits[t].pc = "seen"
  /\ WaitStep(t,
       CASE Overdue(t) -> [waits[t] EXCEPT !.pc = "timedOut"]
         [] ~Overdue(t) /\ seen \in FailureStatus /\ ThrowOnFailure -> [waits[t] EXCEPT !.pc = "rejected"]
         [] ~Overdue(t) /\ seen \in {"inProgress", "empty"} ->
              [waits[t] EXCEPT !.pc = "asleep", !.sleep = NextLook(t)]
         [] OTHER -> [waits[t] EXCEPT !.pc = "ended"])
  /\ UNCHANGED emptyReads

SettleWait(t) ==
  LET seen == waits[t].seen
      unfinished == seen \in {"inProgress", "empty"} IN
  /\ waits[t].pc = "seen"
  /\ WaitStep(t,
       CASE unfinished /\ Overdue(t) -> [waits[t] EXCEPT !.pc = "timedOut"]
         [] unfinished /\ ~Overdue(t) -> [waits[t] EXCEPT !.pc = "asleep", !.sleep = NextLook(t)]
         [] seen \in FailureStatus /\ ThrowOnFailure -> [waits[t] EXCEPT !.pc = "rejected"]
         [] OTHER -> [waits[t] EXCEPT !.pc = "ended"])
  /\ UNCHANGED emptyReads

lookAgain(t) ==
  /\ waits[t].pc = "asleep" /\ waits[t].sleep = 0
  /\ WaitStep(t, [waits[t] EXCEPT !.pc = "read"])
  /\ UNCHANGED emptyReads

(* Mutant of settleWaitAll: rejections are left to the other waits.        *)
settleWaitAllEnded ==
  LET pcs == {waits[t].pc : t \in waitAll.turns} IN
  /\ waitAll.pc = "handled" /\ pcs = {"ended"}
  /\ waitAll' = [waitAll EXCEPT !.pc = AnswerOf("answered")]
  /\ UNCHANGED <<run, script, starts, waits, threads, turnState, emptyReads>>

(* The first rejection rejects the call, the other waits go on.            *)
settleWaitAll ==
  LET pcs == {waits[t].pc : t \in waitAll.turns} IN
  /\ waitAll.pc = "handled"
  /\ \/ pcs = {"ended"} /\ waitAll' = [waitAll EXCEPT !.pc = AnswerOf("answered")]
     \/ pcs \cap {"rejected", "timedOut"} # {} /\ waitAll' = [waitAll EXCEPT !.pc = AnswerOf("rejected")]
  /\ UNCHANGED <<run, script, starts, waits, threads, turnState, emptyReads>>

timeOut ==
  /\ run = "running" /\ script # "gone"
  /\ run' = "killed"
  /\ UNCHANGED <<script, starts, waits, waitAll, threads, turnState, emptyReads>>

(* The child is gone: it ended by itself, or the signal ended it.  A       *)
(* result counts if the exit code is 0.                                    *)
childExits(clean) ==
  /\ \/ script = "returned" /\ clean
     \/ script = "thrown" /\ ~clean
     \/ script \in {"running", "returned", "thrown"} /\ run = "killed" /\ ~clean
  /\ script' = "gone"
  /\ run' = IF clean /\ script = "returned" THEN "result" ELSE "error"
  /\ UNCHANGED <<starts, waits, waitAll, threads, turnState, emptyReads>>

----------------------------------------------------------------------------
TurnEnds(t, status) ==
  /\ turnState[t] = "inProgress"
  /\ turnState' = [turnState EXCEPT ![t] = status]
  /\ UNCHANGED <<run, script, starts, waits, waitAll, threads, emptyReads>>

(* Time passes for the waits that go on.                                   *)
WaitingTurns(t) == waits[t].pc \in {"read", "seen", "asleep"}
WorkflowTick ==
  /\ \E t \in WorkflowTurns : WaitingTurns(t) /\ waits[t].left > 0
  /\ waits' = [t \in WorkflowTurns |->
       IF WaitingTurns(t) /\ waits[t].left > 0
       THEN [waits[t] EXCEPT !.left = @ - 1, !.sleep = IF @ = 0 THEN 0 ELSE @ - 1]
       ELSE waits[t]]
  /\ UNCHANGED <<run, script, starts, waitAll, threads, turnState, emptyReads>>

HostWaits(t) == readTurn(t) \/ readEmpty(t) \/ readFails(t) \/ SettleWait(t) \/ lookAgain(t)
HostStarts(t) == startThread(t) \/ startTurn(t) \/ startFails(t)

WorkflowNext ==
  \/ runWorkflowScript \/ callWaitAll \/ handleWaitAll \/ settleWaitAll \/ timeOut
  \/ \E how \in {"returned", "thrown"} : ScriptEnds(how)
  \/ \E clean \in BOOLEAN : childExits(clean)
  \/ \E t \in WorkflowTurns :
       \/ callStart(t) \/ HostStarts(t) \/ HostWaits(t)
       \/ \E status \in EndStatus : TurnEnds(t, status)
  \/ WorkflowTick

(* The timer fires, the signal ends the child, promises are settled and    *)
(* the app-server answers; nothing says that a turn or a script ends.      *)
WorkflowFairness ==
  /\ WF_workflowVars(timeOut)
  /\ WF_workflowVars(\E clean \in BOOLEAN : childExits(clean))
  /\ WF_workflowVars(handleWaitAll) /\ WF_workflowVars(settleWaitAll)
  /\ WF_workflowVars(WorkflowTick)
  /\ \A t \in WorkflowTurns :
       WF_workflowVars(HostStarts(t)) /\ WF_workflowVars(HostWaits(t))

WorkflowSpec == WorkflowInit /\ [][WorkflowNext]_workflowVars

----------------------------------------------------------------------------
(***************************************************************************)
(* What a wait ends with is what the app-server says: it returns for a     *)
(* turn that has ended, with the status the turn has; it throws for one    *)
(* that has failed, if it is to; and it is never out of time for a turn it *)
(* has just seen the end of, however late the answer came.  After waitAll  *)
(* the script goes on with turns that have all ended.                      *)
(***************************************************************************)
WaitsTellTheTruth ==
  /\ \A t \in WorkflowTurns :
       /\ waits[t].pc = "ended" => /\ waits[t].seen = turnState[t]
                                   /\ turnState[t] \in EndStatus
                                   /\ ThrowOnFailure => turnState[t] \notin FailureStatus
       /\ waits[t].pc = "timedOut" => waits[t].seen \in {"inProgress", "empty"} /\ Overdue(t)
  /\ waitAll.pc = "answered" => \A t \in waitAll.turns : turnState[t] \in EndStatus

(***************************************************************************)
(* A run comes to an end, however long its script and its turns take, and  *)
(* every call of its script is settled though the child may be gone.       *)
(***************************************************************************)
RunEnds ==
  /\ run = "running" ~> run \in {"result", "error"}
  /\ \A t \in WorkflowTurns :
       starts[t] = "sent" ~> starts[t] \in {"answered", "rejected", "dropped"}
  /\ waitAll.pc = "sent" ~> waitAll.pc \in {"answered", "rejected", "dropped"}

=============================================================================
