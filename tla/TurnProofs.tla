----------------------------- MODULE TurnProofs -----------------------------
(***************************************************************************)
(* Proofs about turns and commands: the turns that a workflow starts and   *)
(* waits for, what a turn tells of its progress, what a command tells of   *)
(* its turn, and which workflow a name means.                              *)
(***************************************************************************)
EXTENDS WorkflowRun, WorkflowCatalog, ThreadProgress, CommandLine, FiniteSetTheorems, SequenceTheorems, TLAPS

-----------------------------------------------------------------------------
(***************************************************************************)
(* The waits of a workflow, for any turns and any timeouts.                *)
(***************************************************************************)
SeenOf == {"none", "inProgress", "empty", "error"} \cup EndStatus
WaitOf == [pc : {"none", "read", "seen", "asleep", "ended", "rejected", "timedOut"},
           left : Nat, sleep : Nat, seen : SeenOf]

WorkflowShape ==
  /\ starts \in [WorkflowTurns -> {"none", "sent", "threadStarted", "answered", "rejected", "dropped"}]
  /\ waits \in [WorkflowTurns -> WaitOf]
  /\ waitAll \in [pc : {"none", "sent", "handled", "answered", "rejected", "dropped"},
                  turns : SUBSET WorkflowTurns]
  /\ turnState \in [WorkflowTurns -> {"none", "inProgress"} \cup EndStatus]

(* A turn has a status from its answered start on, and only such turns are *)
(* waited for; a wait that saw an end saw the last status the turn has.    *)
TurnTold(t) ==
  /\ starts[t] \in {"none", "sent", "threadStarted"} => turnState[t] = "none"
  /\ starts[t] = "answered" => turnState[t] # "none"
  /\ t \in waitAll.turns => starts[t] = "answered"

WaitTold(t) ==
  /\ waits[t].pc # "none" => t \in waitAll.turns /\ waitAll.pc \notin {"none", "sent"}
  /\ waits[t].seen \in EndStatus => waits[t].seen = turnState[t]
  /\ waits[t].pc = "seen" => waits[t].seen \in {"inProgress", "empty"} \cup EndStatus
  /\ waits[t].pc = "ended" => /\ waits[t].seen \in EndStatus
                              /\ ThrowOnFailure => waits[t].seen \notin FailureStatus
  /\ waits[t].pc = "timedOut" => waits[t].seen \in {"inProgress", "empty"} /\ waits[t].left = 0

WorkflowInv ==
  /\ WorkflowShape
  /\ \A t \in WorkflowTurns : TurnTold(t) /\ WaitTold(t)
  /\ waitAll.pc = "answered" => \A t \in waitAll.turns : waits[t].pc = "ended"

LEMMA WaitsStart == WorkflowInit => WorkflowInv
  BY WorkflowConstants
  DEF WorkflowInit, WorkflowInv, WorkflowShape, TurnTold, WaitTold, NoWait, WaitOf, SeenOf, EndStatus, FailureStatus

(* One wait moves on, and the others and the turns stay as they are.       *)
LEMMA WaitMoves ==
  ASSUME WorkflowInv, NEW t \in WorkflowTurns, NEW to \in WaitOf, WaitStep(t, to),
         waits[t].pc \in {"read", "seen", "asleep"},
         to.pc # "none",
         to.seen \in EndStatus => to.seen = turnState[t],
         to.pc = "seen" => to.seen \in {"inProgress", "empty"} \cup EndStatus,
         to.pc = "ended" => /\ to.seen \in EndStatus
                            /\ ThrowOnFailure => to.seen \notin FailureStatus,
         to.pc = "timedOut" => to.seen \in {"inProgress", "empty"} /\ to.left = 0
  PROVE  WorkflowInv'
  <1>1. WorkflowShape'
    BY DEF WorkflowInv, WorkflowShape, WaitStep
  <1>2. \A s \in WorkflowTurns : TurnTold(s)'
    BY DEF WorkflowInv, TurnTold, WaitStep
  <1>3. WaitTold(t)'
    BY DEF WorkflowInv, WorkflowShape, WaitTold, WaitStep
  <1>4. \A s \in WorkflowTurns \ {t} : WaitTold(s)'
    BY DEF WorkflowInv, WorkflowShape, WaitTold, WaitStep
  <1>5. (waitAll.pc = "answered" => \A s \in waitAll.turns : waits[s].pc = "ended")'
    BY DEF WorkflowInv, WorkflowShape, WaitTold, WaitStep
  <1> QED BY <1>1, <1>2, <1>3, <1>4, <1>5 DEF WorkflowInv

LEMMA HostWaitsKeep ==
  ASSUME WorkflowInv, NEW t \in WorkflowTurns, HostWaits(t)
  PROVE  WorkflowInv'
  <1>w. waits[t] \in WaitOf /\ WaitTold(t) /\ TurnTold(t) /\ turnState[t] \in {"none", "inProgress"} \cup EndStatus
    BY DEF WorkflowInv, WorkflowShape
  <1>1. CASE readTurn(t)
    BY <1>1, <1>w, WaitMoves DEF readTurn, WaitOf, SeenOf, WaitTold, TurnTold
  <1>2. CASE readEmpty(t)
    BY <1>2, <1>w, WaitMoves DEF readEmpty, WaitOf, SeenOf, EndStatus, FailureStatus
  <1>3. CASE readFails(t)
    BY <1>3, <1>w, WaitMoves DEF readFails, WaitOf, SeenOf, EndStatus, FailureStatus
  <1>4. CASE SettleWait(t)
    <2>1. PICK to \in WaitOf :
            /\ WaitStep(t, to) /\ to.seen = waits[t].seen
            /\ \/ to.pc = "timedOut" /\ to.seen \in {"inProgress", "empty"} /\ to.left = 0
               \/ to.pc \in {"asleep", "rejected"}
               \/ to.pc = "ended" /\ to.seen \in EndStatus /\ (ThrowOnFailure => to.seen \notin FailureStatus)
      <3>1. NextLook(t) \in Nat
        BY <1>w, WorkflowConstants DEF NextLook, WaitOf
      <3>2. waits[t].pc = "seen" /\ waits[t].seen \in {"inProgress", "empty"} \cup EndStatus
        BY <1>4, <1>w DEF SettleWait, WaitTold
      <3>3. CASE waits[t].seen \in {"inProgress", "empty"}
        <4>1. CASE Overdue(t)
          BY <1>4, <1>w, <3>3, <4>1 DEF SettleWait, WaitOf, Overdue
        <4>2. CASE ~Overdue(t)
          <5>1. WaitStep(t, [waits[t] EXCEPT !.pc = "asleep", !.sleep = NextLook(t)])
            BY <1>4, <3>3, <4>2 DEF SettleWait, FailureStatus
          <5>2. [waits[t] EXCEPT !.pc = "asleep", !.sleep = NextLook(t)] \in WaitOf
            BY <1>w, <3>1 DEF WaitOf
          <5> QED BY <1>w, <5>1, <5>2 DEF WaitOf
        <4> QED BY <4>1, <4>2
      <3>4. CASE waits[t].seen \in EndStatus
        BY <1>4, <1>w, <3>2, <3>4 DEF SettleWait, WaitOf, EndStatus, FailureStatus
      <3> QED BY <3>2, <3>3, <3>4
    <2> QED BY <1>4, <1>w, <2>1, WaitMoves DEF WaitTold, SettleWait
  <1>5. CASE lookAgain(t)
    BY <1>5, <1>w, WaitMoves DEF lookAgain, WaitOf, WaitTold
  <1> QED BY <1>1, <1>2, <1>3, <1>4, <1>5 DEF HostWaits

LEMMA StartsKeep ==
  ASSUME WorkflowInv, NEW t \in WorkflowTurns,
         \/ callStart(t) \/ HostStarts(t) \/ \E status \in EndStatus : TurnEnds(t, status)
  PROVE  WorkflowInv'
  <1> USE DEF AnswerOf
  <1>0. UNCHANGED <<waits, waitAll>>
    BY DEF callStart, HostStarts, startThread, startTurn, startFails, TurnEnds
  <1>1. WorkflowShape'
    BY <1>0 DEF WorkflowInv, WorkflowShape, callStart, HostStarts, startThread, startTurn, startFails, TurnEnds
  <1>2. TurnTold(t)' /\ WaitTold(t)'
    <2>1. TurnTold(t) /\ WaitTold(t) /\ WorkflowShape
      BY DEF WorkflowInv
    <2>2. CASE callStart(t)
      BY <2>1, <2>2, <1>0 DEF callStart, TurnTold, WaitTold, WorkflowShape
    <2>3. CASE startThread(t)
      BY <2>1, <2>3, <1>0 DEF startThread, TurnTold, WaitTold, WorkflowShape
    <2>4. CASE startTurn(t)
      BY <2>1, <2>4, <1>0 DEF startTurn, TurnTold, WaitTold, WorkflowShape, EndStatus, FailureStatus
    <2>5. CASE startFails(t)
      BY <2>1, <2>5, <1>0 DEF startFails, TurnTold, WaitTold, WorkflowShape
    <2>6. ASSUME NEW status \in EndStatus, TurnEnds(t, status) PROVE TurnTold(t)' /\ WaitTold(t)'
      BY <2>1, <2>6, <1>0 DEF TurnEnds, TurnTold, WaitTold, WorkflowShape, EndStatus, FailureStatus
    <2> QED BY <2>2, <2>3, <2>4, <2>5, <2>6 DEF HostStarts
  <1>3. \A s \in WorkflowTurns \ {t} : starts'[s] = starts[s] /\ turnState'[s] = turnState[s]
    BY DEF WorkflowInv, WorkflowShape, callStart, HostStarts, startThread, startTurn, startFails, TurnEnds
  <1>4. \A s \in WorkflowTurns \ {t} : TurnTold(s)' /\ WaitTold(s)'
    BY <1>0, <1>3 DEF WorkflowInv, TurnTold, WaitTold
  <1> QED BY <1>0, <1>1, <1>2, <1>4 DEF WorkflowInv

LEMMA CallsKeep ==
  ASSUME WorkflowInv, callWaitAll \/ handleWaitAll \/ settleWaitAll
  PROVE  WorkflowInv'
  <1>0. UNCHANGED <<starts, turnState>>
    BY DEF callWaitAll, handleWaitAll, settleWaitAll
  <1>1. CASE callWaitAll
    BY <1>0, <1>1 DEF WorkflowInv, WorkflowShape, TurnTold, WaitTold, callWaitAll
  <1>2. CASE handleWaitAll
    <2>1. WorkflowShape'
      BY <1>0, <1>2, WorkflowConstants DEF WorkflowInv, WorkflowShape, handleWaitAll, NoWait, WaitOf, SeenOf
    <2>2. \A s \in WorkflowTurns : TurnTold(s)' /\ WaitTold(s)'
      BY <1>0, <1>2 DEF WorkflowInv, WorkflowShape, TurnTold, WaitTold, handleWaitAll, NoWait, EndStatus, FailureStatus
    <2> QED BY <1>2, <2>1, <2>2 DEF WorkflowInv, WorkflowShape, handleWaitAll
  <1>3. CASE settleWaitAll
    <2>1. waits' = waits /\ waitAll'.turns = waitAll.turns
      BY <1>3 DEF WorkflowInv, WorkflowShape, settleWaitAll
    <2>2. WorkflowShape' /\ waitAll.pc = "handled" /\ waitAll'.pc \in {"answered", "rejected", "dropped"}
      BY <1>0, <1>3 DEF WorkflowInv, WorkflowShape, settleWaitAll, AnswerOf
    <2>3. \A s \in WorkflowTurns : TurnTold(s)' /\ WaitTold(s)'
      BY <1>0, <2>1, <2>2 DEF WorkflowInv, TurnTold, WaitTold
    <2>4. waitAll'.pc = "answered" => \A s \in waitAll.turns : waits[s].pc = "ended"
      BY <1>3 DEF WorkflowInv, WorkflowShape, settleWaitAll, AnswerOf
    <2> QED BY <2>1, <2>2, <2>3, <2>4 DEF WorkflowInv
  <1> QED BY <1>1, <1>2, <1>3

LEMMA TickKeeps ==
  ASSUME WorkflowInv, WorkflowTick
  PROVE  WorkflowInv'
  <1>1. \A t \in WorkflowTurns :
          /\ waits'[t] \in WaitOf
          /\ waits'[t].pc = waits[t].pc /\ waits'[t].seen = waits[t].seen
          /\ waits[t].pc = "timedOut" => waits'[t].left = waits[t].left
    <2> TAKE t \in WorkflowTurns
    <2>1. waits[t] \in WaitOf
      BY DEF WorkflowInv, WorkflowShape
    <2>2. CASE ~(WaitingTurns(t) /\ waits[t].left > 0)
      BY <2>1, <2>2 DEF WorkflowTick
    <2>3. CASE WaitingTurns(t) /\ waits[t].left > 0
      <3>1. waits'[t] = [waits[t] EXCEPT !.left = @ - 1, !.sleep = IF @ = 0 THEN 0 ELSE @ - 1]
        BY <2>3 DEF WorkflowTick
      <3>2. waits[t].left - 1 \in Nat /\ (waits[t].sleep # 0 => waits[t].sleep - 1 \in Nat)
        BY <2>1, <2>3 DEF WaitOf
      <3>3. waits[t].pc # "timedOut"
        BY <2>3 DEF WaitingTurns
      <3> QED BY <2>1, <3>1, <3>2, <3>3 DEF WaitOf
    <2> QED BY <2>2, <2>3
  <1>2. waits' \in [WorkflowTurns -> WaitOf]
    BY <1>1 DEF WorkflowTick
  <1>3. UNCHANGED <<starts, waitAll, turnState>>
    BY DEF WorkflowTick
  <1>4. \A t \in WorkflowTurns : TurnTold(t)' /\ WaitTold(t)'
    BY <1>1, <1>3 DEF WorkflowInv, TurnTold, WaitTold
  <1> QED BY <1>1, <1>2, <1>3, <1>4 DEF WorkflowInv, WorkflowShape

LEMMA WaitsStep == WorkflowInv /\ [WorkflowNext]_workflowVars => WorkflowInv'
  <1> SUFFICES ASSUME WorkflowInv, [WorkflowNext]_workflowVars PROVE WorkflowInv'
    OBVIOUS
  <1>1. CASE UNCHANGED <<starts, waits, waitAll, turnState>>
    BY <1>1 DEF WorkflowInv, WorkflowShape, TurnTold, WaitTold
  <1>2. CASE \/ runWorkflowScript \/ timeOut \/ UNCHANGED workflowVars
             \/ \E how \in {"returned", "thrown"} : ScriptEnds(how)
             \/ \E clean \in BOOLEAN : childExits(clean)
    BY <1>1, <1>2 DEF runWorkflowScript, timeOut, ScriptEnds, childExits, workflowVars
  <1>3. CASE WorkflowTick
    BY <1>3, TickKeeps
  <1>4. CASE callWaitAll \/ handleWaitAll \/ settleWaitAll
    BY <1>4, CallsKeep
  <1>5. ASSUME NEW t \in WorkflowTurns, HostWaits(t) PROVE WorkflowInv'
    BY <1>5, HostWaitsKeep
  <1>6. ASSUME NEW t \in WorkflowTurns,
               callStart(t) \/ HostStarts(t) \/ \E status \in EndStatus : TurnEnds(t, status)
        PROVE  WorkflowInv'
    BY <1>6, StartsKeep
  <1> QED BY <1>2, <1>3, <1>4, <1>5, <1>6 DEF WorkflowNext

(* For any turns: what a wait ends with is what the app-server says.       *)
THEOREM WaitsAreTrue == WorkflowSpec => []WaitsTellTheTruth
  <1>1. WorkflowInv => WaitsTellTheTruth
    BY DEF WorkflowInv, WorkflowShape, WaitsTellTheTruth, WaitTold, Overdue, EndStatus
  <1> QED BY <1>1, WaitsStart, WaitsStep, PTL DEF WorkflowSpec

-----------------------------------------------------------------------------
(***************************************************************************)
(* The messages of a thread, for any turns and parts of a summary.         *)
(***************************************************************************)
Message == [ready : BOOLEAN, delivered : BOOLEAN, text : Nat \X Nat]

ThreadShape ==
  /\ turn \in Nat /\ 1 .. turn \subseteq Turns /\ live \in BOOLEAN /\ (live => turn \in Turns)
  /\ said \in [progressMessageId -> Nat] /\ summaryAt \in Nat /\ (~live => summaryAt = 0)
  /\ answers \in [Turns -> Nat]
  /\ summaryBuffers \in [Spoken -> Nat] /\ agentMessageBuffers \in [AgentMessages -> Nat]
  /\ messages \in [progressMessageId -> Message]
  /\ finalAnswer \in [turn : Nat, text : Nat \X Nat, ready : BOOLEAN]
  /\ showing \subseteq progressMessageId
  /\ shown \in [progressMessageId -> SUBSET (Nat \X Nat)]

ActiveTold ==
  IF live THEN activeTurnId = turn /\ turnStatus = "inProgress" /\ runningCommands \subseteq {turn}
  ELSE activeTurnId = NoTurn /\ turnStatus # "inProgress" /\ runningCommands = {}

Runs(t) == live /\ t = turn

(* A message is ready when all of it is said; only such a one is shown.    *)
ReadyTold(id) ==
  /\ messages[id].ready => messages[id].text = TextOf(id, said[id])
  /\ shown[id] \subseteq {TextOf(id, said[id])}
  /\ shown[id] # {} => messages[id].ready
  /\ id[2] > turn => said[id] = 0 /\ ~messages[id].ready

(* What is said of a summary is ready or in its buffer, all of it, and in  *)
(* the buffer as long as more may be said.                                 *)
SummaryTold(t, i) ==
  LET m == Summary(t, i) IN
  /\ summaryBuffers[m] \in {0, said[m]}
  /\ Runs(t) => /\ messages[m].ready => i + 1 < summaryAt
                /\ i + 1 >= summaryAt => summaryBuffers[m] = said[m]
                /\ messages[m].ready \/ summaryBuffers[m] = said[m]
  /\ t <= turn /\ ~Runs(t) /\ said[m] # 0 => messages[m].ready

(* What an agent's message says is ready or in its buffer, all of it.       *)
CommentaryTold(t) ==
  ~messages[Commentary(t)].ready => agentMessageBuffers[Commentary(t)] = said[Commentary(t)]

AnswerTold(t) ==
  /\ agentMessageBuffers[Final(t)] = said[Final(t)]
  /\ Runs(t) /\ answers[t] # 0 => finalAnswer.text = <<t, answers[t]>>
  /\ t <= turn /\ ~Runs(t) /\ answers[t] # 0
       => messages[Final(t)].ready /\ messages[Final(t)].text = <<t, answers[t]>>
  /\ t > turn => answers[t] = 0

ThreadInv ==
  /\ ThreadShape /\ ActiveTold
  /\ \A id \in Spoken : ReadyTold(id)
  /\ \A t \in Turns, i \in Parts : SummaryTold(t, i)
  /\ \A t \in Turns : CommentaryTold(t) /\ AnswerTold(t)

LEMMA Numbers ==
  /\ Turns \subseteq Nat \ {0} /\ Parts \subseteq Nat
  /\ Cardinality(Parts) \in Nat /\ \A i \in Parts : i < Cardinality(Parts)
  /\ Deltas \in [Turns -> Nat]
  <1>1. Cardinality(Turns) \in Nat /\ Cardinality(Parts) \in Nat
    BY ThreadConstants, FS_CardinalityType
  <1>2. \A t \in Turns : t \in 1 .. Cardinality(Turns)
    BY ThreadConstants
  <1>3. \A i \in Parts : i \in 0 .. Cardinality(Parts) - 1
    BY ThreadConstants
  <1> QED BY <1>1, <1>2, <1>3, ThreadConstants

LEMMA Ids ==
  /\ \A id \in Spoken : /\ id \in progressMessageId /\ id[2] \in Turns /\ id[1] # "final"
                        /\ \/ id = Commentary(id[2])
                           \/ \E i \in Parts : id = Summary(id[2], i)
  /\ \A t \in Turns : /\ Commentary(t) \in Spoken /\ Final(t) \in progressMessageId \ Spoken
                      /\ Commentary(t)[2] = t /\ Final(t)[2] = t
  /\ \A t \in Turns, i \in Parts : Summary(t, i) \in Spoken /\ Summary(t, i)[2] = t
  /\ \A t, s \in Turns, i, j \in Parts : Summary(t, i) = Summary(s, j) => t = s /\ i = j
  /\ \A t, s \in Turns, i \in Parts : Summary(t, i) # Commentary(s) /\ Summary(t, i) # Final(s)
  /\ \A t, s \in Turns : /\ Commentary(t) # Final(s) /\ (Final(t) = Final(s) => t = s)
                         /\ Commentary(t) = Commentary(s) => t = s
  /\ \A t \in Turns : Commentary(t) \in AgentMessages /\ Final(t) \in AgentMessages
  /\ AgentMessages \subseteq progressMessageId
  BY DEF Spoken, progressMessageId, AgentMessages, Summary, Commentary, Final

LEMMA Texts ==
  /\ \A id \in Spoken, n \in Nat : TextOf(id, n) \in Nat \X Nat
  /\ \A t \in Turns, n \in Nat : <<t, n>> \in Nat \X Nat
  BY Ids, Numbers DEF TextOf

LEMMA ThreadStart == ThreadInit => ThreadInv
  <1> SUFFICES ASSUME ThreadInit PROVE ThreadInv
    OBVIOUS
  <1>1. ThreadShape
    <2> USE DEF NoTurn, NoText, NoBuffer, NoMessage, NoAnswer
    <2>1. <<0, 0>> \in Nat \X Nat
      OBVIOUS
    <2>2. messages \in [progressMessageId -> Message]
      <3>1. [ready |-> FALSE, delivered |-> FALSE, text |-> <<0, 0>>] \in Message
        BY <2>1 DEF Message
      <3> QED BY <3>1 DEF ThreadInit
    <2>3. finalAnswer \in [turn : Nat, text : Nat \X Nat, ready : BOOLEAN]
      BY <2>1 DEF ThreadInit
    <2>4. turn = 0 /\ ~live /\ live \in BOOLEAN /\ summaryAt = 0 /\ showing = {} /\ said \in [progressMessageId -> Nat]
      BY DEF ThreadInit
    <2>5. answers \in [Turns -> Nat] /\ summaryBuffers \in [Spoken -> Nat] /\ agentMessageBuffers \in [AgentMessages -> Nat]
      BY DEF ThreadInit
    <2>6. shown \in [progressMessageId -> SUBSET (Nat \X Nat)]
      BY DEF ThreadInit
    <2>7. \A t \in 1 .. turn : t \in Turns
      BY <2>4
    <2> QED BY <2>2, <2>3, <2>4, <2>5, <2>6, <2>7 DEF ThreadShape
  <1>2. ActiveTold
    BY DEF ThreadInit, ActiveTold
  <1>3. \A id \in Spoken : ReadyTold(id)
    BY Numbers, Ids DEF ThreadInit, ReadyTold, NoText, NoMessage, NoTurn
  <1>4. \A t \in Turns, i \in Parts : SummaryTold(t, i)
    BY Numbers, Ids DEF ThreadInit, SummaryTold, Runs, NoBuffer, NoText, NoTurn
  <1>5. \A t \in Turns : CommentaryTold(t) /\ AnswerTold(t)
    BY Numbers, Ids DEF ThreadInit, CommentaryTold, AnswerTold, Runs, NoBuffer, NoText, NoTurn
  <1> QED BY <1>1, <1>2, <1>3, <1>4, <1>5 DEF ThreadInv

----------------------------------------------------------------------------
(* The messages with some texts that are the whole of what was said.       *)
LEMMA Progress ==
  ASSUME ThreadShape, NEW texts,
         \A id \in DOMAIN texts : id \in progressMessageId /\ texts[id] \in Nat \X Nat
  PROVE  /\ WithProgress(texts) \in [progressMessageId -> Message]
         /\ \A id \in progressMessageId :
              IF id \in DOMAIN texts
              THEN WithProgress(texts)[id].ready /\ WithProgress(texts)[id].text = texts[id]
              ELSE WithProgress(texts)[id] = messages[id]
  BY DEF ThreadShape, WithProgress, Message

(* Steps that only tell which turn and which commands are active.          *)
LEMMA ActiveKeeps ==
  ASSUME ThreadInv, planUpdated \/ commandStarted \/ outputDelta \/ commandCompleted
  PROVE  ThreadInv'
  <1>1. /\ live /\ UNCHANGED <<turn, live, said, summaryAt, answers, summaryBuffers,
                                agentMessageBuffers, messages, finalAnswer, showing, shown>>
        /\ runningCommands' \subseteq runningCommands \cup {turn}
        /\ activeTurnId' \in {activeTurnId, turn} /\ turnStatus' \in {turnStatus, "inProgress"}
    BY DEF planUpdated, commandStarted, outputDelta, commandCompleted, serverVars, consumerVars
  <1>2. ActiveTold'
    BY <1>1 DEF ThreadInv, ActiveTold
  <1>3. ThreadShape'
    BY <1>1 DEF ThreadInv, ThreadShape
  <1>4. \A id \in Spoken : ReadyTold(id)'
    BY <1>1 DEF ThreadInv, ReadyTold
  <1>5. \A t \in Turns, i \in Parts : SummaryTold(t, i)'
    BY <1>1 DEF ThreadInv, SummaryTold, Runs
  <1>6. \A t \in Turns : CommentaryTold(t)' /\ AnswerTold(t)'
    BY <1>1 DEF ThreadInv, CommentaryTold, AnswerTold, Runs
  <1> QED BY <1>2, <1>3, <1>4, <1>5, <1>6 DEF ThreadInv

LEMMA TurnStartKeeps ==
  ASSUME ThreadInv, turnStarted
  PROVE  ThreadInv'
  <1>1. /\ ~live /\ turn \in Nat /\ turn' = turn + 1 /\ turn' \in Turns /\ live'
        /\ UNCHANGED <<said, summaryAt, answers, summaryBuffers, agentMessageBuffers, messages,
                       finalAnswer, showing, shown>>
        /\ summaryAt = 0
    BY DEF turnStarted, ThreadInv, ThreadShape, consumerVars
  <1>2. ActiveTold'
    BY <1>1 DEF turnStarted, ThreadInv, ActiveTold
  <1>3. ThreadShape'
    BY <1>1 DEF ThreadInv, ThreadShape
  <1>4. \A id \in Spoken : ReadyTold(id)'
    BY <1>1, Ids, Numbers DEF ThreadInv, ReadyTold
  <1>5. \A t \in Turns, i \in Parts : SummaryTold(t, i)'
    <2> TAKE t \in Turns, i \in Parts
    <2>1. SummaryTold(t, i) /\ ReadyTold(Summary(t, i)) /\ Summary(t, i)[2] = t /\ Summary(t, i) \in Spoken
      BY Ids DEF ThreadInv
    <2>2. t \in Nat /\ i \in Nat
      BY Numbers
    <2> QED BY <1>1, <2>1, <2>2 DEF SummaryTold, ReadyTold, Runs
  <1>6. \A t \in Turns : CommentaryTold(t)' /\ AnswerTold(t)'
    <2> TAKE t \in Turns
    <2>1. /\ CommentaryTold(t) /\ AnswerTold(t) /\ ReadyTold(Commentary(t)) /\ Commentary(t)[2] = t
          /\ t \in Nat
      BY Ids, Numbers DEF ThreadInv
    <2> QED BY <1>1, <2>1 DEF CommentaryTold, AnswerTold, ReadyTold, Runs
  <1> QED BY <1>2, <1>3, <1>4, <1>5, <1>6 DEF ThreadInv

LEMMA SummaryDeltaKeeps ==
  ASSUME ThreadInv, NEW i \in Parts, summaryTextDelta(i)
  PROVE  ThreadInv'
  <1> DEFINE m == Summary(turn, i)
  <1>1. /\ live /\ turn \in Turns /\ turn \in Nat /\ i \in Nat /\ i + 1 = summaryAt /\ m \in Spoken /\ m[2] = turn
        /\ said' = [said EXCEPT ![m] = @ + 1]
        /\ summaryBuffers' = [summaryBuffers EXCEPT ![m] = @ + 1]
        /\ UNCHANGED <<turn, live, summaryAt, answers, agentMessageBuffers, messages,
                       finalAnswer, showing, shown, activeTurnId, turnStatus, runningCommands>>
    BY Ids, Numbers DEF summaryTextDelta, ThreadInv, ThreadShape, consumerVars, activeVars
  <1>2. ~messages[m].ready /\ shown[m] = {} /\ summaryBuffers[m] = said[m] /\ said[m] \in Nat
    BY <1>1 DEF ThreadInv, ThreadShape, SummaryTold, ReadyTold, Runs
  <1>a. /\ said' \in [progressMessageId -> Nat] /\ summaryBuffers' \in [Spoken -> Nat]
        /\ said'[m] = said[m] + 1 /\ summaryBuffers'[m] = said'[m] /\ m \in progressMessageId
        /\ \A id \in progressMessageId \ {m} : said'[id] = said[id]
        /\ \A id \in Spoken \ {m} : summaryBuffers'[id] = summaryBuffers[id]
    BY <1>1, <1>2, Ids DEF ThreadInv, ThreadShape
  <1>3. ActiveTold'
    BY <1>1 DEF ThreadInv, ActiveTold
  <1>4. ThreadShape'
    BY <1>1, <1>a DEF ThreadInv, ThreadShape
  <1>5. \A id \in Spoken : ReadyTold(id)'
    <2> TAKE id \in Spoken
    <2>1. CASE id = m
      BY <1>1, <1>2, <2>1 DEF ReadyTold
    <2>2. CASE id # m
      <3>1. said'[id] = said[id] /\ ReadyTold(id)
        BY <1>a, <2>2, Ids DEF ThreadInv
      <3> QED BY <1>1, <3>1 DEF ReadyTold
    <2> QED BY <2>1, <2>2
  <1>6. \A t \in Turns, j \in Parts : SummaryTold(t, j)'
    <2> TAKE t \in Turns, j \in Parts
    <2>1. SummaryTold(t, j) /\ Summary(t, j) \in Spoken
      BY Ids DEF ThreadInv
    <2>2. CASE Summary(t, j) = m
      <3>1. t = turn /\ j = i
        BY <2>2, <1>1, Ids
      <3> QED BY <1>1, <1>2, <1>a, <3>1 DEF SummaryTold, Runs
    <2>3. CASE Summary(t, j) # m
      <3>1. said'[Summary(t, j)] = said[Summary(t, j)] /\ summaryBuffers'[Summary(t, j)] = summaryBuffers[Summary(t, j)]
        BY <1>a, <2>1, <2>3, Ids
      <3> QED BY <1>1, <2>1, <3>1 DEF SummaryTold, Runs
    <2> QED BY <2>2, <2>3
  <1>7. \A t \in Turns : CommentaryTold(t)' /\ AnswerTold(t)'
    <2> TAKE t \in Turns
    <2>1. /\ said'[Commentary(t)] = said[Commentary(t)] /\ said'[Final(t)] = said[Final(t)]
          /\ CommentaryTold(t) /\ AnswerTold(t)
      BY <1>1, <1>a, Ids DEF ThreadInv
    <2> QED BY <1>1, <2>1 DEF CommentaryTold, AnswerTold, Runs
  <1> QED BY <1>3, <1>4, <1>5, <1>6, <1>7 DEF ThreadInv

LEMMA AgentDeltaKeeps ==
  ASSUME ThreadInv, NEW m \in AgentMessages, agentMessageDelta(m)
  PROVE  ThreadInv'
  <1>1. /\ live /\ turn \in Turns /\ turn \in Nat /\ m \in {Commentary(turn), Final(turn)}
        /\ m \in progressMessageId /\ ~messages[m].ready
        /\ said' = [said EXCEPT ![m] = @ + 1]
        /\ agentMessageBuffers' = [agentMessageBuffers EXCEPT ![m] = @ + 1]
        /\ UNCHANGED <<turn, live, summaryAt, answers, summaryBuffers, messages,
                       finalAnswer, showing, shown, activeTurnId, turnStatus, runningCommands>>
    BY Ids, Numbers DEF agentMessageDelta, ThreadInv, ThreadShape, consumerVars, activeVars
  <1>2. /\ agentMessageBuffers[m] = said[m] /\ said[m] \in Nat
        /\ m \in Spoken => shown[m] = {} /\ m[2] = turn
    BY <1>1, Ids DEF ThreadInv, ThreadShape, CommentaryTold, AnswerTold, ReadyTold
  <1>3. /\ said' \in [progressMessageId -> Nat] /\ agentMessageBuffers' \in [AgentMessages -> Nat]
        /\ said'[m] = said[m] + 1 /\ agentMessageBuffers'[m] = said'[m]
        /\ \A id \in progressMessageId \ {m} : said'[id] = said[id]
        /\ \A id \in AgentMessages \ {m} : agentMessageBuffers'[id] = agentMessageBuffers[id]
    BY <1>1, <1>2 DEF ThreadInv, ThreadShape
  <1>4. ActiveTold'
    BY <1>1 DEF ThreadInv, ActiveTold
  <1>5. ThreadShape'
    BY <1>1, <1>3 DEF ThreadInv, ThreadShape
  <1>6. \A id \in Spoken : ReadyTold(id)'
    <2> TAKE id \in Spoken
    <2>1. CASE id = m
      BY <1>1, <1>2, <2>1 DEF ReadyTold
    <2>2. CASE id # m
      <3>1. said'[id] = said[id] /\ ReadyTold(id)
        BY <1>3, <2>2, Ids DEF ThreadInv
      <3> QED BY <1>1, <3>1 DEF ReadyTold
    <2> QED BY <2>1, <2>2
  <1>7. \A t \in Turns, j \in Parts : SummaryTold(t, j)'
    <2> TAKE t \in Turns, j \in Parts
    <2>1. SummaryTold(t, j) /\ said'[Summary(t, j)] = said[Summary(t, j)]
      BY <1>1, <1>3, Ids DEF ThreadInv
    <2> QED BY <1>1, <2>1 DEF SummaryTold, Runs
  <1>8. \A t \in Turns : CommentaryTold(t)'
    <2> TAKE t \in Turns
    <2>1. CommentaryTold(t) /\ Commentary(t) \in progressMessageId /\ Commentary(t) \in AgentMessages
      BY Ids DEF ThreadInv
    <2> QED BY <1>1, <1>3, <2>1 DEF CommentaryTold
  <1>9. \A t \in Turns : AnswerTold(t)'
    <2> TAKE t \in Turns
    <2>1. AnswerTold(t) /\ Final(t) \in progressMessageId /\ Final(t) \in AgentMessages
      BY Ids DEF ThreadInv
    <2> QED BY <1>1, <1>3, <2>1 DEF AnswerTold, Runs
  <1> QED BY <1>4, <1>5, <1>6, <1>7, <1>8, <1>9 DEF ThreadInv

LEMMA AnswerTextKeeps ==
  ASSUME ThreadInv, live, NEW n \in {NoText, said[Final(turn)]}, answerCompleted(n)
  PROVE  ThreadInv'
  <1> DEFINE m == Final(turn)
             all == ItemText(m, n)
  <1>1. /\ turn \in Turns /\ turn \in Nat /\ answers[turn] \in Nat /\ said[m] \in Nat
        /\ m \in AgentMessages /\ m \in progressMessageId \ Spoken
        /\ answers' = [answers EXCEPT ![turn] = said[m]]
        /\ said' = [said EXCEPT ![m] = 0]
        /\ agentMessageBuffers' = [agentMessageBuffers EXCEPT ![m] = 0]
        /\ finalAnswer' = [turn |-> turn, text |-> TextOf(m, all), ready |-> FALSE]
        /\ UNCHANGED <<turn, live, summaryAt, summaryBuffers, messages,
                       showing, shown, activeTurnId, turnStatus, runningCommands>>
    BY Ids DEF answerCompleted, ThreadInv, ThreadShape, consumerVars, activeVars, NoText, NoBuffer
  <1>2. all = said[m]
    BY <1>1 DEF ThreadInv, AnswerTold, ItemText
  <1>3. TextOf(m, all) = <<turn, said[m]>> /\ <<turn, said[m]>> \in Nat \X Nat
    BY <1>1, <1>2, Ids, Texts DEF TextOf
  <1>4. /\ said' \in [progressMessageId -> Nat] /\ agentMessageBuffers' \in [AgentMessages -> Nat]
        /\ answers' \in [Turns -> Nat] /\ answers'[turn] = said[m]
        /\ said'[m] = 0 /\ agentMessageBuffers'[m] = 0
        /\ \A id \in progressMessageId \ {m} : said'[id] = said[id]
        /\ \A id \in AgentMessages \ {m} : agentMessageBuffers'[id] = agentMessageBuffers[id]
        /\ \A t \in Turns \ {turn} : answers'[t] = answers[t]
    BY <1>1 DEF ThreadInv, ThreadShape
  <1>5. finalAnswer' \in [turn : Nat, text : Nat \X Nat, ready : BOOLEAN] /\ finalAnswer'.text = <<turn, said[m]>>
    BY <1>1, <1>3
  <1> HIDE DEF all
  <1>6. ActiveTold'
    BY <1>1 DEF ThreadInv, ActiveTold
  <1>7. ThreadShape'
    BY <1>1, <1>4, <1>5 DEF ThreadInv, ThreadShape
  <1>8. \A id \in Spoken : ReadyTold(id)'
    <2> TAKE id \in Spoken
    <2>1. said'[id] = said[id] /\ ReadyTold(id)
      BY <1>1, <1>4, Ids DEF ThreadInv
    <2> QED BY <1>1, <2>1 DEF ReadyTold
  <1>9. \A t \in Turns, j \in Parts : SummaryTold(t, j)'
    <2> TAKE t \in Turns, j \in Parts
    <2>a. Summary(t, j) \in Spoken /\ Spoken \subseteq progressMessageId
      BY Ids, Zenon
    <2>b. Summary(t, j) \in progressMessageId \ {m}
      BY <1>1, <2>a, Zenon
    <2>1. SummaryTold(t, j) /\ said'[Summary(t, j)] = said[Summary(t, j)]
      BY <1>4, <2>b DEF ThreadInv
    <2> QED BY <1>1, <2>1 DEF SummaryTold, Runs
  <1>10. \A t \in Turns : CommentaryTold(t)'
    <2> TAKE t \in Turns
    <2>1. CommentaryTold(t) /\ Commentary(t) \in AgentMessages \ {m} /\ Commentary(t) \in progressMessageId \ {m}
      BY <1>1, Ids DEF ThreadInv
    <2> QED BY <1>1, <1>4, <2>1 DEF CommentaryTold
  <1>11. \A t \in Turns : AnswerTold(t)'
    <2> TAKE t \in Turns
    <2>1. /\ AnswerTold(t) /\ Final(t) \in progressMessageId /\ Final(t) \in AgentMessages
          /\ (Final(t) = m <=> t = turn) /\ t \in Nat
      BY <1>1, Ids, Numbers DEF ThreadInv
    <2>2. CASE t = turn
      BY <1>1, <1>4, <1>5, <2>1, <2>2 DEF AnswerTold, Runs
    <2>3. CASE t # turn
      BY <1>1, <1>4, <2>1, <2>3 DEF AnswerTold, Runs
    <2> QED BY <2>2, <2>3
  <1> QED BY <1>6, <1>7, <1>8, <1>9, <1>10, <1>11 DEF ThreadInv

LEMMA PartAddedKeeps ==
  ASSUME ThreadInv, NEW i \in Parts, summaryPartAdded(i)
  PROVE  ThreadInv'
  <1> DEFINE earlier == finalizeEarlierSummaries(i)
             texts == Finalized(earlier)
  <1>1. /\ live /\ turn \in Turns /\ turn \in Nat /\ i \in Nat /\ i = summaryAt /\ summaryAt' = i + 1
        /\ messages' = WithProgress(texts) /\ summaryBuffers' = WithoutBuffers(earlier)
        /\ UNCHANGED <<turn, live, said, answers, agentMessageBuffers,
                       finalAnswer, showing, shown, activeTurnId, turnStatus, runningCommands>>
    BY Numbers DEF summaryPartAdded, ThreadInv, ThreadShape, consumerVars, activeVars
  <1>2. /\ earlier \subseteq Spoken
        /\ \A t \in Turns, j \in Parts : Summary(t, j) \in earlier <=> t = turn /\ j < i
        /\ \A t \in Turns : Commentary(t) \notin earlier /\ Final(t) \notin earlier
    BY <1>1, Ids DEF finalizeEarlierSummaries
  <1>3. \A id \in earlier : summaryBuffers[id] # 0 => summaryBuffers[id] = said[id] /\ said[id] \in Nat
    BY <1>1, <1>2, Ids DEF ThreadInv, ThreadShape, SummaryTold, finalizeEarlierSummaries
  <1>4. /\ DOMAIN texts = {id \in earlier : summaryBuffers[id] # 0}
        /\ \A id \in DOMAIN texts : texts[id] = TextOf(id, said[id])
    BY <1>3 DEF Finalized, NoBuffer, NoText
  <1> HIDE DEF texts
  <1>5. \A id \in DOMAIN texts : id \in progressMessageId /\ texts[id] \in Nat \X Nat
    BY <1>2, <1>3, <1>4, Ids, Texts
  <1>6. /\ messages' \in [progressMessageId -> Message]
        /\ \A id \in progressMessageId :
             IF id \in earlier /\ summaryBuffers[id] # 0
             THEN messages'[id].ready /\ messages'[id].text = TextOf(id, said[id])
             ELSE messages'[id] = messages[id]
    BY <1>1, <1>4, <1>5, Progress DEF ThreadInv
  <1>7. /\ summaryBuffers' \in [Spoken -> Nat]
        /\ \A id \in Spoken : summaryBuffers'[id] = IF id \in earlier THEN 0 ELSE summaryBuffers[id]
    BY <1>1 DEF WithoutBuffers, NoBuffer, NoText, ThreadInv, ThreadShape
  <1> HIDE DEF earlier
  <1>8. ActiveTold'
    BY <1>1 DEF ThreadInv, ActiveTold
  <1>9. ThreadShape'
    BY <1>1, <1>6, <1>7 DEF ThreadInv, ThreadShape
  <1>10. \A id \in Spoken : ReadyTold(id)'
    <2> TAKE id \in Spoken
    <2>1. ReadyTold(id) /\ id \in progressMessageId
      BY Ids DEF ThreadInv
    <2>2. CASE id \in earlier
      <3>1. id[2] = turn
        BY <2>2, <1>1, Ids DEF earlier, finalizeEarlierSummaries
      <3> QED BY <1>1, <1>6, <2>1, <3>1 DEF ReadyTold
    <2>3. CASE id \notin earlier
      BY <1>1, <1>6, <2>1, <2>3 DEF ReadyTold
    <2> QED BY <2>2, <2>3
  <1>11. \A t \in Turns, j \in Parts : SummaryTold(t, j)'
    <2> TAKE t \in Turns, j \in Parts
    <2>1. SummaryTold(t, j) /\ Summary(t, j) \in Spoken /\ Summary(t, j) \in progressMessageId
          /\ j \in Nat /\ (Summary(t, j) \in earlier <=> t = turn /\ j < i)
      BY <1>2, Ids, Numbers DEF ThreadInv
    <2>2. CASE Summary(t, j) \in earlier
      BY <1>1, <1>3, <1>6, <1>7, <2>1, <2>2 DEF SummaryTold, Runs
    <2>3. CASE Summary(t, j) \notin earlier
      BY <1>1, <1>6, <1>7, <2>1, <2>3 DEF SummaryTold, Runs
    <2> QED BY <2>2, <2>3
  <1>12. \A t \in Turns : CommentaryTold(t)' /\ AnswerTold(t)'
    BY <1>1, <1>2, <1>6, Ids DEF ThreadInv, CommentaryTold, AnswerTold, Runs
  <1> QED BY <1>8, <1>9, <1>10, <1>11, <1>12 DEF ThreadInv

LEMMA ReasoningKeeps ==
  ASSUME ThreadInv, reasoningCompleted
  PROVE  ThreadInv'
  <1> DEFINE whole == {m \in SummariesOf(turn) : said[m] # NoText}
             texts == [m \in whole |-> TextOf(m, said[m])]
  <1>1. /\ live /\ turn \in Turns /\ turn \in Nat /\ summaryAt \in Nat
        /\ summaryAt' = Cardinality(Parts) + 1
        /\ messages' = WithProgress(texts)
        /\ UNCHANGED <<turn, live, said, answers, summaryBuffers, agentMessageBuffers,
                       finalAnswer, showing, shown, activeTurnId, turnStatus, runningCommands>>
    BY DEF reasoningCompleted, ThreadInv, ThreadShape, consumerVars, activeVars
  <1>2. /\ whole \subseteq Spoken /\ whole \subseteq progressMessageId
        /\ \A t \in Turns, j \in Parts : Summary(t, j) \in whole <=> t = turn /\ said[Summary(t, j)] # 0
        /\ \A t \in Turns : Commentary(t) \notin whole /\ Final(t) \notin whole
    BY <1>1, Ids DEF SummariesOf, NoText
  <1>3. \A id \in whole : id[2] = turn
    BY <1>1, Ids DEF SummariesOf
  <1>4. DOMAIN texts = whole /\ \A id \in whole : texts[id] = TextOf(id, said[id])
    OBVIOUS
  <1> HIDE DEF texts
  <1>5. \A id \in DOMAIN texts : id \in progressMessageId /\ texts[id] \in Nat \X Nat
    BY <1>2, <1>4, Texts DEF ThreadInv, ThreadShape
  <1>6. /\ messages' \in [progressMessageId -> Message]
        /\ \A id \in progressMessageId :
             IF id \in whole
             THEN messages'[id].ready /\ messages'[id].text = TextOf(id, said[id])
             ELSE messages'[id] = messages[id]
    BY <1>1, <1>4, <1>5, Progress DEF ThreadInv
  <1> HIDE DEF whole
  <1>7. ActiveTold'
    BY <1>1 DEF ThreadInv, ActiveTold
  <1>8. ThreadShape'
    BY <1>1, <1>6, Numbers DEF ThreadInv, ThreadShape
  <1>9. \A id \in Spoken : ReadyTold(id)'
    BY <1>1, <1>3, <1>6, Ids DEF ThreadInv, ReadyTold
  <1>10. \A t \in Turns, j \in Parts : SummaryTold(t, j)'
    <2> TAKE t \in Turns, j \in Parts
    <2>1. /\ SummaryTold(t, j) /\ Summary(t, j) \in Spoken /\ Summary(t, j) \in progressMessageId
          /\ j \in Nat /\ j < Cardinality(Parts) /\ Cardinality(Parts) \in Nat
          /\ (Summary(t, j) \in whole <=> t = turn /\ said[Summary(t, j)] # 0)
          /\ said[Summary(t, j)] \in Nat
      BY <1>2, Ids, Numbers DEF ThreadInv, ThreadShape
    <2>2. CASE t = turn
      BY <1>1, <1>6, <2>1, <2>2 DEF SummaryTold, Runs
    <2>3. CASE t # turn
      BY <1>1, <1>6, <2>1, <2>3 DEF SummaryTold, Runs
    <2> QED BY <2>2, <2>3
  <1>11. \A t \in Turns : CommentaryTold(t)' /\ AnswerTold(t)'
    BY <1>1, <1>2, <1>6, Ids DEF ThreadInv, CommentaryTold, AnswerTold, Runs
  <1> QED BY <1>7, <1>8, <1>9, <1>10, <1>11 DEF ThreadInv

LEMMA CommentaryKeeps ==
  ASSUME ThreadInv, live, NEW n \in {NoText, said[Commentary(turn)]}, commentaryCompleted(n)
  PROVE  ThreadInv'
  <1> DEFINE m == Commentary(turn)
             all == ItemText(m, n)
             texts == [id \in {m} |-> TextOf(id, all)]
  <1>1. /\ turn \in Turns /\ turn \in Nat /\ m \in Spoken /\ m \in progressMessageId /\ ~messages[m].ready
        /\ said[m] \in Nat /\ messages' = WithProgress(texts)
        /\ agentMessageBuffers' = [agentMessageBuffers EXCEPT ![m] = NoBuffer] /\ m \in AgentMessages
        /\ UNCHANGED <<turn, live, said, summaryAt, answers, summaryBuffers,
                       finalAnswer, showing, shown, activeTurnId, turnStatus, runningCommands>>
    BY Ids DEF commentaryCompleted, ThreadInv, ThreadShape, serverVars, consumerVars, activeVars
  <1>2. all = said[m]
    BY <1>1 DEF ThreadInv, CommentaryTold, ItemText
  <1>3. DOMAIN texts = {m} /\ texts[m] = TextOf(m, said[m])
    BY <1>2
  <1> HIDE DEF texts
  <1>4. \A id \in DOMAIN texts : id \in progressMessageId /\ texts[id] \in Nat \X Nat
    BY <1>1, <1>3, Texts
  <1>5. /\ messages' \in [progressMessageId -> Message]
        /\ messages'[m].ready /\ messages'[m].text = TextOf(m, said[m])
        /\ \A id \in progressMessageId \ {m} : messages'[id] = messages[id]
    BY <1>1, <1>3, <1>4, Progress DEF ThreadInv
  <1>6. /\ agentMessageBuffers' \in [AgentMessages -> Nat]
        /\ \A id \in AgentMessages \ {m} : agentMessageBuffers'[id] = agentMessageBuffers[id]
    BY <1>1 DEF ThreadInv, ThreadShape, NoBuffer, NoText
  <1>7. ActiveTold'
    BY <1>1 DEF ThreadInv, ActiveTold
  <1>8. ThreadShape'
    BY <1>1, <1>5, <1>6 DEF ThreadInv, ThreadShape
  <1>9. \A id \in Spoken : ReadyTold(id)'
    <2> TAKE id \in Spoken
    <2>1. ReadyTold(id) /\ id \in progressMessageId /\ m[2] = turn
      BY <1>1, Ids DEF ThreadInv
    <2>2. CASE id = m
      BY <1>1, <1>5, <2>1, <2>2 DEF ReadyTold
    <2>3. CASE id # m
      BY <1>1, <1>5, <2>1, <2>3 DEF ReadyTold
    <2> QED BY <2>2, <2>3
  <1>10. \A t \in Turns, j \in Parts : SummaryTold(t, j)'
    <2> TAKE t \in Turns, j \in Parts
    <2>1. SummaryTold(t, j) /\ Summary(t, j) \in progressMessageId \ {m}
      BY <1>1, Ids DEF ThreadInv
    <2> QED BY <1>1, <1>5, <2>1 DEF SummaryTold, Runs
  <1>11. \A t \in Turns : CommentaryTold(t)' /\ AnswerTold(t)'
    <2> TAKE t \in Turns
    <2>1. CommentaryTold(t) /\ AnswerTold(t) /\ Final(t) \in progressMessageId \ {m}
          /\ Commentary(t) \in progressMessageId /\ Commentary(t) \in AgentMessages
          /\ Final(t) \in AgentMessages
      BY <1>1, Ids DEF ThreadInv
    <2> QED BY <1>1, <1>5, <1>6, <2>1 DEF CommentaryTold, AnswerTold, Runs
  <1> QED BY <1>7, <1>8, <1>9, <1>10, <1>11 DEF ThreadInv

(* A turn ends: what its summaries have in a buffer, and the answer.       *)
LEMMA TurnEndKeeps ==
  ASSUME ThreadInv, NEW status \in {"completed", "failed", "interrupted"}, reduceCompletedTurn(status)
  PROVE  ThreadInv'
  <1> DEFINE ids == SummariesOf(turn)
             parts == Finalized(ids)
             final == {Final(turn) : n \in {FinalText} \ {NoMessage.text}}
             texts == [id \in DOMAIN parts \cup final |-> IF id \in final THEN FinalText ELSE parts[id]]
             kept == {id \in ids : summaryBuffers[id] # 0}
             answered == finalAnswer.text # <<0, 0>>
  <1>1. /\ live /\ ~live' /\ turn \in Turns /\ turn \in Nat /\ summaryAt' = 0
        /\ messages' = WithProgress(texts) /\ summaryBuffers' = WithoutBuffers(ids)
        /\ finalAnswer' = (IF ~answered THEN finalAnswer
                           ELSE [turn |-> turn, text |-> finalAnswer.text, ready |-> TRUE])
        /\ UNCHANGED <<turn, said, answers, agentMessageBuffers, showing, shown>>
        /\ live' \in BOOLEAN
    BY DEF reduceCompletedTurn, ThreadInv, ThreadShape, consumerVars, FinalText, NoMessage, NoTurn, NoText
  <1>2. ActiveTold'
    BY DEF reduceCompletedTurn, ThreadInv, ActiveTold, NoTurn
  <1>3. /\ ids \subseteq Spoken /\ ids \subseteq progressMessageId
        /\ \A t \in Turns, j \in Parts : Summary(t, j) \in ids <=> t = turn
        /\ \A t \in Turns : Commentary(t) \notin ids /\ Final(t) \notin ids
        /\ \A id \in ids : id[2] = turn
    BY <1>1, Ids DEF SummariesOf
  <1>4. \A id \in kept : summaryBuffers[id] = said[id] /\ said[id] \in Nat
    BY <1>1, <1>3 DEF ThreadInv, ThreadShape, SummaryTold, SummariesOf
  <1>5. DOMAIN parts = kept /\ \A id \in kept : parts[id] = TextOf(id, said[id])
    BY <1>4 DEF Finalized, NoBuffer, NoText
  <1>6. final = (IF answered THEN {Final(turn)} ELSE {}) /\ FinalText = finalAnswer.text
    BY DEF FinalText, NoMessage, NoTurn, NoText
  <1> HIDE DEF parts, final
  <1>7. /\ DOMAIN texts = kept \cup final
        /\ \A id \in kept : texts[id] = TextOf(id, said[id])
        /\ \A id \in final : texts[id] = finalAnswer.text
    BY <1>1, <1>3, <1>5, <1>6
  <1> HIDE DEF texts
  <1>8. \A id \in DOMAIN texts : id \in progressMessageId /\ texts[id] \in Nat \X Nat
    <2>1. finalAnswer.text \in Nat \X Nat
      BY DEF ThreadInv, ThreadShape
    <2>2. \A id \in kept : id \in progressMessageId /\ texts[id] \in Nat \X Nat
      BY <1>3, <1>4, <1>7, Texts
    <2>3. \A id \in final : id \in progressMessageId /\ texts[id] \in Nat \X Nat
      BY <1>1, <1>6, <1>7, <2>1, Ids
    <2> QED BY <1>7, <2>2, <2>3
  <1>9. /\ messages' \in [progressMessageId -> Message]
        /\ \A id \in progressMessageId :
             /\ id \in kept => messages'[id].ready /\ messages'[id].text = TextOf(id, said[id])
             /\ id \notin kept /\ id # Final(turn) => messages'[id] = messages[id]
        /\ answered => messages'[Final(turn)].ready /\ messages'[Final(turn)].text = finalAnswer.text
    BY <1>1, <1>3, <1>6, <1>7, <1>8, Progress, Ids DEF ThreadInv
  <1>10. /\ summaryBuffers' \in [Spoken -> Nat]
         /\ \A id \in Spoken : summaryBuffers'[id] = IF id \in ids THEN 0 ELSE summaryBuffers[id]
    BY <1>1 DEF WithoutBuffers, NoBuffer, NoText, ThreadInv, ThreadShape
  <1> HIDE DEF ids
  <1>11. ThreadShape'
    BY <1>1, <1>9, <1>10 DEF ThreadInv, ThreadShape
  <1>12. \A id \in Spoken : ReadyTold(id)'
    <2> TAKE id \in Spoken
    <2>1. ReadyTold(id) /\ id \in progressMessageId /\ id # Final(turn)
      BY <1>1, Ids DEF ThreadInv
    <2>2. CASE id \in kept
      BY <1>1, <1>3, <1>9, <2>1, <2>2 DEF ReadyTold
    <2>3. CASE id \notin kept
      BY <1>1, <1>9, <2>1, <2>3 DEF ReadyTold
    <2> QED BY <2>2, <2>3
  <1>13. \A t \in Turns, j \in Parts : SummaryTold(t, j)'
    <2> TAKE t \in Turns, j \in Parts
    <2>a. Summary(t, j) \in Spoken /\ Summary(t, j) \in progressMessageId /\ turn \in Turns
      BY <1>1, Ids
    <2>1. /\ SummaryTold(t, j) /\ Summary(t, j) \in Spoken /\ Summary(t, j) \in progressMessageId
          /\ Summary(t, j) # Final(turn) /\ (Summary(t, j) \in ids <=> t = turn)
          /\ said[Summary(t, j)] \in Nat
      <3>1. Summary(t, j) # Final(turn)
        BY <2>a, Ids
      <3>2. SummaryTold(t, j) /\ said \in [progressMessageId -> Nat]
        BY DEF ThreadInv, ThreadShape
      <3> QED BY <1>3, <2>a, <3>1, <3>2
    <2>2. CASE t = turn
      BY <1>1, <1>9, <1>10, <2>1, <2>2 DEF SummaryTold, Runs
    <2>3. CASE t # turn
      BY <1>1, <1>9, <1>10, <2>1, <2>3 DEF SummaryTold, Runs
    <2> QED BY <2>2, <2>3
  <1>14. \A t \in Turns : CommentaryTold(t)' /\ AnswerTold(t)'
    <2> TAKE t \in Turns
    <2>1. /\ CommentaryTold(t) /\ AnswerTold(t) /\ Final(t) \in progressMessageId \ kept
          /\ Commentary(t) \in progressMessageId \ kept /\ Commentary(t) # Final(turn)
          /\ (Final(t) = Final(turn) => t = turn) /\ t \in Nat /\ t # 0
      BY <1>1, <1>3, Ids, Numbers DEF ThreadInv
    <2>2. CommentaryTold(t)'
      BY <1>1, <1>9, <2>1 DEF CommentaryTold
    <2>3. CASE t = turn
      <3>1. answers[t] # 0 => finalAnswer.text = <<t, answers[t]>> /\ answered
        BY <1>1, <2>1, <2>3 DEF AnswerTold, Runs
      <3>2. AnswerTold(t)'
        BY <1>1, <1>9, <2>1, <2>3, <3>1 DEF AnswerTold, Runs
      <3> QED BY <2>2, <3>2
    <2>4. CASE t # turn
      <3>1. messages'[Final(t)] = messages[Final(t)]
        BY <1>1, <1>9, <2>1, <2>4
      <3>2. AnswerTold(t)'
        BY <1>1, <2>1, <2>4, <3>1 DEF AnswerTold, Runs
      <3> QED BY <2>2, <3>2
    <2> QED BY <2>3, <2>4
  <1> QED BY <1>2, <1>11, <1>12, <1>13, <1>14 DEF ThreadInv

----------------------------------------------------------------------------
(* The consumer shows and marks only what is ready.                        *)
LEMMA ConsumerKeeps ==
  ASSUME ThreadInv, ShowPending \/ markProgressMessagesDelivered
  PROVE  ThreadInv'
  <1>1. UNCHANGED <<serverVars, activeVars, summaryBuffers, agentMessageBuffers, finalAnswer>>
    BY DEF ShowPending, markProgressMessagesDelivered
  <1>2. /\ messages' \in [progressMessageId -> Message]
        /\ \A id \in progressMessageId :
             messages'[id].ready = messages[id].ready /\ messages'[id].text = messages[id].text
    <2>1. messages \in [progressMessageId -> Message]
      BY DEF ThreadInv, ThreadShape
    <2>2. CASE messages' = messages
      BY <2>1, <2>2
    <2>3. CASE messages' = [id \in progressMessageId |->
                 IF id \in showing THEN [messages[id] EXCEPT !.delivered = TRUE] ELSE messages[id]]
      <3>1. \A id \in progressMessageId : [messages[id] EXCEPT !.delivered = TRUE] \in Message
        BY <2>1 DEF Message
      <3> QED BY <2>1, <2>3, <3>1 DEF Message
    <2> QED BY <2>2, <2>3 DEF ShowPending, markProgressMessagesDelivered
  <1>3. /\ shown' \in [progressMessageId -> SUBSET (Nat \X Nat)] /\ showing' \subseteq progressMessageId
        /\ \A id \in progressMessageId :
             \/ shown'[id] = shown[id]
             \/ messages[id].ready /\ shown'[id] = shown[id] \cup {messages[id].text}
    <2>1. /\ shown \in [progressMessageId -> SUBSET (Nat \X Nat)] /\ showing \subseteq progressMessageId
          /\ \A id \in progressMessageId : messages[id].text \in Nat \X Nat
      BY DEF ThreadInv, ThreadShape, Message
    <2>2. CASE ShowPending
      BY <2>1, <2>2 DEF ShowPending, pendingProgressMessages
    <2>3. CASE markProgressMessagesDelivered
      BY <2>1, <2>3 DEF markProgressMessagesDelivered
    <2> QED BY <2>2, <2>3
  <1>4. ActiveTold'
    BY <1>1 DEF ThreadInv, ActiveTold, serverVars, activeVars
  <1>5. ThreadShape'
    BY <1>1, <1>2, <1>3 DEF ThreadInv, ThreadShape, serverVars
  <1>6. \A id \in Spoken : ReadyTold(id)'
    <2> TAKE id \in Spoken
    <2>1. ReadyTold(id) /\ id \in progressMessageId
      BY Ids DEF ThreadInv
    <2> QED BY <1>1, <1>2, <1>3, <2>1 DEF ReadyTold, serverVars
  <1>7. \A t \in Turns, i \in Parts : SummaryTold(t, i)'
    BY <1>1, <1>2, Ids DEF ThreadInv, SummaryTold, Runs, serverVars
  <1>8. \A t \in Turns : CommentaryTold(t)' /\ AnswerTold(t)'
    BY <1>1, <1>2, Ids DEF ThreadInv, CommentaryTold, AnswerTold, Runs, serverVars
  <1> QED BY <1>4, <1>5, <1>6, <1>7, <1>8 DEF ThreadInv

LEMMA ThreadStep == ThreadInv /\ [ThreadNext]_threadVars => ThreadInv'
  <1> SUFFICES ASSUME ThreadInv, [ThreadNext]_threadVars PROVE ThreadInv'
    OBVIOUS
  <1>1. CASE UNCHANGED threadVars
    BY <1>1 DEF threadVars, ThreadInv, ThreadShape, ActiveTold, ReadyTold, SummaryTold, CommentaryTold,
                AnswerTold, Runs
  <1>2. CASE Reduce
    <2>1. ASSUME NEW i \in Parts, summaryPartAdded(i) \/ summaryTextDelta(i) PROVE ThreadInv'
      BY <2>1, PartAddedKeeps, SummaryDeltaKeeps
    <2>2. ASSUME live, NEW n \in {NoText, said[Commentary(turn)]}, commentaryCompleted(n) PROVE ThreadInv'
      BY <2>2, CommentaryKeeps
    <2>3. ASSUME NEW status \in {"completed", "failed", "interrupted"}, reduceCompletedTurn(status)
          PROVE  ThreadInv'
      BY <2>3, TurnEndKeeps
    <2>4. ASSUME NEW m \in AgentMessages, agentMessageDelta(m) PROVE ThreadInv'
      BY <2>4, AgentDeltaKeeps
    <2>5. ASSUME live, NEW n \in {NoText, said[Final(turn)]}, answerCompleted(n) PROVE ThreadInv'
      BY <2>5, AnswerTextKeeps
    <2> QED BY <1>2, <2>1, <2>2, <2>3, <2>4, <2>5, TurnStartKeeps, ActiveKeeps, ReasoningKeeps DEF Reduce
  <1>3. CASE ShowPending \/ markProgressMessagesDelivered
    BY <1>3, ConsumerKeeps
  <1> QED BY <1>1, <1>2, <1>3 DEF ThreadNext

LEMMA ThreadAlways == ThreadSpec => []ThreadInv
  BY ThreadStart, ThreadStep, PTL DEF ThreadSpec

(* For any turns, parts and consumers: what was shown of a message         *)
(* (markProgressMessagesDelivered) is all that was said of it, for a text  *)
(* is ready only when it holds the whole.                                  *)
THEOREM ShownTextsAreWhole == ThreadSpec => []ShownIsWhole
  <1>1. ThreadInv => ShownIsWhole
    BY DEF ThreadInv, ReadyTold, ShownIsWhole
  <1> QED BY <1>1, ThreadAlways, PTL

(* For any turns, however they end (reduceCompletedTurn): no turn is left  *)
(* active and no command running; every summary and every completed        *)
(* message is ready, and of one that was never completed the whole stays   *)
(* in its buffer, where nobody is shown it.                                *)
THEOREM EndedTurnsAreSettled == ThreadSpec => []EndedTurnIsSettled
  <1>1. ThreadInv => EndedTurnIsSettled
    <2> SUFFICES ASSUME ThreadInv PROVE EndedTurnIsSettled
      OBVIOUS
    <2>1. CASE live
      BY <2>1 DEF ThreadInv, ActiveTold, EndedTurnIsSettled
    <2>2. CASE ~live
      <3>1. activeTurnId = NoTurn /\ turnStatus # "inProgress" /\ runningCommands = {}
        BY <2>2 DEF ThreadInv, ActiveTold
      <3>2. ASSUME NEW t \in 1 .. turn
            PROVE  /\ t \in Turns /\ t \in Nat /\ t <= turn /\ turn \in Nat /\ ~Runs(t)
        BY <2>2 DEF ThreadInv, ThreadShape, Runs
      <3>3. ASSUME NEW t \in 1 .. turn, NEW m \in SummariesOf(t), said[m] # NoText
            PROVE  messages[m].ready /\ messages[m].text = TextOf(m, said[m])
        <4>1. PICK i \in Parts : m = Summary(t, i)
          BY DEF SummariesOf
        <4> QED BY <3>2, <3>3, <4>1, Ids DEF ThreadInv, SummaryTold, ReadyTold, NoText
      <3>4. ASSUME NEW t \in 1 .. turn, answers[t] # 0
            PROVE  messages[Final(t)].ready /\ messages[Final(t)].text = <<t, answers[t]>>
        BY <3>2, <3>4 DEF ThreadInv, AnswerTold
      <3>5. ASSUME NEW t \in 1 .. turn
            PROVE  /\ \/ Whole(Commentary(t))
                      \/ ~messages[Commentary(t)].ready /\ KeptBack(Commentary(t))
                   /\ KeptBack(Final(t))
        BY <3>2, Ids DEF ThreadInv, CommentaryTold, AnswerTold, ReadyTold, Whole, KeptBack
      <3>6. \A t \in 1 .. turn : \A n \in Nat : TextOf(Final(t), n) = <<t, n>>
        BY <3>2, Ids DEF TextOf
      <3>7. \A t \in 1 .. turn : answers[t] \in Nat
        BY <3>2 DEF ThreadInv, ThreadShape
      <3> QED BY <2>2, <3>1, <3>3, <3>4, <3>5, <3>6, <3>7 DEF EndedTurnIsSettled, Whole, NoText
    <2> QED BY <2>1, <2>2
  <1> QED BY <1>1, ThreadAlways, PTL

-----------------------------------------------------------------------------
(***************************************************************************)
(* Commands, for any request and any answers.                              *)
(***************************************************************************)
(* The stages of a plan, and what may come after each.                     *)
StageNames == {"work", "check", "open", "ask", "wait", "close"}
Stages(p) == {p[i] : i \in DOMAIN p}
Precedes(a, b) ==
  \/ a = "work" /\ b \in {"check", "open", "ask", "wait", "close"}
  \/ a = "check" /\ b \in {"work", "open", "ask", "wait", "close"}
  \/ a = "open" /\ b \in {"work", "ask", "wait", "close"}
  \/ a = "ask" /\ b \in {"wait", "close"}
  \/ a = "wait" /\ b = "close"
Ordered(p) ==
  p \in Seq(StageNames) /\ \A i, j \in DOMAIN p : i < j => Precedes(p[i], p[j])

LEMMA TailOf ==
  ASSUME NEW p, Ordered(p), p # <<>>
  PROVE  /\ Ordered(Tail(p)) /\ Head(p) \in Stages(p)
         /\ Stages(Tail(p)) = Stages(p) \ {Head(p)}
         /\ \A x \in Stages(Tail(p)) : Precedes(Head(p), x)
  <1>1. /\ p \in Seq(StageNames) /\ Len(p) \in Nat \ {0} /\ DOMAIN p = 1 .. Len(p)
        /\ Tail(p) \in Seq(StageNames) /\ DOMAIN Tail(p) = 1 .. (Len(p) - 1)
        /\ \A i \in 1 .. (Len(p) - 1) : Tail(p)[i] = p[i + 1]
        /\ Head(p) = p[1]
    BY HeadTailProperties, EmptySeq DEF Ordered
  <1>2. Ordered(Tail(p))
    <2> SUFFICES ASSUME NEW i \in 1 .. (Len(p) - 1), NEW j \in 1 .. (Len(p) - 1), i < j
                 PROVE  Precedes(Tail(p)[i], Tail(p)[j])
      BY <1>1 DEF Ordered
    <2>1. i + 1 \in DOMAIN p /\ j + 1 \in DOMAIN p /\ i + 1 < j + 1
      BY <1>1
    <2> QED BY <1>1, <2>1 DEF Ordered
  <1>3. \A x \in Stages(Tail(p)) : Precedes(Head(p), x) /\ x \in Stages(p)
    <2> SUFFICES ASSUME NEW i \in 1 .. (Len(p) - 1)
                 PROVE  Precedes(p[1], Tail(p)[i]) /\ Tail(p)[i] \in Stages(p)
      BY <1>1 DEF Stages
    <2>1. i + 1 \in DOMAIN p /\ 1 \in DOMAIN p /\ 1 < i + 1
      BY <1>1
    <2> QED BY <1>1, <2>1 DEF Ordered, Stages
  <1>4. \A x \in Stages(p) : x = Head(p) \/ x \in Stages(Tail(p))
    <2> SUFFICES ASSUME NEW i \in DOMAIN p, i # 1 PROVE p[i] \in Stages(Tail(p))
      BY <1>1 DEF Stages
    <2>1. i - 1 \in 1 .. (Len(p) - 1) /\ Tail(p)[i - 1] = p[i]
      BY <1>1
    <2> QED BY <1>1, <2>1 DEF Stages
  <1>5. ~Precedes(Head(p), Head(p)) /\ Head(p) \in Stages(p)
    BY <1>1 DEF Precedes, Stages
  <1> QED BY <1>2, <1>3, <1>4, <1>5

LEMMA ConcatOf ==
  ASSUME NEW p, NEW q, Ordered(p), Ordered(q), \A x \in Stages(p), y \in Stages(q) : Precedes(x, y)
  PROVE  Ordered(p \o q) /\ Stages(p \o q) = Stages(p) \cup Stages(q)
  <1>1. /\ p \in Seq(StageNames) /\ q \in Seq(StageNames) /\ p \o q \in Seq(StageNames)
        /\ Len(p) \in Nat /\ Len(q) \in Nat /\ DOMAIN p = 1 .. Len(p) /\ DOMAIN q = 1 .. Len(q)
        /\ DOMAIN (p \o q) = 1 .. (Len(p) + Len(q))
        /\ \A i \in 1 .. (Len(p) + Len(q)) : (p \o q)[i] = IF i <= Len(p) THEN p[i] ELSE q[i - Len(p)]
    BY ConcatProperties DEF Ordered
  <1>2. ASSUME NEW i \in DOMAIN (p \o q)
        PROVE  \/ i \in DOMAIN p /\ (p \o q)[i] = p[i]
               \/ i - Len(p) \in DOMAIN q /\ (p \o q)[i] = q[i - Len(p)] /\ i > Len(p)
    BY <1>1
  <1>3. ASSUME NEW i \in DOMAIN (p \o q), NEW j \in DOMAIN (p \o q), i < j
        PROVE  Precedes((p \o q)[i], (p \o q)[j])
    <2>1. CASE j <= Len(p)
      BY <1>1, <1>3, <2>1 DEF Ordered
    <2>2. CASE i <= Len(p) /\ j > Len(p)
      <3>1. i \in DOMAIN p /\ (p \o q)[i] = p[i] /\ j - Len(p) \in DOMAIN q /\ (p \o q)[j] = q[j - Len(p)]
        BY <1>1, <2>2
      <3> QED BY <3>1 DEF Stages
    <2>3. CASE i > Len(p)
      <3>1. /\ i - Len(p) \in DOMAIN q /\ (p \o q)[i] = q[i - Len(p)]
            /\ j - Len(p) \in DOMAIN q /\ (p \o q)[j] = q[j - Len(p)] /\ i - Len(p) < j - Len(p)
        BY <1>1, <1>3, <2>3
      <3> QED BY <3>1 DEF Ordered
    <2> QED BY <1>1, <2>1, <2>2, <2>3
  <1>4. Stages(p \o q) \subseteq Stages(p) \cup Stages(q)
    BY <1>2 DEF Stages
  <1>5. Stages(p) \subseteq Stages(p \o q)
    <2> SUFFICES ASSUME NEW i \in DOMAIN p PROVE i \in DOMAIN (p \o q) /\ (p \o q)[i] = p[i]
      BY DEF Stages
    <2> QED BY <1>1
  <1>6. Stages(q) \subseteq Stages(p \o q)
    <2> SUFFICES ASSUME NEW i \in DOMAIN q PROVE i + Len(p) \in DOMAIN (p \o q) /\ (p \o q)[i + Len(p)] = q[i]
      BY DEF Stages
    <2> QED BY <1>1
  <1> QED BY <1>1, <1>3, <1>4, <1>5, <1>6 DEF Ordered

LEMMA ShortPlans ==
  /\ Ordered(<<>>) /\ Stages(<<>>) = {}
  /\ \A x \in StageNames : Ordered(<<x>>) /\ Stages(<<x>>) = {x}
  /\ Ordered(askStages) /\ Stages(askStages) = {"open", "ask", "close"}
  /\ Ordered(withStages) /\ Stages(withStages) = {"open", "work", "close"}
  <1>1. Ordered(<<>>) /\ Stages(<<>>) = {}
    BY EmptySeq DEF Ordered, Stages
  <1>2. ASSUME NEW x \in StageNames PROVE Ordered(<<x>>) /\ Stages(<<x>>) = {x}
    BY DEF Ordered, Stages
  <1>3. Ordered(askStages) /\ Stages(askStages) = {"open", "ask", "close"}
    BY DEF Ordered, Stages, askStages, Precedes, StageNames
  <1>4. Ordered(withStages) /\ Stages(withStages) = {"open", "work", "close"}
    BY DEF Ordered, Stages, withStages, Precedes, StageNames
  <1> QED BY <1>1, <1>2, <1>3, <1>4

LEMMA TurnPlans ==
  /\ Ordered(turnStages) /\ Head(turnStages) = "check" /\ turnStages # <<>>
  /\ Stages(turnStages) = {"check", "open", "ask", "close"} \cup IF Waits THEN {"wait"} ELSE {}
  <1>1. CASE Waits
    <2>1. turnStages = <<"check", "open", "ask", "wait", "close">>
      BY <1>1 DEF turnStages
    <2> QED BY <1>1, <2>1 DEF Ordered, Stages, Precedes, StageNames
  <1>2. CASE ~Waits
    <2>1. turnStages = <<"check", "open", "ask", "close">>
      BY <1>2 DEF turnStages
    <2> QED BY <1>2, <2>1 DEF Ordered, Stages, Precedes, StageNames
  <1> QED BY <1>1, <1>2

----------------------------------------------------------------------------
(* Who asks a toybox, and who has nobody else do it.                       *)
Asking == AskTypes \cup Either \cup {"turn-run", "kit-setup"}
Routed == Ssh /\ type \in Either \cup AskTypes \cup {"turn-run"}

(* The plans of a command, from the whole one to its last stage.           *)
Fits(p) ==
  /\ Ordered(p)
  /\ "check" \in Stages(p) /\ type # "kit-setup" => p # <<>> /\ Head(p) = "check"
  /\ "check" \in Stages(p) => "ask" \in Stages(p) \/ (p # <<>> /\ Head(p) = "check" /\ "work" \in Stages(p))
  /\ Stages(p) \cap {"open", "ask", "wait"} # {} => "close" \in Stages(p)
  /\ "open" \in Stages(p) => "ask" \in Stages(p) \/ (p # <<>> /\ Head(p) = "open" /\ "work" \in Stages(p))
  /\ "wait" \in Stages(p) =>
       type \in {"turn-run", "kit-setup"} /\ ("ask" \in Stages(p) \/ Stages(p) \subseteq {"wait", "close"})
  /\ "ask" \in Stages(p) => type \in Asking \cup Probes
  /\ Routed => "work" \notin Stages(p)
  /\ Waits /\ Stages(p) \cap {"ask", "work"} # {} => "wait" \in Stages(p)

LEMMA LastPlans == Fits(<<>>) /\ Fits(<<"close">>)
  <1>1. "close" \in StageNames /\ Head(<<"close">>) = "close"
    BY DEF StageNames
  <1> QED BY <1>1, ShortPlans DEF Fits

LEMMA TailFits == ASSUME NEW p, Fits(p), p # <<>> PROVE Fits(Tail(p))
  <1>1. PICK s, t, h : /\ s = Stages(p) /\ t = Stages(Tail(p)) /\ h = Head(p)
                       /\ Ordered(p) /\ Ordered(Tail(p)) /\ h \in s /\ t = s \ {h} /\ \A x \in t : Precedes(h, x)
    BY TailOf DEF Fits
  <1>2. t # {} => Tail(p) # <<>>
    BY <1>1, ShortPlans
  <1>3. "check" \in t /\ type # "kit-setup" => FALSE
    BY <1>1 DEF Fits
  <1>10. "check" \in t => "ask" \in t
    BY <1>1 DEF Fits, Precedes
  <1>4. t \cap {"open", "ask", "wait"} # {} => "close" \in t
    BY <1>1 DEF Fits, Precedes
  <1>5. "open" \in t => "ask" \in t
    BY <1>1 DEF Fits, Precedes
  <1>6. "wait" \in t => type \in {"turn-run", "kit-setup"} /\ ("ask" \in t \/ t \subseteq {"wait", "close"})
    BY <1>1 DEF Fits, Precedes
  <1>7. "ask" \in t => type \in Asking \cup Probes
    BY <1>1 DEF Fits
  <1>8. Routed => "work" \notin t
    BY <1>1 DEF Fits
  <1>9. Waits /\ t \cap {"ask", "work"} # {} => "wait" \in t
    BY <1>1 DEF Fits, Precedes
  <1> QED BY <1>1, <1>3, <1>4, <1>5, <1>6, <1>7, <1>8, <1>9, <1>10 DEF Fits

LEMMA CheckPlans ==
  ASSUME NEW t
  PROVE  /\ Ordered(checkStage(t) \o askStages) /\ checkStage(t) \o askStages # <<>>
         /\ Stages(checkStage(t) \o askStages) \ {"check"} = {"open", "ask", "close"}
         /\ "check" \in Stages(checkStage(t) \o askStages) => Head(checkStage(t) \o askStages) = "check"
         /\ Ordered(checkStage(t) \o <<"work">>) /\ checkStage(t) \o <<"work">> # <<>>
         /\ Stages(checkStage(t) \o <<"work">>) \ {"check"} = {"work"}
         /\ "check" \in Stages(checkStage(t) \o <<"work">>) => Head(checkStage(t) \o <<"work">>) = "check"
  <1>1. ASSUME NEW q, Ordered(q), Stages(q) # {}, "check" \notin Stages(q), \A y \in Stages(q) : Precedes("check", y)
        PROVE  /\ Ordered(checkStage(t) \o q) /\ checkStage(t) \o q # <<>>
               /\ Stages(checkStage(t) \o q) \ {"check"} = Stages(q)
               /\ "check" \in Stages(checkStage(t) \o q) => Head(checkStage(t) \o q) = "check"
    <2>1. CASE checkStage(t) = <<"check">>
      <3>1. Ordered(<<"check">>) /\ Stages(<<"check">>) = {"check"}
        BY ShortPlans DEF StageNames
      <3>2. Ordered(<<"check">> \o q) /\ Stages(<<"check">> \o q) = {"check"} \cup Stages(q)
        BY <1>1, <3>1, ConcatOf
      <3>3. Head(<<"check">> \o q) = "check"
        BY <1>1, <3>1, ConcatProperties, HeadTailProperties DEF Ordered
      <3>4. <<"check">> \o q # <<>>
        BY <3>2, ShortPlans
      <3> QED BY <1>1, <2>1, <3>2, <3>3, <3>4
    <2>2. CASE checkStage(t) = <<>>
      <3>1. <<>> \o q = q
        BY <1>1, ConcatEmptySeq DEF Ordered
      <3> QED BY <1>1, <2>2, <3>1, ShortPlans
    <2> QED BY <2>1, <2>2 DEF checkStage
  <1>2. \A y \in {"open", "ask", "close", "work"} : Precedes("check", y)
    BY DEF Precedes
  <1>3. Ordered(<<"work">>) /\ Stages(<<"work">>) = {"work"}
    BY ShortPlans DEF StageNames
  <1> QED BY <1>1, <1>2, <1>3, ShortPlans

LEMMA MainFits ==
  Fits(mainStages(type)) /\ ("wait" \in Stages(mainStages(type)) => "ask" \in Stages(mainStages(type)))
  <1> DEFINE p == mainStages(type)
  <1> SUFFICES Fits(p) /\ ("wait" \in Stages(p) => "ask" \in Stages(p))
    OBVIOUS
  <1> HIDE DEF p
  <1>1. CASE type \in AskTypes \cup {"fetch"}
    <2>1. p = askStages
      BY <1>1 DEF p, mainStages, AskTypes, RunsHere, Either, FeedTypes, PromptTypes, HandoffTypes,
                  DispatchTypes
    <2>2. type \in Asking \cup Probes /\ ~Waits
      BY <1>1 DEF Asking, Probes, Waits, AskTypes
    <2> QED BY <2>1, <2>2, ShortPlans DEF Fits
  <1>2. CASE type = "turn-run"
    <2>1. p = turnStages
      BY <1>2 DEF p, mainStages, AskTypes, RunsHere, Either, FeedTypes, PromptTypes, HandoffTypes,
                  DispatchTypes
    <2> QED BY <1>2, <2>1, TurnPlans DEF Fits, Asking
  <1>3. CASE type = "kit-setup"
    <2>1. p = <<"work">> \o turnStages
      BY <1>3 DEF p, mainStages, AskTypes, RunsHere, Either, FeedTypes, PromptTypes, HandoffTypes,
                  DispatchTypes
    <2>2. Ordered(<<"work">>) /\ Stages(<<"work">>) = {"work"}
      BY ShortPlans DEF StageNames
    <2>3. Ordered(p) /\ Stages(p) = {"work"} \cup Stages(turnStages)
      BY <2>1, <2>2, TurnPlans, ConcatOf DEF Precedes
    <2>4. ~Routed
      BY <1>3 DEF Routed, AskTypes, Either, FeedTypes, PromptTypes, HandoffTypes, DispatchTypes
    <2> QED BY <1>3, <2>3, <2>4, TurnPlans DEF Fits, Asking
  <1>4. CASE type = "workbench-doctor"
    <2>1. p = <<"work">> \o askStages
      BY <1>4 DEF p, mainStages, AskTypes, RunsHere, Either, FeedTypes, PromptTypes, HandoffTypes,
                  DispatchTypes
    <2>2. Ordered(<<"work">>) /\ Stages(<<"work">>) = {"work"}
      BY ShortPlans DEF StageNames
    <2>3. Ordered(p) /\ Stages(p) = {"work", "open", "ask", "close"}
      BY <2>1, <2>2, ShortPlans, ConcatOf DEF Precedes
    <2>4. ~Routed /\ ~Waits /\ type \in Probes
      BY <1>4 DEF Routed, Waits, Probes, AskTypes, Either, FeedTypes, PromptTypes, HandoffTypes, DispatchTypes
    <2> QED BY <2>3, <2>4 DEF Fits
  <1>5. CASE type = "workbench-run" \/ (type \in RunsHere /\ ~Ssh)
    <2>1. p = withStages
      BY <1>5 DEF p, mainStages, AskTypes, RunsHere, Either, FeedTypes, PromptTypes, HandoffTypes,
                  DispatchTypes
    <2>2. ~Routed /\ ~Waits
      BY <1>5 DEF Routed, Waits, RunsHere, AskTypes, Either, FeedTypes, PromptTypes, HandoffTypes, DispatchTypes
    <2>3. withStages # <<>> /\ Head(withStages) = "open"
      BY DEF withStages
    <2> QED BY <2>1, <2>2, <2>3, ShortPlans DEF Fits
  <1>6. CASE type \in Either /\ Ssh
    <2>1. p = checkStage(type) \o askStages
      BY <1>6 DEF p, mainStages, AskTypes, RunsHere, Either, FeedTypes, PromptTypes, HandoffTypes, DispatchTypes
    <2>2. ~Waits /\ type \in Asking
      BY <1>6 DEF Waits, Asking, Either, FeedTypes, PromptTypes, HandoffTypes, DispatchTypes
    <2>3. /\ Ordered(p) /\ p # <<>> /\ Stages(p) \ {"check"} = {"open", "ask", "close"}
          /\ "check" \in Stages(p) => Head(p) = "check"
      BY <2>1, CheckPlans
    <2> QED BY <2>2, <2>3 DEF Fits
  <1>7. CASE /\ type \notin AskTypes \cup {"fetch", "turn-run", "kit-setup", "workbench-doctor", "workbench-run"}
             /\ ~(type \in RunsHere /\ ~Ssh) /\ ~(type \in Either /\ Ssh)
    <2>1. p = checkStage(type) \o <<"work">>
      BY <1>7 DEF p, mainStages, AskTypes, RunsHere, Either, FeedTypes, PromptTypes, HandoffTypes,
                  DispatchTypes
    <2>2. ~Waits /\ ~Routed
      BY <1>7 DEF Waits, Routed
    <2>3. /\ Ordered(p) /\ p # <<>> /\ Stages(p) \ {"check"} = {"work"}
          /\ "check" \in Stages(p) => Head(p) = "check"
      BY <2>1, CheckPlans
    <2> QED BY <2>2, <2>3 DEF Fits
  <1> QED BY <1>1, <1>2, <1>3, <1>4, <1>5, <1>6, <1>7

----------------------------------------------------------------------------
Fresh == done = NotDone /\ box = "none" /\ ~boxBusy
Untouched ==
  \/ ending = "none" /\ Stages(plan) \subseteq {"close"}
  \/ "check" \in Stages(plan) /\ type # "kit-setup"
  \/ ending = "refused" /\ type # "kit-setup"

(* Whose toybox it is, and who closes it.                                  *)
BoxInv ==
  /\ Untouched => Fresh
  /\ box \notin {"none", "closed"} => "close" \in Stages(plan) \/ Lazy \/ type = "workflow-run"
  /\ boxBusy => type \in Asking \cup Probes

(* How the command may end, when the stages to come are over.              *)
FinalEndings == {"completed", "failed", "interrupted", "timed_out", "error", "refused"}
EndInv ==
  /\ ending \in {"error", "refused"} => Stages(plan) \subseteq {"close"}
  /\ type = "none" => ending = "none" /\ plan = <<>> /\ exit = -1
  /\ exit # -1 => exit = exitCode /\ plan = <<>> /\ (ending # "none" \/ type = "help")
  /\ Waits /\ "wait" \notin Stages(plan) /\ ending # "none" => ending \in FinalEndings
  /\ type = "feed-dispatch" => ending \in {"none", "ok", "failed", "error", "refused"}

(* Where it was carried out, with which options.                           *)
CarriedInv ==
  /\ "wait" \in Stages(plan) => "ask" \in Stages(plan) \/ done.at = "box"
  /\ ending \notin {"none", "error", "refused"} => done.at # "nowhere" /\ (Routed => done.at = "box")
  /\ done.at \in {"nowhere", "here", "box"}
  /\ done.at = "here" => done.options = GivenOptions
  /\ done.at = "box" => done.options = OptionsAt("box") /\ type \in Asking

CommandInv == Fits(plan) /\ BoxInv /\ EndInv /\ CarriedInv

LEMMA CommandStarts == CommandInit => CommandInv
  <1> SUFFICES ASSUME CommandInit PROVE CommandInv
    OBVIOUS
  <1>1. /\ type = "none" /\ plan = <<>> /\ box = "none" /\ ~boxBusy /\ done = NotDone /\ ending = "none" /\ exit = -1
        /\ done.at = "nowhere" /\ Stages(plan) = {}
    BY ShortPlans DEF CommandInit, NotDone
  <1>2. Fits(plan) /\ ~Lazy
    BY <1>1, LastPlans DEF Lazy
  <1>3. ~Waits
    BY <1>1 DEF Waits
  <1> QED BY <1>1, <1>2, <1>3 DEF CommandInv, BoxInv, EndInv, CarriedInv, Fresh

(* What depends on the command line and the type of command alone.         *)
LEMMA SameCommand ==
  ASSUME UNCHANGED <<line, type>>
  PROVE  /\ Waits' = Waits /\ Ssh' = Ssh /\ Routed' = Routed
         /\ GivenOptions' = GivenOptions /\ OptionsAt("box")' = OptionsAt("box")
         /\ \A p : Fits(p)' = Fits(p)
  <1>1. Waits' = Waits /\ Ssh' = Ssh /\ Routed' = Routed
    BY DEF Waits, Ssh, Routed
  <1>2. GivenOptions' = GivenOptions /\ OptionsAt("box")' = OptionsAt("box")
    BY DEF GivenOptions, OptionsAt
  <1>3. \A p : Fits(p)' = Fits(p)
    BY <1>1 DEF Fits
  <1> QED BY <1>1, <1>2, <1>3

(* A step of the toybox alone.                                             *)
LEMMA BoxSteps ==
  ASSUME CommandInv, UNCHANGED <<line, type, plan, done, ending, exit>>,
         Untouched => box' = "none" /\ ~boxBusy',
         box' \notin {"none", "closed"} => "close" \in Stages(plan) \/ Lazy \/ type = "workflow-run",
         boxBusy' => type \in Asking \cup Probes
  PROVE  CommandInv'
  <1>1. /\ Waits' = Waits /\ Ssh' = Ssh /\ Routed' = Routed
        /\ GivenOptions' = GivenOptions /\ OptionsAt("box")' = OptionsAt("box")
    BY SameCommand
  <1>2. Fits(plan)'
    BY DEF CommandInv, Fits, Routed, Ssh, Waits
  <1>3. BoxInv'
    BY DEF CommandInv, BoxInv, Untouched, Fresh, Lazy, Stage
  <1>4. EndInv'
    BY <1>1 DEF CommandInv, EndInv, exitCode
  <1>5. CarriedInv'
    BY <1>1 DEF CommandInv, CarriedInv
  <1> QED BY <1>2, <1>3, <1>4, <1>5 DEF CommandInv

(* A stage is over.                                                        *)
LEMMA AfterStage ==
  ASSUME CommandInv, NEW stage, Stage(stage), plan' = Tail(plan), UNCHANGED <<line, type>>
  PROVE  /\ stage \in Stages(plan) /\ Stages(plan') = Stages(plan) \ {stage}
         /\ \A x \in Stages(plan') : Precedes(stage, x)
         /\ Fits(plan)' /\ exit = -1
         /\ Stages(plan') # {} \/ plan' = <<>>
  <1>1. plan # <<>> /\ Head(plan) = stage /\ Fits(plan) /\ Ordered(plan)
    BY DEF Stage, CommandInv, Fits
  <1>2. Fits(Tail(plan))
    BY <1>1, TailFits
  <1>3. PICK p : p = Tail(plan) /\ Fits(p)
    BY <1>2
  <1>4. Fits(plan)'
    BY <1>3 DEF Fits, Routed, Ssh, Waits
  <1>5. exit = -1
    BY <1>1 DEF CommandInv, EndInv
  <1>6. Stages(plan') # {} \/ plan' = <<>>
    <2>1. Tail(plan) \in Seq(StageNames)
      BY <1>1, TailOf DEF Ordered
    <2>2. \A q \in Seq(StageNames) : q # <<>> => 1 \in DOMAIN q
      BY EmptySeq
    <2> QED BY <2>1, <2>2 DEF Stages
  <1> QED BY <1>1, <1>4, <1>5, <1>6, TailOf

(* Something fails: what is left is in a finally clause.                   *)
LEMMA FailKeeps ==
  ASSUME CommandInv, NEW how \in {"error", "refused"}, Fail(how), plan # <<>>,
         how = "refused" => "check" \in Stages(plan),
         Lazy => box = "none"
  PROVE  CommandInv'
  <1>1. UNCHANGED <<line, type, box, boxBusy, exit>>
    BY DEF Fail
  <1>2. /\ Waits' = Waits /\ Ssh' = Ssh /\ Routed' = Routed
        /\ GivenOptions' = GivenOptions /\ OptionsAt("box")' = OptionsAt("box")
    BY <1>1, SameCommand
  <1>3. /\ plan' \in {<<>>, <<"close">>}
        /\ Stages(plan') = Stages(plan) \cap {"close"}
    <2>1. Stages(<<>>) = {} /\ Stages(<<"close">>) = {"close"}
      BY ShortPlans DEF StageNames
    <2>2. "close" \in Stages(plan) <=> \E i \in DOMAIN plan : plan[i] = "close"
      BY DEF Stages
    <2> QED BY <2>1, <2>2 DEF Fail, Abandon
  <1>4. Fits(plan)'
    <2>1. Fits(<<>>) /\ Fits(<<"close">>)
      BY LastPlans
    <2>2. PICK p : p = plan' /\ Fits(p)
      BY <1>3, <2>1
    <2> QED BY <1>1, <2>2 DEF Fits, Routed, Ssh, Waits
  <1>5. /\ type \in Probes => ending' = "ok" /\ done' = [at |-> "here", options |-> GivenOptions]
        /\ type \notin Probes => ending' = how /\ done' = done
    BY DEF Fail
  <1>6. exit = -1
    BY DEF CommandInv, EndInv
  <1>7. BoxInv'
    <2>1. ending' = "refused" /\ type # "kit-setup" => Fresh /\ done' = done
      BY <1>5 DEF CommandInv, BoxInv, Untouched
    <2>2. Untouched' => Fresh'
      BY <1>1, <1>3, <1>5, <2>1 DEF Untouched, Fresh
    <2>3. box' \notin {"none", "closed"} => "close" \in Stages(plan') \/ type = "workflow-run"
      BY <1>1, <1>3 DEF CommandInv, BoxInv
    <2> QED BY <1>1, <2>2, <2>3 DEF CommandInv, BoxInv
  <1>8. EndInv'
    <2>1. type = "feed-dispatch" => type \notin Probes
      BY DEF Probes
    <2>2. type # "none"
      BY DEF CommandInv, EndInv
    <2>3. Waits => type \notin Probes
      BY DEF Waits, Probes
    <2> QED BY <1>1, <1>2, <1>3, <1>5, <1>6, <2>1, <2>2, <2>3 DEF EndInv, FinalEndings
  <1>9. CarriedInv'
    <2>1. Routed => type \notin Probes
      BY DEF Routed, Probes, Either, AskTypes, FeedTypes, PromptTypes, HandoffTypes, DispatchTypes
    <2> QED BY <1>1, <1>2, <1>3, <1>5, <2>1 DEF CommandInv, CarriedInv
  <1> QED BY <1>4, <1>7, <1>8, <1>9 DEF CommandInv

LEMMA Carrying ==
  ASSUME NEW at \in {"here", "box"}, NEW how, CarriesOut(at, how)
  PROVE  /\ ending' = how /\ how \in Results
         /\ done' = IF type \in Probes \/ at = "here" THEN [at |-> "here", options |-> GivenOptions]
                    ELSE [at |-> "box", options |-> OptionsAt("box")]
         /\ type = "turn-run" => at = "box"
         /\ type \in {"turn-run", "kit-setup"} /\ at = "box" => how = "started"
         /\ type = "feed-dispatch" => how \in {"ok", "failed"}
  <1> USE DEF CarriedOut, OptionsAt, Results
  <1>1. CASE feedCommand(at, how)
    BY <1>1 DEF feedCommand, FeedTypes, Probes
  <1>2. CASE promptCommand(at, how)
    BY <1>2 DEF promptCommand, PromptTypes, Probes
  <1>3. CASE handoffCommand(at, how)
    BY <1>3 DEF handoffCommand, HandoffTypes, Probes
  <1>4. CASE dispatchCommand(at, how)
    BY <1>4 DEF dispatchCommand, DispatchTypes, Probes
  <1>5. CASE workbenchRun(at, how)
    BY <1>5 DEF workbenchRun, Probes
  <1>6. CASE workflowCommand(at, how)
    BY <1>6 DEF workflowCommand, Probes
  <1>7. CASE kitSetup(at, how)
    BY <1>7 DEF kitSetup, Probes
  <1>8. CASE turnCommand(at, how)
    BY <1>8 DEF turnCommand, Probes
  <1>9. CASE otherCommand(at, how)
    BY <1>9 DEF otherCommand, Either, FeedTypes, Probes
  <1> QED BY <1>1, <1>2, <1>3, <1>4, <1>5, <1>6, <1>7, <1>8, <1>9 DEF CarriesOut

(* While a stage is to come that does something, nothing is over.          *)
LEMMA Underway ==
  ASSUME CommandInv, NEW stage \in {"work", "open", "ask", "wait"}, Stage(stage)
  PROVE  ~Untouched /\ ending \notin {"error", "refused"} /\ stage \in Stages(plan) /\ exit = -1
         /\ ~("check" \in Stages(plan) /\ type # "kit-setup")
         /\ type # "none"
  <1>1. plan # <<>> /\ Head(plan) = stage /\ stage \in Stages(plan)
    BY TailOf DEF Stage, CommandInv, Fits
  <1>2. ~("check" \in Stages(plan) /\ type # "kit-setup")
    BY <1>1 DEF CommandInv, Fits
  <1>3. ending \notin {"error", "refused"} /\ exit = -1 /\ type # "none"
    BY <1>1 DEF CommandInv, EndInv
  <1> QED BY <1>1, <1>2, <1>3 DEF Untouched

LEMMA WorkKeeps ==
  ASSUME CommandInv, work, Lazy => box = "none"
  PROVE  CommandInv'
  <1>1. PICK how : CarriesOut("here", how)
    BY DEF work
  <1>2. UNCHANGED <<line, type, box, boxBusy, exit>> /\ Stage("work") /\ plan' = Tail(plan)
    BY DEF work
  <1>3. /\ ending' = how /\ how \in Results /\ done' = [at |-> "here", options |-> GivenOptions]
        /\ type # "turn-run" /\ type = "feed-dispatch" => how \in {"ok", "failed"}
    BY <1>1, Carrying
  <1>4. /\ "work" \in Stages(plan) /\ Stages(plan') = Stages(plan) \ {"work"} /\ Fits(plan)' /\ exit = -1
    BY <1>2, AfterStage
  <1>5. /\ Waits' = Waits /\ Ssh' = Ssh /\ Routed' = Routed
        /\ GivenOptions' = GivenOptions /\ OptionsAt("box")' = OptionsAt("box")
    BY <1>2, SameCommand
  <1>6. ~("check" \in Stages(plan) /\ type # "kit-setup") /\ type # "none"
    BY <1>2, Underway
  <1>7. BoxInv'
    BY <1>2, <1>3, <1>4, <1>6 DEF CommandInv, BoxInv, Untouched, Results
  <1>8. EndInv'
    <2>1. Waits => "wait" \in Stages(plan)
      BY <1>4 DEF CommandInv, Fits
    <2>2. type = "feed-dispatch" => how \in {"ok", "failed"}
      BY <1>1, Carrying
    <2> QED BY <1>2, <1>3, <1>4, <1>5, <1>6, <2>1, <2>2 DEF EndInv, Results
  <1>9. CarriedInv'
    <2>1. ~Routed /\ ("wait" \in Stages(plan) => "ask" \in Stages(plan))
      BY <1>4 DEF CommandInv, Fits
    <2> QED BY <1>2, <1>3, <1>4, <1>5, <2>1 DEF CarriedInv
  <1> QED BY <1>4, <1>7, <1>8, <1>9 DEF CommandInv

LEMMA AnswerKeeps == ASSUME CommandInv, answer PROVE CommandInv'
  <1>1. /\ UNCHANGED <<line, type, box, exit>> /\ boxBusy /\ ~boxBusy'
        /\ type \in Asking \cup Probes /\ ~Untouched
    BY DEF answer, CommandInv, BoxInv, Fresh
  <1>2. /\ Waits' = Waits /\ Ssh' = Ssh /\ Routed' = Routed
        /\ GivenOptions' = GivenOptions /\ OptionsAt("box")' = OptionsAt("box")
    BY <1>1, SameCommand
  <1>3. Routed => type \notin Probes
    BY DEF Routed, Probes, Either, AskTypes, FeedTypes, PromptTypes, HandoffTypes, DispatchTypes
  <1>4. CASE Stage("ask")
    <2>1. plan' = Tail(plan) /\ \E how \in Results : CarriesOut("box", how)
      BY <1>4 DEF answer
    <2>2. PICK how : CarriesOut("box", how)
      BY <2>1
    <2>3. /\ ending' = how /\ how \in Results
          /\ done' = IF type \in Probes THEN [at |-> "here", options |-> GivenOptions]
                     ELSE [at |-> "box", options |-> OptionsAt("box")]
          /\ type = "feed-dispatch" => how \in {"ok", "failed"}
      BY <2>2, Carrying
    <2>4. /\ "ask" \in Stages(plan) /\ Stages(plan') = Stages(plan) \ {"ask"} /\ Fits(plan)' /\ exit = -1
          /\ \A x \in Stages(plan') : Precedes("ask", x)
      BY <1>1, <1>4, <2>1, AfterStage
    <2>5. type # "none"
      BY <1>4, Underway
    <2>6. "check" \notin Stages(plan') /\ how \notin {"none", "error", "refused"}
      BY <2>3, <2>4 DEF Precedes, Results
    <2>7. BoxInv'
      <3>1. ~Untouched'
        BY <2>3, <2>6 DEF Untouched
      <3>2. ~Lazy
        BY <1>4 DEF Lazy, Stage
      <3> QED BY <1>1, <2>4, <3>1, <3>2 DEF CommandInv, BoxInv
    <2>8. EndInv'
      <3>1. Waits => "wait" \in Stages(plan')
        BY <2>4 DEF CommandInv, Fits
      <3> QED BY <1>1, <1>2, <2>3, <2>4, <2>5, <2>6, <3>1 DEF EndInv, Results
    <2>9. CarriedInv'
      <3>1. "wait" \in Stages(plan') => type \notin Probes
        BY <2>4 DEF CommandInv, Fits, Probes
      <3> QED BY <1>1, <1>2, <1>3, <2>3, <2>6, <3>1 DEF CarriedInv
    <2> QED BY <2>4, <2>7, <2>8, <2>9 DEF CommandInv
  <1>5. CASE ~Stage("ask")
    <2>1. /\ UNCHANGED <<plan, ending>>
          /\ done' = IF type \in Probes THEN done ELSE [at |-> "box", options |-> OptionsAt("box")]
      BY <1>5 DEF answer
    <2>2. Fits(plan)'
      BY <1>1, <2>1 DEF CommandInv, Fits, Routed, Ssh, Waits
    <2>3. BoxInv'
      BY <1>1, <2>1 DEF CommandInv, BoxInv, Untouched, Lazy, Stage
    <2>4. EndInv'
      BY <1>1, <1>2, <2>1 DEF CommandInv, EndInv, exitCode
    <2>5. CarriedInv'
      BY <1>1, <1>2, <1>3, <2>1 DEF CommandInv, CarriedInv
    <2> QED BY <2>2, <2>3, <2>4, <2>5 DEF CommandInv
  <1> QED BY <1>4, <1>5

LEMMA CheckKeeps == ASSUME CommandInv, check PROVE CommandInv'
  <1>1. Stage("check") /\ "check" \in Stages(plan) /\ plan # <<>> /\ ~Lazy
    BY TailOf DEF check, Stage, Lazy, CommandInv, Fits
  <1>2. CASE {"sandbox", "permissions"} \subseteq line.given
    <2>1. Fail("refused")
      BY <1>2 DEF check
    <2> QED BY <1>1, <2>1, FailKeeps
  <1>3. CASE ~({"sandbox", "permissions"} \subseteq line.given)
    <2>1. plan' = Tail(plan) /\ UNCHANGED <<line, type, box, boxBusy, done, ending, exit>>
      BY <1>3 DEF check
    <2>2. /\ Stages(plan') = Stages(plan) \ {"check"} /\ Fits(plan)' /\ exit = -1
      BY <1>1, <2>1, AfterStage
    <2>3. /\ Waits' = Waits /\ Ssh' = Ssh /\ Routed' = Routed
          /\ GivenOptions' = GivenOptions /\ OptionsAt("box")' = OptionsAt("box")
      BY <2>1, SameCommand
    <2>4. ending \notin {"error", "refused"} /\ type # "none" /\ Stages(plan) \cap {"ask", "work"} # {}
      BY <1>1 DEF CommandInv, EndInv, Fits
    <2>5. BoxInv'
      <3>1. ~Untouched'
        BY <2>1, <2>2, <2>4 DEF Untouched
      <3> QED BY <1>1, <2>1, <2>2, <3>1 DEF CommandInv, BoxInv
    <2>6. EndInv'
      BY <2>1, <2>2, <2>3, <2>4 DEF CommandInv, EndInv
    <2>7. CarriedInv'
      BY <2>1, <2>2, <2>3 DEF CommandInv, CarriedInv
    <2> QED BY <2>2, <2>5, <2>6, <2>7 DEF CommandInv
  <1> QED BY <1>2, <1>3

LEMMA InitializedKeeps == ASSUME CommandInv, boxInitialized PROVE CommandInv'
  <1>1. UNCHANGED <<line, type, boxBusy, done, ending, exit>> /\ box = "starting" /\ box' = "ready"
    BY DEF boxInitialized
  <1>2. ~Untouched
    BY <1>1 DEF CommandInv, BoxInv, Fresh
  <1>3. CASE Stage("open")
    <2>1. plan' = Tail(plan)
      BY <1>3 DEF boxInitialized
    <2>2. "open" \in Stages(plan) /\ Stages(plan') = Stages(plan) \ {"open"} /\ Fits(plan)' /\ exit = -1
      BY <1>1, <1>3, <2>1, AfterStage
    <2>3. /\ Waits' = Waits /\ Ssh' = Ssh /\ Routed' = Routed
          /\ GivenOptions' = GivenOptions /\ OptionsAt("box")' = OptionsAt("box")
      BY <1>1, SameCommand
    <2>4. ending \notin {"error", "refused"} /\ type # "none"
      BY <1>3, Underway
    <2>5. Stages(plan) \cap {"ask", "work"} # {} /\ "close" \in Stages(plan)
      BY <2>2 DEF CommandInv, Fits
    <2>6. BoxInv'
      <3>1. ~Untouched'
        BY <1>1, <1>2, <2>2, <2>4, <2>5 DEF Untouched
      <3> QED BY <1>1, <2>2, <2>5, <3>1 DEF CommandInv, BoxInv
    <2>7. EndInv'
      BY <1>1, <2>2, <2>3, <2>4 DEF CommandInv, EndInv
    <2>8. CarriedInv'
      BY <1>1, <2>2, <2>3 DEF CommandInv, CarriedInv
    <2> QED BY <2>2, <2>6, <2>7, <2>8 DEF CommandInv
  <1>4. CASE ~Stage("open")
    <2>1. plan' = plan
      BY <1>4 DEF boxInitialized
    <2> QED BY <1>1, <1>2, <2>1, BoxSteps DEF CommandInv, BoxInv
  <1> QED BY <1>3, <1>4

LEMMA WaitKeeps == ASSUME CommandInv, waitForTurn PROVE CommandInv'
  <1>1. /\ Stage("wait") /\ plan' = Tail(plan) /\ UNCHANGED <<line, type, box, boxBusy, done, exit>>
        /\ ending' \in {"completed", "failed", "interrupted", "timed_out"}
    BY DEF waitForTurn
  <1>2. /\ "wait" \in Stages(plan) /\ Stages(plan') = Stages(plan) \ {"wait"} /\ Fits(plan)' /\ exit = -1
        /\ \A x \in Stages(plan') : Precedes("wait", x)
    BY <1>1, AfterStage
  <1>3. /\ Waits' = Waits /\ Ssh' = Ssh /\ Routed' = Routed
        /\ GivenOptions' = GivenOptions /\ OptionsAt("box")' = OptionsAt("box")
    BY <1>1, SameCommand
  <1>4. type \in {"turn-run", "kit-setup"} /\ done.at = "box" /\ "close" \in Stages(plan)
    BY <1>2 DEF CommandInv, Fits, CarriedInv, Precedes
  <1>5. BoxInv'
    <2>1. ~Untouched'
      BY <1>1, <1>2 DEF Untouched, Precedes
    <2> QED BY <1>1, <1>2, <1>4, <2>1 DEF CommandInv, BoxInv
  <1>6. EndInv'
    BY <1>1, <1>2, <1>3, <1>4 DEF EndInv, FinalEndings
  <1>7. CarriedInv'
    BY <1>1, <1>2, <1>3, <1>4 DEF CommandInv, CarriedInv
  <1> QED BY <1>2, <1>5, <1>6, <1>7 DEF CommandInv

LEMMA CloseKeeps == ASSUME CommandInv, close PROVE CommandInv'
  <1>1. /\ Stage("close") /\ plan' = Tail(plan) /\ UNCHANGED <<line, type, done, ending, exit>>
        /\ box' \in {"none", "closed"} /\ (box = "none" => box' = "none") /\ (boxBusy' => boxBusy)
    BY DEF close
  <1>2. /\ "close" \in Stages(plan) /\ Stages(plan') = Stages(plan) \ {"close"} /\ Fits(plan)' /\ exit = -1
        /\ \A x \in Stages(plan') : Precedes("close", x)
    BY <1>1, AfterStage
  <1>3. /\ Waits' = Waits /\ Ssh' = Ssh /\ Routed' = Routed
        /\ GivenOptions' = GivenOptions /\ OptionsAt("box")' = OptionsAt("box")
    BY <1>1, SameCommand
  <1>4. Stages(plan') = {} /\ Stages(plan) = {"close"}
    BY <1>2 DEF Precedes
  <1>5. BoxInv'
    <2>1. Untouched' => Untouched
      BY <1>1, <1>4 DEF Untouched
    <2> QED BY <1>1, <2>1 DEF CommandInv, BoxInv, Fresh
  <1>6. EndInv'
    <2>1. type # "none"
      BY <1>2, ShortPlans DEF CommandInv, EndInv
    <2> QED BY <1>1, <1>2, <1>3, <1>4, <2>1 DEF CommandInv, EndInv
  <1>7. CarriedInv'
    BY <1>1, <1>3, <1>4 DEF CommandInv, CarriedInv
  <1> QED BY <1>2, <1>5, <1>6, <1>7 DEF CommandInv

LEMMA FailSteps ==
  ASSUME CommandInv, (workFails /\ (Lazy => box = "none")) \/ methodFails \/ requestFails
  PROVE  CommandInv'
  <1>1. CASE workFails /\ (Lazy => box = "none")
    <2>1. Fail("error") /\ plan # <<>>
      BY <1>1 DEF workFails, Stage
    <2> QED BY <1>1, <2>1, FailKeeps
  <1>2. CASE methodFails \/ requestFails
    <2>1. Fail("error") /\ plan # <<>> /\ ~Lazy
      BY <1>2 DEF methodFails, requestFails, Requesting, Stage, Lazy
    <2> QED BY <2>1, FailKeeps
  <1> QED BY <1>1, <1>2

LEMMA OpenSteps ==
  ASSUME CommandInv, open \/ ask \/ openForTask \/ closeForTask \/ lateLook \/ toyboxDies
  PROVE  CommandInv'
  <1>1. UNCHANGED <<line, type, plan, done, ending, exit>>
    BY DEF open, ask, openForTask, closeForTask, lateLook, toyboxDies
  <1>2. CASE open
    <2>1. ~Untouched /\ "open" \in Stages(plan) /\ box' = "starting" /\ boxBusy' = boxBusy
      BY <1>2, Underway DEF open
    <2>2. "close" \in Stages(plan)
      BY <2>1 DEF CommandInv, Fits
    <2> QED BY <1>1, <2>1, <2>2, BoxSteps DEF CommandInv, BoxInv
  <1>3. CASE ask
    <2>1. ~Untouched /\ "ask" \in Stages(plan) /\ box' = box
      BY <1>3, Underway DEF ask
    <2>2. type \in Asking \cup Probes
      BY <2>1 DEF CommandInv, Fits
    <2> QED BY <1>1, <2>1, <2>2, BoxSteps DEF CommandInv, BoxInv
  <1>4. CASE openForTask
    <2>1. ~Untouched /\ Lazy /\ boxBusy' = boxBusy
      BY <1>4, Underway DEF openForTask, Lazy
    <2> QED BY <1>1, <2>1, BoxSteps DEF CommandInv, BoxInv
  <1>5. CASE closeForTask
    <2>1. box' = "none" /\ boxBusy' = boxBusy
      BY <1>5 DEF closeForTask
    <2> QED BY <1>1, <2>1, BoxSteps DEF CommandInv, BoxInv, Fresh
  <1>6. CASE lateLook
    <2>1. /\ type = "workflow-run" /\ plan = <<>> /\ ending # "none" /\ done # NotDone /\ boxBusy' = boxBusy
      BY <1>6 DEF lateLook
    <2>2. ~Untouched
      BY <2>1, ShortPlans DEF CommandInv, BoxInv, Untouched, Fresh
    <2> QED BY <1>1, <2>1, <2>2, BoxSteps DEF CommandInv, BoxInv
  <1>7. CASE toyboxDies
    <2>1. box \in {"starting", "ready"} /\ box' = "died" /\ ~boxBusy'
      BY <1>7 DEF toyboxDies
    <2>2. ~Untouched /\ ("close" \in Stages(plan) \/ Lazy \/ type = "workflow-run")
      BY <2>1 DEF CommandInv, BoxInv, Fresh
    <2> QED BY <1>1, <2>1, <2>2, BoxSteps
  <1> QED BY <1>2, <1>3, <1>4, <1>5, <1>6, <1>7

LEMMA BeginKeeps ==
  ASSUME CommandInv, \/ \E result \in {"help", "refused", commandType(line.words)} : readArguments(result)
                     \/ startCommand
  PROVE  CommandInv'
  <1>1. CASE startCommand
    <2>1. /\ plan = <<>> /\ ending = "none" /\ exit = -1 /\ type # "none" /\ plan' = mainStages(type)
          /\ UNCHANGED <<line, type, box, boxBusy, done, ending, exit>>
      BY <1>1 DEF startCommand
    <2>2. Fresh
      BY <2>1, ShortPlans DEF CommandInv, BoxInv, Untouched
    <2>3. PICK p : p = plan' /\ Fits(p) /\ ("wait" \in Stages(p) => "ask" \in Stages(p))
      BY <2>1, MainFits
    <2>4. Fits(plan)'
      BY <2>1, <2>3 DEF Fits, Routed, Ssh, Waits
    <2>5. BoxInv'
      BY <2>1, <2>2 DEF BoxInv, Fresh
    <2>6. EndInv'
      BY <2>1 DEF EndInv
    <2>7. CarriedInv'
      BY <2>1, <2>2, <2>3 DEF CarriedInv, Fresh, NotDone
    <2> QED BY <2>4, <2>5, <2>6, <2>7 DEF CommandInv
  <1>2. CASE \E result \in {"help", "refused", commandType(line.words)} : readArguments(result)
    <2>1. PICK result : readArguments(result)
      BY <1>2
    <2>2. /\ type = "none" /\ type' = result /\ ending' = IF result = "refused" THEN "refused" ELSE "none"
          /\ UNCHANGED <<line, plan, box, boxBusy, done, exit>>
      BY <2>1 DEF readArguments
    <2>3. plan = <<>> /\ exit = -1 /\ ending = "none" /\ Stages(plan) = {}
      BY <2>2, ShortPlans DEF CommandInv, EndInv
    <2>4. Fresh
      BY <2>3 DEF CommandInv, BoxInv, Untouched
    <2>5. Fits(plan)'
      <3>1. Ordered(plan') /\ Stages(plan') = {}
        BY <2>2, <2>3, ShortPlans
      <3> QED BY <3>1 DEF Fits
    <2>6. BoxInv'
      BY <2>2, <2>4 DEF BoxInv, Fresh
    <2>7. EndInv'
      BY <2>2, <2>3 DEF EndInv, FinalEndings
    <2>8. CarriedInv'
      BY <2>2, <2>3, <2>4 DEF CarriedInv, Fresh, NotDone
    <2> QED BY <2>5, <2>6, <2>7, <2>8 DEF CommandInv
  <1> QED BY <1>1, <1>2

LEMMA ExitKeeps == ASSUME CommandInv, exits \/ UNCHANGED commandVars PROVE CommandInv'
  <1>1. UNCHANGED <<line, type, plan, box, boxBusy, done, ending>>
    BY DEF exits, commandVars
  <1>2. /\ Waits' = Waits /\ Ssh' = Ssh /\ Routed' = Routed
        /\ GivenOptions' = GivenOptions /\ OptionsAt("box")' = OptionsAt("box")
    BY <1>1, SameCommand
  <1>3. Fits(plan)'
    BY <1>1 DEF CommandInv, Fits, Routed, Ssh, Waits
  <1>4. BoxInv'
    BY <1>1 DEF CommandInv, BoxInv, Untouched, Fresh, Lazy, Stage
  <1>5. exitCode' = exitCode
    BY <1>1, <1>2 DEF exitCode
  <1>6. exit' # -1 => exit' = exitCode' /\ plan' = <<>> /\ (ending' # "none" \/ type' = "help")
    BY <1>1, <1>5 DEF exits, commandVars, CommandInv, EndInv
  <1>7. type = "none" => exit' = -1
    BY DEF exits, commandVars, CommandInv, EndInv
  <1>8. EndInv'
    BY <1>1, <1>2, <1>6, <1>7 DEF CommandInv, EndInv
  <1>9. CarriedInv'
    BY <1>1, <1>2 DEF CommandInv, CarriedInv
  <1> QED BY <1>3, <1>4, <1>8, <1>9 DEF CommandInv

LEMMA CommandStep == CommandInv /\ [CommandNext]_commandVars => CommandInv'
  <1> SUFFICES ASSUME CommandInv, [CommandNext]_commandVars PROVE CommandInv'
    OBVIOUS
  <1>1. ASSUME lazyCommandEnds \/ (~Lazy /\ (work \/ workFails)) PROVE CommandInv'
    BY <1>1, WorkKeeps, FailSteps DEF lazyCommandEnds
  <1> QED BY <1>1, BeginKeeps, CheckKeeps, OpenSteps, InitializedKeeps, AnswerKeeps, FailSteps, WaitKeeps,
             CloseKeeps, ExitKeeps DEF CommandNext

LEMMA CommandAlways == CommandSpec => []CommandInv
  BY CommandStarts, CommandStep, PTL DEF CommandSpec

----------------------------------------------------------------------------
(* The names of the parameters, and that the methods read them.            *)
LEMMA Names ==
  ASSUME NEW t
  PROVE  /\ \A o \in {"mode", "limit", "cursor", "target", "status", "queue", "prompt", "title", "effort", "model",
                      "sandbox", "permissions", "via", "cwd", "wait", "ref", "overwrite"} : paramName(t, o) = o
         /\ paramName(t, "source") = "sourceId" /\ paramName(t, "item") = "itemId"
         /\ paramName(t, "status-new") = "status" /\ paramName(t, "no-advance") = "advance"
         /\ paramName(t, "no-poll") = "poll" /\ paramName(t, "older-than-days") = "olderThanDays"
         /\ paramName(t, "dry-run") = "dryRun" /\ paramName(t, "feed-root") = "feedRoot"
         /\ paramName(t, "workbench-root") = "workbenchRoot" /\ paramName(t, "include-output") = "includeOutput"
         /\ paramName(t, "run-at") = "runAt" /\ paramName(t, "label") = "labels"
         /\ paramName(t, "after") = "afterIntentId" /\ paramName(t, "after-status") = "afterStatus"
         /\ paramName(t, "thread-id") = "threadId" /\ paramName(t, "service-tier") = "serviceTier"
         /\ paramName(t, "approval-policy") = "approvalPolicy" /\ paramName(t, "target-host") = "targetHost"
         /\ paramName(t, "capability") = IF t = "handoff-enqueue" THEN "requiredCapabilities" ELSE "capabilities"
         /\ paramName(t, "requester-host") = "requesterHost"
         /\ paramName(t, "requester-thread-id") = "requesterThreadId"
         /\ paramName(t, "host-id") = "hostId" /\ paramName(t, "materialize") = "action"
         /\ paramName(t, "prompt-queue") = "promptQueue" /\ paramName(t, "script") = "scriptPath"
         /\ paramName(t, "script-stdin") = "script" /\ paramName(t, "event") = "eventPath"
         /\ \A o \in ParamsOptions : paramName(t, o) = "params"
  BY DEF paramName, ParamsOptions

LEMMA MethodsRead ==
  ASSUME NEW t \in Asking, NEW o \in commandOptions(t) \ Directories(t)
  PROVE  paramName(t, o) \in methodReads(t)
  <1>1. CASE t \in FeedTypes
    <2>1. o \in feedOptions(t) /\ methodReads(t) = feedMethods(t)
      BY <1>1 DEF commandOptions, methodReads, FeedTypes, PromptTypes, HandoffTypes, DispatchTypes, CallTypes
    <2> QED BY <1>1, <2>1, Names DEF feedOptions, feedMethods, FeedTypes, FeedContext, ParamsOptions
  <1>2. CASE t \in PromptTypes
    <2>1. o \in promptOptions(t) /\ methodReads(t) = promptMethods(t)
      BY <1>2 DEF commandOptions, methodReads, FeedTypes, PromptTypes, HandoffTypes, DispatchTypes, CallTypes
    <2> QED BY <1>2, <2>1, Names DEF promptOptions, promptMethods, PromptTypes, Context, TurnOptions, enqueueOptions, enqueueParams, Directories
  <1>3. CASE t \in HandoffTypes
    <2>1. o \in handoffOptions(t) /\ methodReads(t) = handoffMethods(t)
      BY <1>3 DEF commandOptions, methodReads, FeedTypes, PromptTypes, HandoffTypes, DispatchTypes, CallTypes
    <2> QED BY <1>3, <2>1, Names DEF handoffOptions, handoffMethods, HandoffTypes, Context, TurnOptions, enqueueOptions, enqueueParams, Directories
  <1>4. CASE t \in DispatchTypes
    <2>1. o \in dispatchOptions(t) /\ methodReads(t) = dispatchMethods(t)
      BY <1>4 DEF commandOptions, methodReads, FeedTypes, PromptTypes, HandoffTypes, DispatchTypes, CallTypes
    <2> QED BY <1>4, <2>1, Names DEF dispatchOptions, dispatchMethods, DispatchTypes, Context, ParamsOptions
  <1> USE DEF FeedTypes, PromptTypes, HandoffTypes, DispatchTypes
  <1>5. CASE t \in {"workflow-list", "workflow-run"}
    <2>1. methodReads(t) = workflowMethods(t)
      BY <1>5 DEF methodReads
    <2>2. /\ t = "workflow-list" => o = "workbench-root"
          /\ t = "workflow-run" => o \in {"script", "script-stdin", "event", "prompt", "workbench-root", "cwd", "via"}
                                         \cup TurnOptions
      BY <1>5 DEF commandOptions, CallTypes
    <2> QED BY <1>5, <2>1, <2>2, Names DEF workflowMethods, TurnOptions
  <1>6. CASE t = "workbench-overview"
    <2>1. o \in Context /\ methodReads(t) = {"mode", "workbenchRoot"}
      BY <1>6 DEF commandOptions, methodReads, CallTypes
    <2> QED BY <2>1, Names DEF Context
  <1>7. CASE t \in {"turn-run", "kit-setup"}
    <2>1. methodReads(t) = turnMethods(t)
      BY <1>7 DEF methodReads
    <2>2. /\ t = "turn-run" => o \in {"prompt", "thread-id", "cwd", "wait"} \cup TurnOptions
          /\ t = "kit-setup" => o \in {"ref", "workbench-root", "overwrite", "prompt", "wait"} \cup TurnOptions
      BY <1>7 DEF commandOptions, kitOptions, CallTypes
    <2> QED BY <1>7, <2>1, <2>2, Names DEF turnMethods, TurnOptions
  <1>8. CASE t \in CallTypes
    <2>1. o \in ParamsOptions /\ methodReads(t) = {"params"}
      BY <1>8 DEF commandOptions, methodReads, CallTypes
    <2>2. paramName(t, o) = "params"
      BY <2>1 DEF paramName, ParamsOptions
    <2> QED BY <2>1, <2>2
  <1>9. CASE t \in {"functions-list", "functions-describe", "workbench-methods", "host-overview"}
    <2>1. commandOptions(t) = {}
      BY <1>9 DEF commandOptions, CallTypes
    <2> QED BY <2>1
  <1> QED BY <1>1, <1>2, <1>3, <1>4, <1>5, <1>6, <1>7, <1>8, <1>9 DEF Asking, AskTypes, Either, CallTypes

(* The exit code of every command line tells how the command ended: an     *)
(* operation that a zero speaks of was carried out, on the machine that    *)
(* --ssh names, and a refused command has done nothing (main, runTurn).    *)
THEOREM ExitCodesTellOutcomes == CommandSpec => []ExitTellsOutcome
  <1>1. CommandInv => ExitTellsOutcome
    <2> SUFFICES ASSUME CommandInv PROVE ExitTellsOutcome
      OBVIOUS
    <2>1. ASSUME exit = 0, type # "help"
          PROVE  /\ done.at # "nowhere"
                 /\ Ssh /\ type \in Either \cup AskTypes \cup {"turn-run"} => done.at = "box"
                 /\ Waits => ending \in {"completed", "interrupted"}
                 /\ type = "feed-dispatch" => ending = "ok"
      <3>1. exitCode = 0 /\ plan = <<>> /\ ending # "none" /\ Stages(plan) = {}
        BY <2>1, ShortPlans DEF CommandInv, EndInv
      <3>2. /\ ending \notin {"error", "refused"}
            /\ ~(Waits /\ ending \in {"failed", "timed_out"})
            /\ ~(type = "feed-dispatch" /\ ending = "failed")
        BY <3>1 DEF exitCode
      <3> QED BY <3>1, <3>2 DEF CommandInv, EndInv, CarriedInv, Routed, FinalEndings
    <2>2. ending = "refused" /\ type # "kit-setup" => done = NotDone /\ box = "none"
      BY DEF CommandInv, BoxInv, Untouched, Fresh
    <2> QED BY <2>1, <2>2 DEF ExitTellsOutcome
  <1> QED BY <1>1, CommandAlways, PTL

(* Whatever options are given together, each that a command knows reaches  *)
(* its operation, here or over ssh (the params of main's requests and the  *)
(* methods of the toybox), the directories of a queued turn aside.         *)
THEOREM RoutesAgreeOnOptions == CommandSpec => []RoutesAgree
  <1>1. CommandInv => RoutesAgree
    <2> SUFFICES ASSUME CommandInv, done.at # "nowhere",
                        NEW o \in (line.given \cap commandOptions(type)) \ Directories(type)
                 PROVE  o \in done.options
      BY DEF RoutesAgree
    <2>1. o \in GivenOptions
      BY DEF GivenOptions, parsedOptions, Directories
    <2>2. CASE done.at = "here"
      BY <2>1, <2>2 DEF CommandInv, CarriedInv
    <2>3. CASE done.at = "box"
      <3>1. done.options = OptionsAt("box") /\ type \in Asking
        BY <2>3 DEF CommandInv, CarriedInv
      <3>2. paramName(type, o) \in methodReads(type)
        BY <3>1, MethodsRead
      <3> QED BY <2>1, <3>1, <3>2 DEF OptionsAt
    <2> QED BY <2>2, <2>3 DEF CommandInv, CarriedInv
  <1> QED BY <1>1, CommandAlways, PTL

(* Whatever fails, a toybox that a command has started is closed when the  *)
(* command exits (withToyboxRequest, withWorkbenchTransport,               *)
(* createLazyWorkbenchRequester).                                          *)
THEOREM ToyboxesAreClosed == CommandSpec => []NoToyboxIsLeft
  <1>1. CommandInv => NoToyboxIsLeft
    <2> SUFFICES ASSUME CommandInv, exit # -1, type # "workflow-run" PROVE box \in {"none", "closed"}
      BY DEF NoToyboxIsLeft
    <2>1. plan = <<>> /\ Stages(plan) = {} /\ ~Lazy
      BY ShortPlans DEF CommandInv, EndInv, Lazy, Stage
    <2> QED BY <2>1 DEF CommandInv, BoxInv
  <1> QED BY <1>1, CommandAlways, PTL

-----------------------------------------------------------------------------
(***************************************************************************)
(* Which workflow a name stands for, for any roots, directories and names. *)
(* Induction over the places is by a least place where a claim fails.      *)
(***************************************************************************)
LEMMA LeastPlace ==
  ASSUME NEW S, S \subseteq Nat, S # {}
  PROVE  \E m \in S : \A n \in S : m <= n
  <1>1. PICK m \in S : \A n \in S : <<n, m>> \notin OpToRel(<, Nat)
    BY WFMin, NatLessThanWellFounded, Zenon
  <1>2. \A n \in S : n < m => <<n, m>> \in OpToRel(<, Nat)
    BY <1>1 DEF OpToRel
  <1>3. \A n \in S : ~(n < m)
    BY <1>1, <1>2, Zenon
  <1> QED BY <1>3

LEMMA LeastIsOne ==
  ASSUME NEW S, S \subseteq Nat, NEW m \in S, \A n \in S : m <= n
  PROVE  (CHOOSE p \in S : \A q \in S : p <= q) = m
  <1>1. \A p \in S : (\A q \in S : p <= q) => p = m
    <2> SUFFICES ASSUME NEW p \in S, \A q \in S : p <= q PROVE p = m
      OBVIOUS
    <2>1. p <= m /\ m <= p /\ p \in Nat /\ m \in Nat
      OBVIOUS
    <2> QED BY <2>1
  <1> QED BY <1>1, Zenon

PlaceCount == Roots * Dirs

LEMMA PlacesAreCounted == PlaceCount \in Nat /\ Places = 1 .. PlaceCount
  BY CatalogConstants DEF PlaceCount, Places

(* What is loaded is defined step by step, so it exists for any number of  *)
(* places.                                                                 *)
LoadsUpTo(f, n) ==
  f = [k \in 0 .. n |->
         IF k = 0 THEN {} ELSE IF manifests[k].kind = "absent" THEN f[k - 1] ELSE Loaded(f[k - 1], k)]

LEMMA LoadsExist == ASSUME NEW n \in Nat PROVE \E f : LoadsUpTo(f, n)
  <1> DEFINE Failing == {k \in Nat : ~ \E f : LoadsUpTo(f, k)}
  <1>1. SUFFICES ASSUME Failing # {} PROVE FALSE
    OBVIOUS
  <1>2. PICK m \in Failing : \A k \in Failing : m <= k
    BY <1>1, LeastPlace
  <1>3. m # 0
    <2>1. LoadsUpTo([k \in 0 .. 0 |-> {}], 0)
      BY DEF LoadsUpTo
    <2> QED BY <2>1, <1>2
  <1>4. PICK f : LoadsUpTo(f, m - 1)
    BY <1>2, <1>3
  <1> DEFINE g == [k \in 0 .. m |->
                     IF k < m THEN f[k]
                     ELSE IF manifests[m].kind = "absent" THEN f[m - 1] ELSE Loaded(f[m - 1], m)]
  <1>5. LoadsUpTo(g, m)
    <2>1. ASSUME NEW k \in 0 .. m, k < m
          PROVE  g[k] = IF k = 0 THEN {}
                        ELSE IF manifests[k].kind = "absent" THEN g[k - 1] ELSE Loaded(g[k - 1], k)
      <3>1. k \in 0 .. m - 1 /\ m \in Nat
        BY <1>2, <2>1
      <3>2. f[k] = IF k = 0 THEN {}
                   ELSE IF manifests[k].kind = "absent" THEN f[k - 1] ELSE Loaded(f[k - 1], k)
        BY <1>4, <3>1 DEF LoadsUpTo
      <3>3. g[k] = f[k] /\ (k # 0 => g[k - 1] = f[k - 1])
        BY <2>1, <3>1
      <3> HIDE DEF g
      <3> QED BY <3>2, <3>3
    <2>2. /\ m \in Nat \ {0} /\ g[m - 1] = f[m - 1]
          /\ g[m] = IF manifests[m].kind = "absent" THEN f[m - 1] ELSE Loaded(f[m - 1], m)
      BY <1>2, <1>3
    <2>3. g = [k \in 0 .. m |-> g[k]]
      OBVIOUS
    <2> HIDE DEF g
    <2>4. ASSUME NEW k \in 0 .. m
          PROVE  g[k] = IF k = 0 THEN {}
                        ELSE IF manifests[k].kind = "absent" THEN g[k - 1] ELSE Loaded(g[k - 1], k)
      <3>1. CASE k < m
        BY <2>1, <3>1
      <3>2. CASE k = m
        BY <2>2, <3>2
      <3> QED BY <2>2, <3>1, <3>2
    <2> QED BY <2>3, <2>4 DEF LoadsUpTo
  <1> QED BY <1>2, <1>5

LEMMA LoadedStep ==
  /\ loaded[0] = {}
  /\ \A n \in 1 .. PlaceCount :
       loaded[n] = IF manifests[n].kind = "absent" THEN loaded[n - 1] ELSE Loaded(loaded[n - 1], n)
  <1>1. PICK f : LoadsUpTo(f, PlaceCount)
    BY LoadsExist, PlacesAreCounted
  <1>2. LoadsUpTo(loaded, PlaceCount)
    BY <1>1 DEF LoadsUpTo, loaded, PlaceCount
  <1>3. ASSUME NEW n \in 0 .. PlaceCount
        PROVE  loaded[n] = IF n = 0 THEN {}
                           ELSE IF manifests[n].kind = "absent" THEN loaded[n - 1] ELSE Loaded(loaded[n - 1], n)
    BY <1>2 DEF LoadsUpTo
  <1> QED BY <1>3, PlacesAreCounted

(* A manifest is loaded if none before it has its name.                    *)
FirstOfItsName(p) ==
  /\ manifests[p].kind # "absent"
  /\ \A q \in 1 .. p - 1 : manifests[q].kind # "absent" => NameAt(q) # NameAt(p)

(* A place with a manifest of a name has a first one before it, or is it.  *)
LEMMA FirstExists ==
  ASSUME NEW p \in Nat \ {0}, manifests[p].kind # "absent"
  PROVE  \E q \in 1 .. p : FirstOfItsName(q) /\ NameAt(q) = NameAt(p)
  <1> DEFINE Same == {q \in 1 .. p : manifests[q].kind # "absent" /\ NameAt(q) = NameAt(p)}
  <1>1. PICK m \in Same : \A q \in Same : m <= q
    <2>1. p \in Same /\ Same \subseteq Nat
      OBVIOUS
    <2> HIDE DEF Same
    <2> QED BY <2>1, LeastPlace
  <1> QED BY <1>1 DEF FirstOfItsName

LEMMA LoadedAreFirst ==
  \A n \in 0 .. PlaceCount : loaded[n] = {p \in 1 .. n : FirstOfItsName(p)}
  <1> DEFINE Failing == {n \in 0 .. PlaceCount : loaded[n] # {p \in 1 .. n : FirstOfItsName(p)}}
  <1>1. SUFFICES ASSUME Failing # {} PROVE FALSE
    OBVIOUS
  <1>2. PICK m \in Failing : \A n \in Failing : m <= n
    <2>1. Failing \subseteq Nat
      BY PlacesAreCounted
    <2> HIDE DEF Failing
    <2> QED BY <1>1, <2>1, LeastPlace
  <1>3. m # 0
    BY <1>2, LoadedStep
  <1>4. m \in 1 .. PlaceCount /\ loaded[m - 1] = {p \in 1 .. m - 1 : FirstOfItsName(p)}
    BY <1>2, <1>3, PlacesAreCounted
  <1>5. CASE manifests[m].kind = "absent"
    <2>1. ~FirstOfItsName(m)
      BY <1>5 DEF FirstOfItsName
    <2> QED BY <1>2, <1>4, <1>5, <2>1, LoadedStep, PlacesAreCounted
  <1>6. CASE manifests[m].kind # "absent"
    <2>1. (\E q \in loaded[m - 1] : NameAt(q) = NameAt(m)) <=> ~FirstOfItsName(m)
      <3>1. ASSUME NEW q \in 1 .. m - 1, manifests[q].kind # "absent", NameAt(q) = NameAt(m)
            PROVE  \E r \in loaded[m - 1] : NameAt(r) = NameAt(m)
        BY <3>1, <1>4, FirstExists, PlacesAreCounted
      <3> QED BY <3>1, <1>4, <1>6 DEF FirstOfItsName
    <2>2. loaded[m] = Loaded(loaded[m - 1], m)
      BY <1>4, <1>6, LoadedStep
    <2> QED BY <1>2, <1>4, <2>1, <2>2, PlacesAreCounted DEF Loaded
  <1> QED BY <1>5, <1>6

CatalogInv == manifests \in [Places -> Manifests]

LEMMA CatalogKeepsInv == CatalogInv /\ [CatalogNext]_catalogVars => CatalogInv'
  BY DEF CatalogInv, CatalogNext, WriteManifest, AskFor, catalogVars

LEMMA FirstWins == CatalogInv => FirstManifestWins
  <1> DEFINE having == {p \in Places : manifests[p].kind = "valid" /\ NameAt(p) = target}
             found == {p \in listWorkflows.list : NameAt(p) = target}
  <1> SUFFICES ASSUME CatalogInv, ~listWorkflows.failed
               PROVE  resolveWorkflowTarget(target) =
                        IF having = {} THEN NoWorkflow ELSE CHOOSE p \in having : \A q \in having : p <= q
    BY DEF FirstManifestWins
  <1>1. /\ \A p \in Places : manifests[p].kind # "absent" <=> manifests[p].kind = "valid"
        /\ listWorkflows.list = loaded[PlaceCount]
    BY DEF CatalogInv, Manifests, Absent, Invalid, listWorkflows, PlaceCount
  <1>2. found = {p \in Places : FirstOfItsName(p) /\ NameAt(p) = target}
    BY <1>1, LoadedAreFirst, PlacesAreCounted
  <1>3. found \subseteq having /\ having \subseteq Nat
    BY <1>1, <1>2, PlacesAreCounted DEF FirstOfItsName
  <1>4. ASSUME NEW p \in having PROVE \E q \in found : q <= p
    <2>1. PICK q \in 1 .. p : FirstOfItsName(q) /\ NameAt(q) = NameAt(p)
      BY <1>1, FirstExists, PlacesAreCounted
    <2> QED BY <2>1, <1>2, PlacesAreCounted
  <1>5. resolveWorkflowTarget(target) =
          IF found = {} THEN NoWorkflow ELSE CHOOSE p \in found : \A q \in found : p <= q
    BY DEF resolveWorkflowTarget
  <1> HIDE DEF having, found
  <1>6. CASE having = {}
    BY <1>3, <1>5, <1>6
  <1>7. CASE having # {}
    <2>1. PICK m \in having : \A q \in having : m <= q
      BY <1>3, <1>7, LeastPlace
    <2>2. m \in found /\ \A q \in found : m <= q
      BY <1>3, <1>4, <2>1
    <2>3. (CHOOSE p \in found : \A q \in found : p <= q) = m
      BY <2>2, <1>3, LeastIsOne
    <2>4. (CHOOSE p \in having : \A q \in having : p <= q) = m
      BY <2>1, <1>3, LeastIsOne
    <2> QED BY <1>5, <1>7, <2>2, <2>3, <2>4
  <1> QED BY <1>6, <1>7

(* A name means the first manifest that has it, however many roots and     *)
(* directories there are and whatever is written or removed.               *)
THEOREM FirstManifestIsMeant == CatalogSpec => []FirstManifestWins
  <1>1. CatalogInit => CatalogInv
    BY DEF CatalogInit, CatalogInv, Manifests
  <1> QED BY <1>1, CatalogKeepsInv, FirstWins, PTL DEF CatalogSpec

=============================================================================
