---------------------------- MODULE ThreadProgress ----------------------------
(***************************************************************************)
(* The snapshot of a thread: reduced from the notifications of the         *)
(* app-server (which are external, and arrive in order), and read by a     *)
(* consumer that shows the pending messages and marks them when they have  *)
(* been shown.  A text is the number of deltas it is made of.              *)
(***************************************************************************)
EXTENDS Naturals, FiniteSets

CONSTANTS
  Turns,       \* 1 .. n, in the order they are started
  Parts,       \* 0 .. m, the indexes of the summaries of a turn's reasoning
  Deltas,      \* bound: the deltas of a text, for every turn
  Mode         \* what the consumer shows: "summary", "commentary" or "none"

ASSUME ThreadConstants ==
  /\ IsFiniteSet(Turns) /\ Turns = 1 .. Cardinality(Turns)
  /\ IsFiniteSet(Parts) /\ Parts = 0 .. Cardinality(Parts) - 1
  /\ Deltas \in [Turns -> Nat]

VARIABLES
  turn, live,  \* the server: the last turn it started, and whether it still runs
  said,        \* the server: the deltas said of every message, of an answer those
               \* of the one under way
  summaryAt,   \* the server: the summaries of the turn that have begun
  command,     \* the server: the state of every turn's command
  answers,     \* the server: the last answer every turn has given, or none
  activeTurnId, turnStatus, runningCommands,
  summaryBuffers, agentMessageBuffers, messages, finalAnswer,  \* the snapshot
  showing,     \* the consumer: the messages it is showing
  shown        \* history: the texts shown for every message

threadVars == <<turn, live, said, summaryAt, command, answers, activeTurnId, turnStatus,
                runningCommands, summaryBuffers, agentMessageBuffers, messages,
                finalAnswer, showing, shown>>
serverVars == <<turn, live, said, summaryAt, command, answers>>
activeVars == <<activeTurnId, turnStatus, runningCommands>>
consumerVars == <<showing, shown>>

NoTurn == 0
NoText == 0
Summary(t, i) == <<"summary", t, i>>
Commentary(t) == <<"commentary", t, 0>>
Final(t) == <<"final", t, 0>>
Spoken == {Summary(t, i) : t \in Turns, i \in Parts} \cup {Commentary(t) : t \in Turns}
progressMessageId == Spoken \cup {Final(t) : t \in Turns}
AgentMessages == {Commentary(t) : t \in Turns} \cup {Final(t) : t \in Turns}

NoMessage == [ready |-> FALSE, delivered |-> FALSE, text |-> <<NoTurn, NoText>>]
NoAnswer == [turn |-> NoTurn, text |-> <<NoTurn, NoText>>, ready |-> FALSE]
NoBuffer == NoText   \* an empty buffer shows nothing: as if there were none

(* createThreadSnapshot                                                    *)
ThreadInit ==
  /\ turn = NoTurn /\ live = FALSE /\ summaryAt = 0
  /\ said = [m \in progressMessageId |-> NoText]
  /\ command = [t \in Turns |-> "none"] /\ answers = [t \in Turns |-> NoText]
  /\ activeTurnId = NoTurn /\ turnStatus = "idle" /\ runningCommands = {}
  /\ summaryBuffers = [m \in Spoken |-> NoBuffer]
  /\ agentMessageBuffers = [m \in AgentMessages |-> NoBuffer]
  /\ messages = [id \in progressMessageId |-> NoMessage]
  /\ finalAnswer = NoAnswer
  /\ showing = {} /\ shown = [id \in progressMessageId |-> {}]

----------------------------------------------------------------------------
(* upsertProgressMessage for a set of messages that are ready: what was    *)
(* delivered stays delivered, whatever its text is now.                    *)
WithProgress(texts) ==
  [id \in progressMessageId |->
     IF id \in DOMAIN texts
     THEN [ready |-> TRUE, delivered |-> messages[id].delivered, text |-> texts[id]]
     ELSE messages[id]]

TextOf(id, n) == <<id[2], n>>

(* The summaries among ids that have some text in their buffer.            *)
Finalized(ids) ==
  [id \in {m \in ids : summaryBuffers[m] # NoBuffer} |-> TextOf(id, summaryBuffers[id])]

WithoutBuffers(ids) == [m \in Spoken |-> IF m \in ids THEN NoBuffer ELSE summaryBuffers[m]]

SummariesOf(t) == {Summary(t, i) : i \in Parts}

----------------------------------------------------------------------------
turnStarted ==
  /\ ~live /\ turn + 1 \in Turns
  /\ turn' = turn + 1 /\ live' = TRUE
  /\ activeTurnId' = turn' /\ turnStatus' = "inProgress"
  /\ UNCHANGED <<said, summaryAt, command, answers, runningCommands, summaryBuffers,
                 agentMessageBuffers, messages, finalAnswer, consumerVars>>

(* turn/plan/updated, item/plan/delta: the turn they name is taken for the *)
(* active one.                                                             *)
planUpdated ==
  /\ live
  /\ activeTurnId' = turn /\ turnStatus' = "inProgress"
  /\ UNCHANGED <<serverVars, runningCommands, summaryBuffers, agentMessageBuffers,
                 messages, finalAnswer, consumerVars>>

(* A summary begins when the one before it is complete.                    *)
finalizeEarlierSummaries(i) == {Summary(turn, j) : j \in {k \in Parts : k < i}}

summaryPartAdded(i) ==
  /\ live /\ i = summaryAt /\ i \in Parts
  /\ summaryAt' = i + 1
  /\ messages' = WithProgress(Finalized(finalizeEarlierSummaries(i)))
  /\ summaryBuffers' = WithoutBuffers(finalizeEarlierSummaries(i))
  /\ UNCHANGED <<turn, live, said, command, answers, activeVars, agentMessageBuffers,
                 finalAnswer, consumerVars>>

(* Mutant of summaryTextDelta: what is in the buffer is ready at once.     *)
summaryTextDeltaReady(i) ==
  LET m == Summary(turn, i) IN
  /\ live /\ i \in Parts /\ i + 1 = summaryAt /\ said[m] < Deltas[turn]
  /\ said' = [said EXCEPT ![m] = @ + 1]
  /\ summaryBuffers' = [summaryBuffers EXCEPT ![m] = @ + 1]
  /\ messages' = WithProgress([id \in {m} |-> TextOf(m, said'[m])])
  /\ UNCHANGED <<turn, live, summaryAt, command, answers, activeVars, agentMessageBuffers,
                 finalAnswer, consumerVars>>

summaryTextDelta(i) ==
  LET m == Summary(turn, i) IN
  /\ live /\ i \in Parts /\ i + 1 = summaryAt /\ said[m] < Deltas[turn]
  /\ said' = [said EXCEPT ![m] = @ + 1]
  /\ summaryBuffers' = [summaryBuffers EXCEPT ![m] = @ + 1]
  /\ UNCHANGED <<turn, live, summaryAt, command, answers, activeVars, agentMessageBuffers,
                 messages, finalAnswer, consumerVars>>

(* The item comes with every summary; their buffers stay until the turn    *)
(* has ended.                                                              *)
reasoningCompleted ==
  LET whole == {m \in SummariesOf(turn) : said[m] # NoText} IN
  /\ live /\ summaryAt \in 1 .. Cardinality(Parts)
  /\ summaryAt' = Cardinality(Parts) + 1
  /\ messages' = WithProgress([m \in whole |-> TextOf(m, said[m])])
  /\ UNCHANGED <<turn, live, said, command, answers, activeVars, summaryBuffers,
                 agentMessageBuffers, finalAnswer, consumerVars>>

(* A commentary or an answer.  (What a turn says of an answer before it is *)
(* complete is kept apart from the answers it has given.)                  *)
agentMessageDelta(m) ==
  /\ live /\ m \in {Commentary(turn), Final(turn)}
  /\ said[m] < Deltas[turn] /\ ~messages[m].ready
  /\ said' = [said EXCEPT ![m] = @ + 1]
  /\ agentMessageBuffers' = [agentMessageBuffers EXCEPT ![m] = @ + 1]
  /\ UNCHANGED <<turn, live, summaryAt, command, answers, activeVars, summaryBuffers,
                 messages, finalAnswer, consumerVars>>

(* The text of a completed message is its own or, if it has none, what its *)
(* buffer holds.                                                           *)
ItemText(m, text) == IF text # NoText THEN text ELSE agentMessageBuffers[m]

commentaryCompleted(text) ==
  LET m == Commentary(turn) IN
  /\ live /\ said[m] # NoText /\ ~messages[m].ready
  /\ messages' = WithProgress([id \in {m} |-> TextOf(m, ItemText(m, text))])
  /\ agentMessageBuffers' = [agentMessageBuffers EXCEPT ![m] = NoBuffer]
  /\ UNCHANGED <<serverVars, activeVars, summaryBuffers, finalAnswer, consumerVars>>

(* Any other message may turn out to be the answer: the last one is.       *)
answerCompleted(text) ==
  LET m == Final(turn) IN
  /\ live /\ said[m] # NoText
  /\ answers' = [answers EXCEPT ![turn] = said[m]]
  /\ said' = [said EXCEPT ![m] = NoText]
  /\ finalAnswer' = [turn |-> turn, text |-> TextOf(m, ItemText(m, text)), ready |-> FALSE]
  /\ agentMessageBuffers' = [agentMessageBuffers EXCEPT ![m] = NoBuffer]
  /\ UNCHANGED <<turn, live, summaryAt, command, activeVars, summaryBuffers, messages,
                 consumerVars>>

commandStarted ==
  /\ live /\ command[turn] = "none"
  /\ command' = [command EXCEPT ![turn] = "running"]
  /\ runningCommands' = runningCommands \cup {turn}
  /\ activeTurnId' = turn /\ turnStatus' = "inProgress"
  /\ UNCHANGED <<turn, live, said, summaryAt, answers, summaryBuffers,
                 agentMessageBuffers, messages, finalAnswer, consumerVars>>

(* Output of a command, even of one the snapshot does not know, shows that *)
(* it runs.                                                                *)
outputDelta ==
  /\ live /\ command[turn] = "running"
  /\ runningCommands' = runningCommands \cup {turn}
  /\ UNCHANGED <<serverVars, activeTurnId, turnStatus, summaryBuffers,
                 agentMessageBuffers, messages, finalAnswer, consumerVars>>

commandCompleted ==
  /\ live /\ command[turn] = "running"
  /\ command' = [command EXCEPT ![turn] = "done"]
  /\ runningCommands' = runningCommands \ {turn}
  /\ UNCHANGED <<turn, live, said, summaryAt, answers, activeTurnId, turnStatus,
                 summaryBuffers, agentMessageBuffers, messages, finalAnswer, consumerVars>>

(* finalAnswer.text || finalTextFromTurn(turn): the items of the turn were *)
(* applied before, so the answer on record is the turn's own if it has any *)
(* and otherwise the one an earlier turn has left.                         *)
FinalText == finalAnswer.text

(* Mutant of reduceCompletedTurn: summaries still being written are lost.  *)
reduceCompletedTurnKeepingBuffers(status) ==
  /\ live /\ live' = FALSE
  /\ activeTurnId' = IF activeTurnId = turn THEN NoTurn ELSE activeTurnId
  /\ turnStatus' = status
  /\ runningCommands' = runningCommands \ {turn}
  /\ summaryAt' = 0
  /\ finalAnswer' = IF FinalText = NoMessage.text THEN finalAnswer
                    ELSE [turn |-> turn, text |-> FinalText, ready |-> TRUE]
  /\ messages' = WithProgress([id \in {Final(turn) : n \in {FinalText} \ {NoMessage.text}}
                                 |-> FinalText])
  /\ UNCHANGED <<turn, said, command, answers, summaryBuffers, agentMessageBuffers,
                 consumerVars>>

reduceCompletedTurn(status) ==
  /\ live /\ live' = FALSE
  /\ activeTurnId' = IF activeTurnId = turn THEN NoTurn ELSE activeTurnId
  /\ turnStatus' = status
  /\ runningCommands' = runningCommands \ {turn}
  /\ summaryAt' = 0
  /\ summaryBuffers' = WithoutBuffers(SummariesOf(turn))
  /\ finalAnswer' = IF FinalText = NoMessage.text THEN finalAnswer
                    ELSE [turn |-> turn, text |-> FinalText, ready |-> TRUE]
  /\ messages' = LET parts == Finalized(SummariesOf(turn))
                     final == {Final(turn) : n \in {FinalText} \ {NoMessage.text}}
                 IN WithProgress([id \in DOMAIN parts \cup final |->
                                    IF id \in final THEN FinalText ELSE parts[id]])
  /\ UNCHANGED <<turn, said, command, answers, agentMessageBuffers, consumerVars>>

Reduce ==
  \/ turnStarted \/ planUpdated \/ reasoningCompleted
  \/ commandStarted \/ outputDelta \/ commandCompleted
  \/ \E m \in AgentMessages : agentMessageDelta(m)
  \/ \E i \in Parts : summaryPartAdded(i) \/ summaryTextDelta(i)
  \/ live /\ \E n \in {NoText, said[Commentary(turn)]} : commentaryCompleted(n)
  \/ live /\ \E n \in {NoText, said[Final(turn)]} : answerCompleted(n)
  \/ \E status \in {"completed", "failed", "interrupted"} : reduceCompletedTurn(status)

----------------------------------------------------------------------------
pendingProgressMessages ==
  {id \in progressMessageId :
     /\ messages[id].ready /\ ~messages[id].delivered
     /\ id[1] \in {"final", Mode}}

(* The consumer shows what is pending while notifications go on, then      *)
(* marks what it has shown in the snapshot of that moment.                 *)
ShowPending ==
  /\ showing = {} /\ pendingProgressMessages # {}
  /\ showing' = pendingProgressMessages
  /\ shown' = [id \in progressMessageId |->
       IF id \in showing' THEN shown[id] \cup {messages[id].text} ELSE shown[id]]
  /\ UNCHANGED <<serverVars, activeVars, summaryBuffers, agentMessageBuffers, messages,
                 finalAnswer>>

markProgressMessagesDelivered ==
  /\ showing # {} /\ showing' = {}
  /\ messages' = [id \in progressMessageId |->
       IF id \in showing THEN [messages[id] EXCEPT !.delivered = TRUE] ELSE messages[id]]
  /\ UNCHANGED <<serverVars, activeVars, summaryBuffers, agentMessageBuffers, finalAnswer,
                 shown>>

ThreadNext == Reduce \/ ShowPending \/ markProgressMessagesDelivered

ThreadSpec == ThreadInit /\ [][ThreadNext]_threadVars

----------------------------------------------------------------------------
(***************************************************************************)
(* What has been shown of a message is all the app-server has said of it,  *)
(* though it was assembled from deltas and could be shown at any moment:   *)
(* no message is shown in part and then taken for delivered.               *)
(***************************************************************************)
ShownIsWhole ==
  \A id \in Spoken : shown[id] \subseteq {TextOf(id, said[id])}

(***************************************************************************)
(* Once the app-server has ended the turn, however it ended, no turn is    *)
(* active, no command shown as running, and what was said is not lost:     *)
(* every summary and the last completed answer are ready, and so is a      *)
(* commentary that was completed.  A message of the agent that was not     *)
(* completed when its turn ended is never shown, but the whole of it is    *)
(* kept in its buffer.  While a turn runs it is the active one.            *)
(***************************************************************************)
Whole(m) == messages[m].ready /\ messages[m].text = TextOf(m, said[m])
KeptBack(m) == agentMessageBuffers[m] = said[m]

EndedTurnIsSettled ==
  IF live THEN activeTurnId = turn /\ turnStatus = "inProgress" /\ runningCommands \subseteq {turn}
  ELSE /\ activeTurnId = NoTurn /\ turnStatus # "inProgress" /\ runningCommands = {}
       /\ \A t \in 1 .. turn :
            /\ \A m \in SummariesOf(t) : said[m] # NoText => Whole(m)
            /\ \/ Whole(Commentary(t))
               \/ ~messages[Commentary(t)].ready /\ KeptBack(Commentary(t))
            /\ answers[t] # NoText =>
                 messages[Final(t)].ready /\ messages[Final(t)].text = TextOf(Final(t), answers[t])
            /\ KeptBack(Final(t))

=============================================================================
