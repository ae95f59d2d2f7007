---------------------------- MODULE ToyboxSession ----------------------------
(***************************************************************************)
(* A client (the HTTP proxy, or the command line) of a toybox process, and *)
(* the app-server process behind it.  The toybox reads the lines of its    *)
(* client one by one and handles the next when it has answered the last;   *)
(* what the app-server asks is passed on to the client, whose answer comes *)
(* as one more line.  The app-server is external.                          *)
(***************************************************************************)
EXTENDS Naturals, Sequences

CONSTANTS
  Asks,        \* the calls the client makes of the app-server
  AppServers   \* bound: app-server processes

ASSUME ToyboxConstants == AppServers \in Nat \ {0}

VARIABLES
  peer,        \* the client: "new", "initializing", "ready" or "failed"
  asks,        \* what the client knows of its calls
  input,       \* the lines on their way to the toybox
  toybox,      \* serveToybox: "connecting", "serving" or "ended"
  serving,     \* the line it handles, if it has to wait for the app-server
  app,         \* the app-server: which process, whether it is up, whether initialized
  sentTo,      \* the app-server process a call was sent to
  question     \* what the app-server asks in the course of a call

toyboxVars == <<peer, asks, input, toybox, serving, app, sentTo, question>>

InitializeLine == [kind |-> "initialize", of |-> CHOOSE a \in Asks : TRUE]
NoLine == [kind |-> "none", of |-> CHOOSE a \in Asks : TRUE]
NoQuestion == [state |-> "none", by |-> 0, heardBy |-> 0]

ToyboxInit ==
  /\ peer = "new" /\ toybox = "connecting"
  /\ asks = [a \in Asks |-> "none"] /\ input = <<>> /\ serving = NoLine
  /\ app = [process |-> 1, up |-> TRUE, initialized |-> FALSE]
  /\ sentTo = [a \in Asks |-> 0] /\ question = [a \in Asks |-> NoQuestion]

----------------------------------------------------------------------------
(* createProxyRequester: the first request sends toybox.initialize, all    *)
(* await its answer; a promise that was rejected is kept.                  *)
initialize ==
  /\ peer = "new"
  /\ peer' = "initializing" /\ input' = Append(input, InitializeLine)
  /\ UNCHANGED <<asks, toybox, serving, app, sentTo, question>>

initializeFails ==
  /\ peer = "initializing" /\ peer' = "failed"
  /\ UNCHANGED <<asks, input, toybox, serving, app, sentTo, question>>

request(a) ==
  /\ asks[a] = "none"
  /\ \/ /\ peer = "ready"
        /\ asks' = [asks EXCEPT ![a] = "pending"]
        /\ input' = Append(input, [kind |-> "call", of |-> a])
     \/ /\ peer = "failed"
        /\ asks' = [asks EXCEPT ![a] = "notReady"] /\ UNCHANGED input
  /\ UNCHANGED <<peer, toybox, serving, app, sentTo, question>>

(* The client's own timer; the line stays where it is.                     *)
requestTimesOut(a) ==
  /\ asks[a] = "pending" /\ asks' = [asks EXCEPT ![a] = "gaveUp"]
  /\ UNCHANGED <<peer, input, toybox, serving, app, sentTo, question>>

respond(a) ==
  /\ question[a].state = "asked"
  /\ question' = [question EXCEPT ![a].state = "answering"]
  /\ input' = Append(input, [kind |-> "respond", of |-> a])
  /\ UNCHANGED <<peer, asks, toybox, serving, app, sentTo>>

----------------------------------------------------------------------------
(* Mutant of connect: the first lines are read while it goes on.           *)
connectWhileServing ==
  /\ toybox = "connecting" /\ app.up
  /\ toybox' = "serving"
  /\ UNCHANGED <<peer, asks, input, serving, app, sentTo, question>>

(* The toybox initializes its app-server before it reads a line.           *)
connect ==
  /\ toybox = "connecting" /\ app.up
  /\ app' = [app EXCEPT !.initialized = TRUE] /\ toybox' = "serving"
  /\ UNCHANGED <<peer, asks, input, serving, sentTo, question>>

connectFails ==
  /\ toybox = "connecting" /\ toybox' = "ended"
  /\ app' = [app EXCEPT !.up = FALSE]
  /\ UNCHANGED <<peer, asks, input, serving, sentTo, question>>

(* The transport starts another app-server if the last one has exited, and *)
(* nothing initializes it: #connected of the client is still true.         *)
Running == IF app.up THEN app ELSE [process |-> app.process + 1, up |-> TRUE, initialized |-> FALSE]
CanRun == app.up \/ app.process < AppServers

Take(kind) ==
  /\ toybox = "serving" /\ serving = NoLine
  /\ input # <<>> /\ Head(input).kind = kind
  /\ input' = Tail(input)

answerInitialize ==
  /\ Take("initialize")
  /\ peer' = IF peer = "initializing" THEN "ready" ELSE peer
  /\ UNCHANGED <<asks, toybox, serving, app, sentTo, question>>

forwardCall ==
  LET a == Head(input).of IN
  /\ Take("call") /\ CanRun
  /\ app' = Running /\ sentTo' = [sentTo EXCEPT ![a] = Running.process]
  /\ serving' = Head(input)
  /\ UNCHANGED <<peer, asks, toybox, question>>

(* app.respond is written to the app-server of the moment.                 *)
forwardResponse ==
  LET a == Head(input).of IN
  /\ Take("respond") /\ CanRun
  /\ app' = Running
  /\ question' = [question EXCEPT ![a].state = "answered", ![a].heardBy = Running.process]
  /\ UNCHANGED <<peer, asks, toybox, serving, sentTo>>

(* The answer of a call is a line to the client, which may have given up.  *)
Answer(a, outcome) ==
  /\ serving = [kind |-> "call", of |-> a] /\ serving' = NoLine
  /\ asks' = [asks EXCEPT ![a] = IF @ = "pending" THEN outcome ELSE @]
  /\ UNCHANGED <<peer, input, toybox, sentTo>>

(* Mutant of callTimesOut: not while the app-server has a question.        *)
callTimesOutUnasked(a) ==
  question[a].state = "none" /\ Answer(a, "timedOut") /\ UNCHANGED <<app, question>>

callTimesOut(a) == Answer(a, "timedOut") /\ UNCHANGED <<app, question>>

(* The input has ended: the finally block of serveToybox.                  *)
inputEnds ==
  /\ toybox = "serving" /\ serving = NoLine /\ input = <<>>
  /\ toybox' = "ended" /\ app' = [app EXCEPT !.up = FALSE]
  /\ UNCHANGED <<peer, asks, input, serving, sentTo, question>>

----------------------------------------------------------------------------
(* The app-server asks at most one thing in the course of a call, which    *)
(* the toybox broadcasts at once.                                          *)
AtWork(a) == app.up /\ serving = [kind |-> "call", of |-> a] /\ sentTo[a] = app.process

AppAsks(a) ==
  /\ AtWork(a) /\ app.initialized /\ question[a] = NoQuestion
  /\ question' = [question EXCEPT ![a] = [state |-> "asked", by |-> app.process, heardBy |-> 0]]
  /\ UNCHANGED <<peer, asks, input, toybox, serving, app, sentTo>>

AppAnswers(a) ==
  /\ AtWork(a) /\ app.initialized
  /\ question[a].state = "none" \/ question[a].heardBy = app.process
  /\ Answer(a, "result") /\ UNCHANGED <<app, question>>

AppRefuses(a) ==
  /\ AtWork(a) /\ ~app.initialized
  /\ Answer(a, "refused") /\ UNCHANGED <<app, question>>

AppExits ==
  /\ toybox = "serving" /\ app.up
  /\ app' = [app EXCEPT !.up = FALSE]
  /\ IF serving = NoLine THEN UNCHANGED <<peer, asks, input, toybox, serving, sentTo>>
                         ELSE Answer(serving.of, "exited")
  /\ UNCHANGED question

ToyboxServes ==
  \/ connect \/ connectFails \/ answerInitialize \/ forwardCall \/ forwardResponse
  \/ \E a \in Asks : callTimesOut(a)

ToyboxNext ==
  \/ initialize \/ initializeFails \/ inputEnds \/ AppExits \/ ToyboxServes
  \/ \E a \in Asks : \/ request(a) \/ requestTimesOut(a) \/ respond(a)
                     \/ AppAsks(a) \/ AppAnswers(a) \/ AppRefuses(a)

ToyboxSpec == ToyboxInit /\ [][ToyboxNext]_toyboxVars

(* Lines that have come are handled, and the timers of the transport fire. *)
ToyboxFairness == WF_toyboxVars(ToyboxServes)

----------------------------------------------------------------------------
(***************************************************************************)
(* No call reaches an app-server that was not initialized, unless the one  *)
(* that was has exited; nor is anything sent by a client before the toybox *)
(* has answered its own initialize.                                        *)
(***************************************************************************)
ServedAfterInitialize ==
  /\ \A a \in Asks : sentTo[a] # 0 /\ app.process = 1 => app.initialized
  /\ peer # "ready" => \A a \in Asks : sentTo[a] = 0

(***************************************************************************)
(* The toybox does not stop for good at a call whose question cannot reach *)
(* its app-server because the answer is a later line: it comes back to the *)
(* input, and every line is handled as long as app-servers can be started. *)
(***************************************************************************)
LinesAreServed ==
  /\ toybox = "serving" /\ serving # NoLine ~> serving = NoLine
  /\ \A a \in Asks : question[a].state = "answering" /\ app.up
       ~> question[a].state = "answered" \/ ~app.up

=============================================================================
