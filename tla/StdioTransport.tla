---------------------------- MODULE StdioTransport ----------------------------
(***************************************************************************)
(* CodexStdioTransport: JSON-RPC calls over the stdin and stdout of a      *)
(* codex app-server process, which is started when it is needed and        *)
(* replaced when it has exited.  Requests of one server may be answered in *)
(* any order or never, and lines of a server that is being replaced may    *)
(* still come in while the next one is at work.                            *)
(***************************************************************************)
EXTENDS Naturals, FiniteSets

CONSTANTS
  Calls,           \* the calls of request() that are made
  NoCall           \* no call

CONSTANTS          \* bounds of the checked instances
  MaxServers       \* app-server processes that are spawned

ASSUME TransportConstants ==
  /\ NoCall \notin Calls /\ IsFiniteSet(Calls)
  /\ MaxServers \in Nat \ {0}

VARIABLES
  child,           \* #child, or NoServer
  nextRequestId,   \* #nextRequestId
  pending,         \* #pending: the call that waits for each request id
  armed,           \* the calls whose timer runs
  call,            \* what has become of each call
  server,          \* the processes: external, but for the handlers of their events
  inbox,           \* the requests on their way to a server or at work there
  lines            \* the responses on the stdout of each server, not yet handled

(* History, read by no action: the calls a server has answered.            *)
VARIABLE replied

processVars == <<server, inbox, lines>>
vars == <<child, nextRequestId, pending, armed, call, processVars, replied>>

Servers == 1 .. MaxServers
NoServer == 0

(* An id is used for one call only.                                        *)
Ids == 1 .. Cardinality(Calls)

(***************************************************************************)
(* A message carries a request id and, in its method and params or in its  *)
(* result, what it is about.                                               *)
(***************************************************************************)
Message == [id : Ids, about : Calls]

Rejections == {"timedOut", "exited", "closed"}
Outcomes == {"answered"} \cup Rejections

Call == [
  status : {"unsent", "open"} \cup Outcomes,
  id : Ids \cup {0},
  server : Servers \cup {NoServer},
  answer : Calls \cup {NoCall}]

UnsentCall == [status |-> "unsent", id |-> 0, server |-> NoServer, answer |-> NoCall]

(***************************************************************************)
(* "dead" is a process that has exited, or could not be spawned, and whose *)
(* exit or error event is not yet handled; "terminating" one that was sent *)
(* SIGTERM, and a second later SIGKILL.                                    *)
(***************************************************************************)
ServerStates == {"none", "running", "terminating", "dead", "gone"}
Alive == {"running", "terminating"}

TransportTypeOK ==
  /\ child \in Servers \cup {NoServer}
  /\ nextRequestId \in 1 .. Cardinality(Calls) + 1
  /\ pending \in [Ids -> Calls \cup {NoCall}]
  /\ armed \subseteq Calls
  /\ call \in [Calls -> Call]
  /\ server \in [Servers -> [state : ServerStates, read : BOOLEAN]]
  /\ inbox \in [Servers -> SUBSET Message]
  /\ lines \in [Servers -> SUBSET Message]
  /\ replied \subseteq Calls

Init ==
  /\ child = NoServer
  /\ nextRequestId = 1
  /\ pending = [id \in Ids |-> NoCall]
  /\ armed = {}
  /\ call = [k \in Calls |-> UnsentCall]
  /\ server = [c \in Servers |-> [state |-> "none", read |-> TRUE]]
  /\ inbox = [c \in Servers |-> {}]
  /\ lines = [c \in Servers |-> {}]
  /\ replied = {}

Waiting == {pending[id] : id \in Ids} \ {NoCall}

----------------------------------------------------------------------------
(***************************************************************************)
(* start: `c` is the server there is afterwards.  A child is spawned when  *)
(* none is held: #child is reset before anything else when a child exits,  *)
(* so the exitCode that start looks at is always null here.                *)
(***************************************************************************)
Started(c) ==
  IF child = NoServer
  THEN /\ server[c].state = "none"
       /\ \A d \in Servers : d < c => server[d].state # "none"
       /\ server' = [server EXCEPT ![c].state = "running"]
       /\ child' = c
  ELSE /\ c = child
       /\ UNCHANGED <<server, child>>

(* The call gets an id and a timer, and is written; what is written to a   *)
(* dead process is lost.                                                   *)
Register(k, c, id) ==
  /\ call[k].status = "unsent"
  /\ nextRequestId' = id + 1
  /\ pending' = [pending EXCEPT ![id] = k]
  /\ armed' = armed \cup {k}
  /\ call' = [call EXCEPT ![k] = [status |-> "open", id |-> id, server |-> c,
                                  answer |-> NoCall]]
  /\ inbox' = IF server'[c].state = "running"
              THEN [inbox EXCEPT ![c] = @ \cup {[id |-> id, about |-> k]}]
              ELSE inbox
  /\ UNCHANGED <<lines, replied>>

(* Mutant of Request: ids begin again with every server.                   *)
RequestCountsPerServer(k) ==
  \E c \in Servers :
    /\ Started(c)
    /\ Register(k, c, IF child = NoServer THEN 1 ELSE nextRequestId)

(* request: ids go on over all servers.                                    *)
Request(k) == \E c \in Servers : Started(c) /\ Register(k, c, nextRequestId)

(* Mutant of Notify: a notification takes an id as well.                   *)
NotifyTakesId ==
  /\ \E c \in Servers : Started(c)
  /\ nextRequestId' = nextRequestId + 1
  /\ UNCHANGED <<pending, armed, call, inbox, lines, replied>>

(* notify, respond and respondError leave no trace but the server they may *)
(* have started.                                                           *)
Notify ==
  /\ \E c \in Servers : Started(c)
  /\ UNCHANGED <<nextRequestId, pending, armed, call, inbox, lines, replied>>

(* Mutant of RejectAll: the timers are cleared and the calls forgotten.    *)
ForgetAll(reason) ==
  /\ armed' = armed \ Waiting
  /\ pending' = [id \in Ids |-> NoCall]
  /\ UNCHANGED call

(* #rejectAll: every pending call, whichever server it was written to.     *)
RejectAll(reason) ==
  /\ call' = [k \in Calls |-> IF k \in Waiting THEN [call[k] EXCEPT !.status = reason]
                                              ELSE call[k]]
  /\ armed' = armed \ Waiting
  /\ pending' = [id \in Ids |-> NoCall]

(* close: the child is told to end, and is no longer held.                 *)
Close ==
  /\ child # NoServer
  /\ child' = NoServer
  /\ server' = IF server[child].state = "running"
               THEN [server EXCEPT ![child].state = "terminating"] ELSE server
  /\ RejectAll("closed")
  /\ UNCHANGED <<nextRequestId, inbox, lines, replied>>

(* Mutant of ChildExit: the calls are left to their timers, and the next   *)
(* server inherits them.                                                   *)
ChildExitLeavesCalls(c) ==
  /\ server[c].state = "dead"
  /\ server' = [server EXCEPT ![c].state = "gone"]
  /\ child' = IF child = c THEN NoServer ELSE child
  /\ UNCHANGED <<nextRequestId, pending, armed, call, inbox, lines, replied>>

(* The handlers of the child's exit and error events.                      *)
ChildExit(c) ==
  /\ server[c].state = "dead"
  /\ server' = [server EXCEPT ![c].state = "gone"]
  /\ child' = IF child = c THEN NoServer ELSE child
  /\ RejectAll("exited")
  /\ UNCHANGED <<nextRequestId, inbox, lines, replied>>

(* A response that nobody waits for any more is dropped.                   *)
HandleLine(c) ==
  /\ server[c].read
  /\ \E m \in lines[c] :
       LET k == pending[m.id] IN
       /\ lines' = [lines EXCEPT ![c] = @ \ {m}]
       /\ IF k = NoCall
          THEN UNCHANGED <<pending, armed, call>>
          ELSE /\ pending' = [pending EXCEPT ![m.id] = NoCall]
               /\ armed' = armed \ {k}
               /\ call' = [call EXCEPT ![k].status = "answered", ![k].answer = m.about]
  /\ UNCHANGED <<child, nextRequestId, server, inbox, replied>>

(* A listener that throws on a message of the server ends the loop that    *)
(* reads its lines: no later one is ever handled.                          *)
ReadingStops(c) ==
  /\ server[c].state # "none" /\ server[c].read
  /\ server' = [server EXCEPT ![c].read = FALSE]
  /\ UNCHANGED <<child, nextRequestId, pending, armed, call, inbox, lines, replied>>

(* The timer of a call.                                                    *)
Timeout(k) ==
  /\ k \in armed
  /\ armed' = armed \ {k}
  /\ pending' = [pending EXCEPT ![call[k].id] = NoCall]
  /\ call' = [call EXCEPT ![k].status = "timedOut"]
  /\ UNCHANGED <<child, nextRequestId, processVars, replied>>

----------------------------------------------------------------------------
(* The app-server: it answers what it was asked, in any order, or not; and *)
(* it may exit at any time.                                                *)
ServerAnswers(c) ==
  /\ server[c].state \in Alive
  /\ \E m \in inbox[c] :
       /\ inbox' = [inbox EXCEPT ![c] = @ \ {m}]
       /\ lines' = [lines EXCEPT ![c] = @ \cup {m}]
       /\ replied' = replied \cup {m.about}
  /\ UNCHANGED <<child, nextRequestId, pending, armed, call, server>>

ServerExits(c) ==
  /\ server[c].state \in Alive
  /\ server' = [server EXCEPT ![c].state = "dead"]
  /\ inbox' = [inbox EXCEPT ![c] = {}]
  /\ UNCHANGED <<child, nextRequestId, pending, armed, call, lines, replied>>

Next ==
  \/ \E k \in Calls : Request(k) \/ Timeout(k)
  \/ Notify
  \/ Close
  \/ \E c \in Servers :
       ChildExit(c) \/ HandleLine(c) \/ ReadingStops(c) \/ ServerAnswers(c) \/ ServerExits(c)

Spec == Init /\ [][Next]_vars

(* Timers fire.  Nothing is asked of the servers.                          *)
FairSpec == Spec /\ \A k \in Calls : WF_vars(Timeout(k))

----------------------------------------------------------------------------
(***************************************************************************)
(* A caller that gets an answer gets the answer to its own call, from the  *)
(* server it was sent to, although answers of a server that was closed or  *)
(* has exited come in while the calls of the next one wait.                *)
(***************************************************************************)
AnswersItsOwnCall ==
  \A k \in Calls : call[k].status = "answered" => call[k].answer = k /\ k \in replied

(***************************************************************************)
(* Whoever still waits was sent to the server that is held now, and has a  *)
(* timer; whoever has a timer waits: no call waits for a server that is    *)
(* known to be gone, and no timer outlives its call.                       *)
(***************************************************************************)
WaitsForPresentServer ==
  /\ \A k \in Waiting : child # NoServer /\ call[k].server = child
  /\ armed = Waiting
  /\ \A k \in Calls : call[k].status = "open" <=> k \in Waiting

(***************************************************************************)
(* Every call ends, once and with its own answer or none: what RpcCalls    *)
(* promises.                                                               *)
(***************************************************************************)
RpcState ==
  [k \in Calls |-> IF call[k].status \in Rejections THEN "failed" ELSE call[k].status]

Rpc == INSTANCE RpcCalls WITH state <- RpcState, replied <- replied

CallsEnd == Rpc!RpcSpec

----------------------------------------------------------------------------
(***************************************************************************)
(* The message a caller gets when its server is gone: "codex app-server    *)
(* exited with".  It is told of the server its call was sent to.           *)
(***************************************************************************)
ExitedIsItsServer ==
  \A k \in Calls : call[k].status = "exited" => server[call[k].server].state = "gone"

=============================================================================
