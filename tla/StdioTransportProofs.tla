------------------------ MODULE StdioTransportProofs ------------------------
(***************************************************************************)
(* Proofs about StdioTransport, for every finite set of calls and every    *)
(* number of servers.                                                      *)
(***************************************************************************)
EXTENDS StdioTransport, FiniteSetTheorems, TLAPS

Sent == {k \in Calls : call[k].status # "unsent"}
Open == {k \in Calls : call[k].status = "open"}

(* Ids are handed out one by one: their number is that of the calls sent.  *)
IdsCounted == nextRequestId = Cardinality(Sent) + 1

(* No two calls ever share an id, and no id is ahead of the counter.       *)
IdsDistinct ==
  \A k \in Sent :
    /\ call[k].id \in 1 .. nextRequestId - 1
    /\ \A l \in Sent : call[k].id = call[l].id => k = l

(* #pending holds the open calls, each under its id...                     *)
PendingIsOpen ==
  /\ \A id \in Ids : pending[id] # NoCall => pending[id] \in Open /\ call[pending[id]].id = id
  /\ \A k \in Open : pending[call[k].id] = k

(* ... each has a timer...                                                 *)
TimersOfOpen == armed = Open

(* ... and was sent to the child that is held.                             *)
OpenAtChild == \A k \in Open : child # NoServer /\ call[k].server = child

(* A message carries the id of the call it is about, and an answer on its  *)
(* way was given by a server.                                              *)
MessagesMatch ==
  /\ \A c \in Servers : \A m \in inbox[c] \cup lines[c] :
       m.about \in Sent /\ m.id = call[m.about].id
  /\ \A c \in Servers : \A m \in lines[c] : m.about \in replied
  /\ replied \subseteq Sent

TransportInv ==
  /\ TransportTypeOK
  /\ IdsCounted
  /\ IdsDistinct
  /\ PendingIsOpen
  /\ TimersOfOpen
  /\ OpenAtChild
  /\ MessagesMatch
  /\ AnswersItsOwnCall

----------------------------------------------------------------------------
LEMMA WaitingIsOpen ==
  ASSUME TransportInv
  PROVE  Waiting = Open
  <1>1. ASSUME NEW k \in Waiting PROVE k \in Open
    BY <1>1 DEF TransportInv, PendingIsOpen, Waiting
  <1>2. ASSUME NEW k \in Open PROVE k \in Waiting
    <2>1. call[k].id \in Ids
      BY <1>2 DEF TransportInv, TransportTypeOK, IdsDistinct, Sent, Open, Call, Ids, Rejections, Outcomes
    <2>2. pending[call[k].id] = k /\ k # NoCall
      BY <1>2, TransportConstants DEF TransportInv, PendingIsOpen, Open
    <2> QED BY <2>1, <2>2 DEF Waiting
  <1> QED BY <1>1, <1>2

LEMMA UnsentIsCall == UnsentCall \in Call
  BY DEF UnsentCall, Call

LEMMA InitInv == Init => TransportInv
  <1> SUFFICES ASSUME Init PROVE TransportInv
    OBVIOUS
  <1>1. Sent = {} /\ Open = {} /\ Cardinality({}) = 0
    BY FS_EmptySet DEF Init, Sent, Open, UnsentCall
  <1>2. Cardinality(Calls) \in Nat
    BY FS_CardinalityType, TransportConstants
  <1>3. TransportTypeOK
    BY <1>2, UnsentIsCall DEF Init, TransportTypeOK, ServerStates
  <1>4. AnswersItsOwnCall
    BY DEF Init, AnswersItsOwnCall, UnsentCall
  <1> QED
    BY <1>1, <1>3, <1>4 DEF Init, TransportInv, IdsCounted, IdsDistinct, PendingIsOpen,
       TimersOfOpen, OpenAtChild, MessagesMatch

----------------------------------------------------------------------------
LEMMA StartedType ==
  ASSUME TransportInv, NEW c \in Servers, Started(c)
  PROVE  /\ child' = c
         /\ server' \in [Servers -> [state : ServerStates, read : BOOLEAN]]
         /\ child # NoServer => child' = child
  BY DEF TransportInv, TransportTypeOK, Started, ServerStates, NoServer, Servers

LEMMA RequestInv ==
  ASSUME TransportInv, NEW k \in Calls, Request(k)
  PROVE  TransportInv'
  <1> PICK c \in Servers : Started(c) /\ Register(k, c, nextRequestId)
    BY DEF Request
  <1> DEFINE id == nextRequestId
  <1> USE TransportConstants
  <1>1. /\ child' = c
        /\ server' \in [Servers -> [state : ServerStates, read : BOOLEAN]]
        /\ child # NoServer => child' = child
    BY StartedType
  <1>2. k \notin Sent /\ IsFiniteSet(Sent) /\ Sent \cup {k} \subseteq Calls
    BY FS_Subset DEF Register, Sent
  <1>3. Cardinality(Sent \cup {k}) = Cardinality(Sent) + 1 /\ IsFiniteSet(Sent \cup {k})
    BY <1>2, FS_AddElement
  <1>4. /\ Cardinality(Sent \cup {k}) <= Cardinality(Calls)
        /\ Cardinality(Calls) \in Nat /\ Cardinality(Sent) \in Nat
    BY <1>2, <1>3, FS_Subset, FS_CardinalityType
  <1>5. id \in Ids /\ id + 1 \in 1 .. Cardinality(Calls) + 1
    BY <1>3, <1>4 DEF TransportInv, IdsCounted, Ids
  <1>6. call' = [call EXCEPT ![k] = [status |-> "open", id |-> id, server |-> c, answer |-> NoCall]]
    BY DEF Register
  <1>7. call'[k] = [status |-> "open", id |-> id, server |-> c, answer |-> NoCall]
    BY <1>6 DEF TransportInv, TransportTypeOK
  <1>8. \A l \in Calls : l # k => call'[l] = call[l]
    BY <1>6 DEF TransportInv, TransportTypeOK
  <1>9. Sent' = Sent \cup {k} /\ Open' = Open \cup {k}
    BY <1>2, <1>7, <1>8 DEF Sent, Open
  <1>10. inbox' \in [Servers -> SUBSET Message]
    BY <1>5 DEF Register, TransportInv, TransportTypeOK, Message
  <1>11. call'[k] \in Call
    BY <1>5, <1>7 DEF Call
  <1>12. TransportTypeOK'
    BY <1>1, <1>5, <1>6, <1>7, <1>10, <1>11 DEF Register, TransportInv, TransportTypeOK
  <1>13. IdsCounted'
    BY <1>3, <1>4, <1>9 DEF IdsCounted, Register, TransportInv
  <1>14. IdsDistinct'
    BY <1>2, <1>5, <1>7, <1>8, <1>9 DEF IdsDistinct, Register, TransportInv, Ids, Sent
  <1>15. PendingIsOpen'
    <2>1. /\ pending'[id] = k
          /\ \A j \in Ids : j # id => pending'[j] = pending[j]
      BY <1>5 DEF Register, TransportInv, TransportTypeOK
    <2>2. \A l \in Open : call[l].id # id /\ call[l].id \in Ids /\ l # k
      BY <1>2, <1>4, <1>5 DEF TransportInv, IdsDistinct, Sent, Open, Ids, TransportTypeOK, Call
    <2> QED
      BY <1>7, <1>8, <1>9, <2>1, <2>2 DEF TransportInv, PendingIsOpen, Open
  <1>16. TimersOfOpen'
    BY <1>9 DEF TransportInv, TimersOfOpen, Register
  <1>17. OpenAtChild'
    BY <1>1, <1>7, <1>8, <1>9 DEF TransportInv, OpenAtChild, Open, Servers, NoServer
  <1>18. MessagesMatch'
    <2>1. lines' = lines /\ replied' = replied
      BY DEF Register
    <2>2. \A d \in Servers : \A m \in inbox'[d] :
            m \in inbox[d] \/ m = [id |-> id, about |-> k]
      BY DEF Register, TransportInv, TransportTypeOK
    <2>3. \A l \in Sent : l \in Calls /\ l # k /\ call'[l] = call[l]
      BY <1>2, <1>8
    <2>4. ASSUME NEW d \in Servers, NEW m \in inbox'[d] \cup lines'[d]
          PROVE  m.about \in Sent' /\ m.id = call'[m.about].id
      BY <1>7, <1>9, <2>1, <2>2, <2>3 DEF TransportInv, MessagesMatch
    <2> QED BY <1>9, <2>1, <2>4 DEF TransportInv, MessagesMatch
  <1>19. AnswersItsOwnCall'
    BY <1>7, <1>8 DEF AnswersItsOwnCall, TransportInv, Register
  <1> QED
    BY <1>12, <1>13, <1>14, <1>15, <1>16, <1>17, <1>18, <1>19 DEF TransportInv

LEMMA NotifyInv ==
  ASSUME TransportInv, Notify
  PROVE  TransportInv'
  <1> PICK c \in Servers : Started(c)
    BY DEF Notify
  <1>1. /\ child' = c
        /\ server' \in [Servers -> [state : ServerStates, read : BOOLEAN]]
        /\ child # NoServer => child' = child
    BY StartedType
  <1>2. Sent' = Sent /\ Open' = Open
    BY DEF Notify, Sent, Open
  <1> QED
    BY <1>1, <1>2 DEF Notify, TransportInv, TransportTypeOK, IdsCounted, IdsDistinct,
       PendingIsOpen, TimersOfOpen, OpenAtChild, MessagesMatch, AnswersItsOwnCall

(* After a rejection of all nobody waits, whichever child is held.         *)
LEMMA RejectAllInv ==
  ASSUME TransportInv, NEW reason \in Rejections, RejectAll(reason),
         UNCHANGED <<nextRequestId, inbox, lines, replied>>,
         child' \in Servers \cup {NoServer},
         server' \in [Servers -> [state : ServerStates, read : BOOLEAN]]
  PROVE  TransportInv'
  <1>1. Waiting = Open
    BY WaitingIsOpen
  <1>2. \A k \in Calls : call'[k] = IF k \in Open THEN [call[k] EXCEPT !.status = reason] ELSE call[k]
    BY <1>1 DEF RejectAll
  <1>3. reason \notin {"unsent", "open", "answered"}
    BY DEF Rejections
  <1>4. \A k \in Calls : call[k] \in Call /\ call'[k] \in Call
    <2>1. \A k \in Calls : call[k] \in Call
      BY DEF TransportInv, TransportTypeOK
    <2> QED BY <1>2, <2>1 DEF Call, Outcomes
  <1>5. \A k \in Calls : /\ call'[k].id = call[k].id
                         /\ call'[k].answer = call[k].answer
                         /\ call'[k].status = IF k \in Open THEN reason ELSE call[k].status
    BY <1>2, <1>4 DEF Call
  <1>6. Sent' = Sent /\ Open' = {}
    BY <1>3, <1>5 DEF Sent, Open
  <1>7. TransportTypeOK'
    BY <1>4 DEF TransportInv, TransportTypeOK, RejectAll
  <1>8. IdsCounted' /\ IdsDistinct'
    BY <1>5, <1>6 DEF TransportInv, IdsCounted, IdsDistinct, Sent
  <1>9. PendingIsOpen' /\ TimersOfOpen' /\ OpenAtChild'
    BY <1>1, <1>6 DEF TransportInv, PendingIsOpen, TimersOfOpen, OpenAtChild, RejectAll
  <1>10. MessagesMatch'
    BY <1>5, <1>6 DEF TransportInv, MessagesMatch, Sent
  <1>11. AnswersItsOwnCall'
    BY <1>3, <1>5 DEF TransportInv, AnswersItsOwnCall
  <1> QED BY <1>7, <1>8, <1>9, <1>10, <1>11 DEF TransportInv

LEMMA CloseInv ==
  ASSUME TransportInv, Close
  PROVE  TransportInv'
  <1>1. server' \in [Servers -> [state : ServerStates, read : BOOLEAN]]
    BY DEF Close, TransportInv, TransportTypeOK, ServerStates
  <1>2. "closed" \in Rejections
    BY DEF Rejections
  <1> QED BY <1>1, <1>2, RejectAllInv DEF Close

LEMMA ChildExitInv ==
  ASSUME TransportInv, NEW c \in Servers, ChildExit(c)
  PROVE  TransportInv'
  <1>1. server' \in [Servers -> [state : ServerStates, read : BOOLEAN]]
    BY DEF ChildExit, TransportInv, TransportTypeOK, ServerStates
  <1>2. "exited" \in Rejections /\ child' \in Servers \cup {NoServer}
    BY DEF Rejections, ChildExit, TransportInv, TransportTypeOK
  <1> QED BY <1>1, <1>2, RejectAllInv DEF ChildExit

(* One open call ends.                                                     *)
LEMMA EndInv ==
  ASSUME TransportInv, NEW k \in Open, NEW record \in Call,
         record.status \in Outcomes, record.id = call[k].id,
         record.status = "answered" => record.answer = k /\ k \in replied,
         call' = [call EXCEPT ![k] = record],
         pending' = [pending EXCEPT ![call[k].id] = NoCall],
         armed' = armed \ {k},
         UNCHANGED <<child, nextRequestId, server, inbox, replied>>,
         lines' \in [Servers -> SUBSET Message],
         \A c \in Servers : lines'[c] \subseteq lines[c]
  PROVE  TransportInv'
  <1>1. k \in Calls /\ call'[k] = record /\ \A l \in Calls : l # k => call'[l] = call[l]
    BY DEF Open, TransportInv, TransportTypeOK
  <1>2. record.status \notin {"unsent", "open"}
    BY DEF Outcomes, Rejections
  <1>3. Sent' = Sent /\ Open' = Open \ {k}
    BY <1>1, <1>2 DEF Sent, Open
  <1>4. call[k].id \in Ids
    BY DEF TransportInv, TransportTypeOK, IdsDistinct, Sent, Open, Call, Ids
  <1>5. \A l \in Calls : call'[l].id = call[l].id
    BY <1>1
  <1>6. TransportTypeOK'
    BY <1>1, <1>4 DEF TransportInv, TransportTypeOK
  <1>7. IdsCounted' /\ IdsDistinct'
    BY <1>3, <1>5 DEF TransportInv, IdsCounted, IdsDistinct, Sent
  <1>8. PendingIsOpen'
    <2>1. /\ pending'[call[k].id] = NoCall
          /\ \A j \in Ids : j # call[k].id => pending'[j] = pending[j]
      BY <1>4 DEF TransportInv, TransportTypeOK
    <2>2. \A l \in Open : l \in Sent /\ l \in Calls
      BY DEF Open, Sent
    <2>3. \A l \in Open : l # k => call[l].id # call[k].id /\ call[l].id \in Ids
      BY <2>2 DEF TransportInv, TransportTypeOK, IdsDistinct, Sent, Open, Call, Ids
    <2>4. \A j \in Ids : j # call[k].id => pending[j] # k
      BY TransportConstants DEF TransportInv, PendingIsOpen, Open
    <2> QED
      BY <1>3, <1>5, <2>1, <2>2, <2>3, <2>4 DEF TransportInv, PendingIsOpen
  <1>9. TimersOfOpen' /\ OpenAtChild'
    BY <1>1, <1>3 DEF TransportInv, TimersOfOpen, OpenAtChild, Open
  <1>10. MessagesMatch'
    BY <1>3, <1>5 DEF TransportInv, MessagesMatch, Sent
  <1>11. AnswersItsOwnCall'
    BY <1>1 DEF TransportInv, AnswersItsOwnCall
  <1> QED BY <1>6, <1>7, <1>8, <1>9, <1>10, <1>11 DEF TransportInv

LEMMA HandleLineInv ==
  ASSUME TransportInv, NEW c \in Servers, HandleLine(c)
  PROVE  TransportInv'
  <1> PICK m \in lines[c] :
         LET k == pending[m.id] IN
         /\ lines' = [lines EXCEPT ![c] = @ \ {m}]
         /\ IF k = NoCall
            THEN UNCHANGED <<pending, armed, call>>
            ELSE /\ pending' = [pending EXCEPT ![m.id] = NoCall]
                 /\ armed' = armed \ {k}
                 /\ call' = [call EXCEPT ![k].status = "answered", ![k].answer = m.about]
    BY DEF HandleLine
  <1>1. UNCHANGED <<child, nextRequestId, server, inbox, replied>>
    BY DEF HandleLine
  <1>2. /\ lines' \in [Servers -> SUBSET Message]
        /\ \A d \in Servers : lines'[d] \subseteq lines[d]
    BY DEF TransportInv, TransportTypeOK
  <1>3. m \in Message /\ m.id \in Ids /\ m.about \in Sent /\ m.about \in replied
        /\ m.id = call[m.about].id
    BY DEF TransportInv, TransportTypeOK, MessagesMatch, Message
  <1>4. CASE pending[m.id] = NoCall
    <2>1. UNCHANGED <<pending, armed, call>> /\ Sent' = Sent /\ Open' = Open
      BY <1>4 DEF Sent, Open
    <2> QED
      BY <1>1, <1>2, <2>1 DEF TransportInv, TransportTypeOK, IdsCounted, IdsDistinct,
         PendingIsOpen, TimersOfOpen, OpenAtChild, MessagesMatch, AnswersItsOwnCall
  <1>5. CASE pending[m.id] # NoCall
    <2> DEFINE k == pending[m.id]
    <2> DEFINE record == [call[k] EXCEPT !.status = "answered", !.answer = m.about]
    <2>1. k \in Open /\ call[k].id = m.id /\ k \in Sent /\ k \in Calls
      BY <1>3, <1>5 DEF TransportInv, PendingIsOpen, Open, Sent
    <2>2. m.about = k
      BY <1>3, <2>1 DEF TransportInv, IdsDistinct
    <2>3. call[k] \in Call
      BY <2>1 DEF TransportInv, TransportTypeOK
    <2>4. /\ record \in Call /\ record.status = "answered"
          /\ record.id = call[k].id /\ record.answer = k
      BY <2>1, <2>2, <2>3 DEF Call, Outcomes
    <2>5. call' = [call EXCEPT ![k] = record]
      BY <1>5 DEF TransportInv, TransportTypeOK
    <2>6. /\ pending' = [pending EXCEPT ![call[k].id] = NoCall]
          /\ armed' = armed \ {k}
      BY <1>5, <2>1
    <2>7. "answered" \in Outcomes /\ k \in replied
      BY <1>3, <2>2 DEF Outcomes
    <2> HIDE DEF record, k
    <2> QED BY <1>1, <1>2, <2>1, <2>4, <2>5, <2>6, <2>7, EndInv
  <1> QED BY <1>4, <1>5

LEMMA TimeoutInv ==
  ASSUME TransportInv, NEW k \in Calls, Timeout(k)
  PROVE  TransportInv'
  <1> DEFINE record == [call[k] EXCEPT !.status = "timedOut"]
  <1>1. k \in Open
    BY DEF Timeout, TransportInv, TimersOfOpen
  <1>2. call[k] \in Call
    BY DEF TransportInv, TransportTypeOK
  <1>3. /\ record \in Call /\ record.status = "timedOut" /\ record.id = call[k].id
    BY <1>2 DEF Call, Outcomes, Rejections
  <1>4. /\ call' = [call EXCEPT ![k] = record]
        /\ UNCHANGED <<child, nextRequestId, server, inbox, lines, replied>>
    BY DEF Timeout, TransportInv, TransportTypeOK, processVars
  <1>5. /\ lines' \in [Servers -> SUBSET Message]
        /\ \A d \in Servers : lines'[d] \subseteq lines[d]
    BY <1>4 DEF TransportInv, TransportTypeOK
  <1>6. "timedOut" \in Outcomes
    BY DEF Outcomes, Rejections
  <1> HIDE DEF record
  <1> QED BY <1>1, <1>3, <1>4, <1>5, <1>6, EndInv DEF Timeout

(* Steps of a server leave the calls alone.                                *)
LEMMA ServerInv ==
  ASSUME TransportInv, NEW c \in Servers,
         ReadingStops(c) \/ ServerAnswers(c) \/ ServerExits(c)
  PROVE  TransportInv'
  <1>1. UNCHANGED <<child, nextRequestId, pending, armed, call>> /\ Sent' = Sent /\ Open' = Open
    BY DEF ReadingStops, ServerAnswers, ServerExits, Sent, Open
  <1>2. IdsCounted' /\ IdsDistinct' /\ PendingIsOpen' /\ TimersOfOpen' /\ OpenAtChild'
    BY <1>1 DEF TransportInv, IdsCounted, IdsDistinct, PendingIsOpen, TimersOfOpen, OpenAtChild
  <1>3. CASE ReadingStops(c)
    <2>1. server' \in [Servers -> [state : ServerStates, read : BOOLEAN]]
      BY <1>3 DEF ReadingStops, TransportInv, TransportTypeOK
    <2>2. UNCHANGED <<inbox, lines, replied>>
      BY <1>3 DEF ReadingStops
    <2>3. TransportTypeOK'
      BY <1>1, <2>1, <2>2 DEF TransportInv, TransportTypeOK
    <2>4. MessagesMatch' /\ AnswersItsOwnCall'
      BY <1>1, <2>2 DEF TransportInv, MessagesMatch, AnswersItsOwnCall
    <2> QED BY <1>2, <2>3, <2>4 DEF TransportInv
  <1>4. CASE ServerExits(c)
    <2>1. TransportTypeOK'
      BY <1>1, <1>4 DEF ServerExits, TransportInv, TransportTypeOK, ServerStates
    <2>2. MessagesMatch'
      <3>1. /\ \A d \in Servers : inbox'[d] \subseteq inbox[d]
            /\ lines' = lines /\ replied' = replied
        BY <1>4 DEF ServerExits, TransportInv, TransportTypeOK
      <3> QED BY <1>1, <3>1 DEF TransportInv, MessagesMatch
    <2>3. AnswersItsOwnCall'
      BY <1>1, <1>4 DEF ServerExits, TransportInv, AnswersItsOwnCall
    <2> QED BY <1>2, <2>1, <2>2, <2>3 DEF TransportInv
  <1>5. CASE ServerAnswers(c)
    <2> PICK m \in inbox[c] :
           /\ inbox' = [inbox EXCEPT ![c] = @ \ {m}]
           /\ lines' = [lines EXCEPT ![c] = @ \cup {m}]
           /\ replied' = replied \cup {m.about}
      BY <1>5 DEF ServerAnswers
    <2>1. m \in Message /\ m.about \in Sent /\ m.about \in Calls
      BY DEF TransportInv, TransportTypeOK, MessagesMatch, Message
    <2>2. TransportTypeOK'
      BY <1>1, <1>5, <2>1 DEF ServerAnswers, TransportInv, TransportTypeOK
    <2>3. MessagesMatch'
      <3>1. \A d \in Servers : /\ inbox'[d] \subseteq inbox[d]
                               /\ \A n \in lines'[d] : n \in lines[d] \/ (d = c /\ n = m)
        BY DEF TransportInv, TransportTypeOK
      <3> QED BY <1>1, <2>1, <3>1 DEF TransportInv, MessagesMatch
    <2>4. AnswersItsOwnCall'
      BY <1>1 DEF TransportInv, AnswersItsOwnCall
    <2> QED BY <1>2, <2>2, <2>3, <2>4 DEF TransportInv
  <1> QED BY <1>3, <1>4, <1>5

LEMMA NextInv == TransportInv /\ [Next]_vars => TransportInv'
  <1> SUFFICES ASSUME TransportInv, [Next]_vars PROVE TransportInv'
    OBVIOUS
  <1>1. CASE Notify
    BY <1>1, NotifyInv
  <1>2. CASE Close
    BY <1>2, CloseInv
  <1>3. ASSUME NEW k \in Calls, Request(k) \/ Timeout(k) PROVE TransportInv'
    BY <1>3, RequestInv, TimeoutInv
  <1>4. ASSUME NEW c \in Servers,
               \/ ChildExit(c) \/ HandleLine(c) \/ ReadingStops(c)
               \/ ServerAnswers(c) \/ ServerExits(c)
        PROVE  TransportInv'
    BY <1>4, ChildExitInv, HandleLineInv, ServerInv
  <1>5. CASE UNCHANGED vars
    <2>1. Sent' = Sent /\ Open' = Open
      BY <1>5 DEF vars, processVars, Sent, Open
    <2> QED
      BY <1>5, <2>1 DEF vars, processVars, TransportInv, TransportTypeOK, IdsCounted,
         IdsDistinct, PendingIsOpen, TimersOfOpen, OpenAtChild, MessagesMatch, AnswersItsOwnCall
  <1> QED BY <1>1, <1>2, <1>3, <1>4, <1>5 DEF Next

----------------------------------------------------------------------------
LEMMA InvAlways == Spec => []TransportInv
  BY InitInv, NextInv, PTL DEF Spec

(***************************************************************************)
(* Every variable keeps its type, and there is an id for every call.       *)
(***************************************************************************)
THEOREM TransportTypeCorrect == Spec => []TransportTypeOK
  <1>1. TransportInv => TransportTypeOK
    BY DEF TransportInv
  <1> QED BY <1>1, InvAlways, PTL

(***************************************************************************)
(* request() resolves only with what a server answered to this very call.  *)
(***************************************************************************)
THEOREM AnswersMatch == Spec => []AnswersItsOwnCall
  <1>1. TransportInv => AnswersItsOwnCall
    BY DEF TransportInv
  <1> QED BY <1>1, InvAlways, PTL

(***************************************************************************)
(* No call waits for a server that is known to be gone, and timers and     *)
(* pending calls are the same.                                             *)
(***************************************************************************)
THEOREM WaitersHaveServer == Spec => []WaitsForPresentServer
  <1>1. ASSUME TransportInv PROVE WaitsForPresentServer
    <2>1. Waiting = Open
      BY <1>1, WaitingIsOpen
    <2> QED BY <1>1, <2>1 DEF TransportInv, OpenAtChild, TimersOfOpen, Open, WaitsForPresentServer
  <1> QED BY <1>1, InvAlways, PTL

----------------------------------------------------------------------------
(* What the states of calls are for a caller.                              *)
LEMMA RpcStateOf ==
  ASSUME NEW k \in Calls
  PROVE  /\ RpcState[k] = IF call[k].status \in Rejections THEN "failed" ELSE call[k].status
         /\ RpcState'[k] = IF call'[k].status \in Rejections THEN "failed" ELSE call'[k].status
  BY DEF RpcState

LEMMA InitRefines == Init => Rpc!RpcInit
  BY DEF Init, Rpc!RpcInit, RpcState, UnsentCall, Rejections

LEMMA RequestRefines ==
  ASSUME TransportInv, NEW k \in Calls, Request(k)
  PROVE  Rpc!Send(k)
  <1> PICK c \in Servers : Started(c) /\ Register(k, c, nextRequestId)
    BY DEF Request
  <1>1. /\ call[k].status = "unsent" /\ call'[k].status = "open"
        /\ \A l \in Calls : l # k => call'[l] = call[l]
        /\ replied' = replied
    BY DEF Register, TransportInv, TransportTypeOK
  <1>2. RpcState[k] = "unsent"
    BY <1>1, RpcStateOf DEF Rejections
  <1>3. RpcState' = [RpcState EXCEPT ![k] = "open"]
    BY <1>1 DEF RpcState, Rejections
  <1> QED BY <1>1, <1>2, <1>3 DEF Rpc!Send

LEMMA RejectAllRefines ==
  ASSUME TransportInv, NEW reason \in Rejections, RejectAll(reason), UNCHANGED replied
  PROVE  \E ks \in SUBSET Calls : Rpc!Fail(ks)
  <1>1. Waiting = Open
    BY WaitingIsOpen
  <1>2. \A k \in Calls : call[k] \in Call
    BY DEF TransportInv, TransportTypeOK
  <1>3. \A k \in Calls : call'[k].status = IF k \in Open THEN reason ELSE call[k].status
    BY <1>1, <1>2 DEF RejectAll, Call
  <1>4. \A k \in Open : RpcState[k] = "open"
    BY RpcStateOf DEF Open, Rejections
  <1>5. RpcState' = [k \in Calls |-> IF k \in Open THEN "failed" ELSE RpcState[k]]
    BY <1>3 DEF RpcState
  <1>6. Open \in SUBSET Calls
    BY DEF Open
  <1>7. Rpc!Fail(Open)
    BY <1>4, <1>5 DEF Rpc!Fail
  <1> QED BY <1>6, <1>7

LEMMA HandleLineRefines ==
  ASSUME TransportInv, NEW c \in Servers, HandleLine(c)
  PROVE  (\E k \in Calls : Rpc!Answer(k)) \/ UNCHANGED <<RpcState, replied>>
  <1> PICK m \in lines[c] :
         LET k == pending[m.id] IN
         IF k = NoCall
         THEN UNCHANGED <<pending, armed, call>>
         ELSE call' = [call EXCEPT ![k].status = "answered", ![k].answer = m.about]
    BY DEF HandleLine
  <1>1. replied' = replied
    BY DEF HandleLine
  <1>2. CASE pending[m.id] = NoCall
    BY <1>1, <1>2 DEF RpcState
  <1>3. CASE pending[m.id] # NoCall
    <2> DEFINE k == pending[m.id]
    <2>1. m.id \in Ids /\ m.about \in Sent /\ m.about \in replied /\ m.id = call[m.about].id
      BY DEF TransportInv, TransportTypeOK, MessagesMatch, Message
    <2>2. k \in Open /\ call[k].id = m.id /\ k \in Sent /\ k \in Calls
      BY <1>3, <2>1 DEF TransportInv, PendingIsOpen, Open, Sent
    <2>3. m.about = k
      BY <2>1, <2>2 DEF TransportInv, IdsDistinct
    <2>4. call[k] \in Call
      BY <2>2 DEF TransportInv, TransportTypeOK
    <2>5. /\ call'[k].status = "answered"
          /\ \A l \in Calls : l # k => call'[l] = call[l]
      BY <1>3, <2>2, <2>4 DEF TransportInv, TransportTypeOK, Call
    <2> HIDE DEF k
    <2>6. RpcState[k] = "open"
      BY <2>2, RpcStateOf DEF Open, Rejections
    <2>7. RpcState' = [RpcState EXCEPT ![k] = "answered"]
      BY <2>2, <2>5 DEF RpcState, Rejections
    <2> QED BY <1>1, <2>1, <2>2, <2>3, <2>6, <2>7 DEF Rpc!Answer
  <1> QED BY <1>2, <1>3

LEMMA TimeoutRefines ==
  ASSUME TransportInv, NEW k \in Calls, Timeout(k)
  PROVE  \E ks \in SUBSET Calls : Rpc!Fail(ks)
  <1>1. k \in Open /\ call[k] \in Call
    BY DEF Timeout, TransportInv, TransportTypeOK, TimersOfOpen
  <1>2. /\ call'[k].status = "timedOut"
        /\ \A l \in Calls : l # k => call'[l] = call[l]
        /\ replied' = replied
    BY <1>1 DEF Timeout, TransportInv, TransportTypeOK, Call
  <1>3. RpcState[k] = "open"
    BY <1>1, RpcStateOf DEF Open, Rejections
  <1>4. RpcState' = [l \in Calls |-> IF l \in {k} THEN "failed" ELSE RpcState[l]]
    BY <1>2 DEF RpcState, Rejections
  <1>5. Rpc!Fail({k})
    BY <1>2, <1>3, <1>4 DEF Rpc!Fail
  <1> QED BY <1>5

LEMMA ServerAnswersRefines ==
  ASSUME TransportInv, NEW c \in Servers, ServerAnswers(c)
  PROVE  \E k \in Calls : Rpc!Reply(k)
  <1> PICK m \in inbox[c] : replied' = replied \cup {m.about}
    BY DEF ServerAnswers
  <1>1. m.about \in Sent /\ m.about \in Calls
    BY DEF TransportInv, MessagesMatch, Sent
  <1>2. call' = call
    BY DEF ServerAnswers
  <1>3. RpcState' = RpcState
    BY <1>2 DEF RpcState
  <1>4. RpcState[m.about] # "unsent"
    BY <1>1, RpcStateOf DEF Sent
  <1> QED BY <1>1, <1>3, <1>4 DEF Rpc!Reply

(***************************************************************************)
(* Every step of the transport is a step of RpcCalls or leaves the callers *)
(* alone.                                                                  *)
(***************************************************************************)
LEMMA NextRefines ==
  ASSUME TransportInv, [Next]_vars
  PROVE  [Rpc!RpcNext]_(Rpc!rpcVars)
  <1>1. ASSUME UNCHANGED <<call, replied>> PROVE UNCHANGED Rpc!rpcVars
    BY <1>1 DEF Rpc!rpcVars, RpcState
  <1>2. ASSUME NEW k \in Calls, Request(k) PROVE Rpc!RpcNext
    BY <1>2, RequestRefines DEF Rpc!RpcNext
  <1>3. ASSUME NEW k \in Calls, Timeout(k) PROVE Rpc!RpcNext
    BY <1>3, TimeoutRefines DEF Rpc!RpcNext
  <1>4. ASSUME Close PROVE Rpc!RpcNext
    BY <1>4, RejectAllRefines DEF Close, Rejections, Rpc!RpcNext
  <1>5. ASSUME NEW c \in Servers, ChildExit(c) PROVE Rpc!RpcNext
    BY <1>5, RejectAllRefines DEF ChildExit, Rejections, Rpc!RpcNext
  <1>6. ASSUME NEW c \in Servers, HandleLine(c) PROVE Rpc!RpcNext \/ UNCHANGED Rpc!rpcVars
    BY <1>6, HandleLineRefines DEF Rpc!RpcNext, Rpc!rpcVars
  <1>7. ASSUME NEW c \in Servers, ServerAnswers(c) PROVE Rpc!RpcNext
    BY <1>7, ServerAnswersRefines DEF Rpc!RpcNext
  <1>8. CASE Notify
    BY <1>1, <1>8 DEF Notify
  <1>9. ASSUME NEW c \in Servers, ReadingStops(c) \/ ServerExits(c) PROVE UNCHANGED Rpc!rpcVars
    BY <1>1, <1>9 DEF ReadingStops, ServerExits
  <1>10. CASE UNCHANGED vars
    BY <1>1, <1>10 DEF vars
  <1> QED
    BY <1>2, <1>3, <1>4, <1>5, <1>6, <1>7, <1>8, <1>9, <1>10 DEF Next

(***************************************************************************)
(* The transport implements the safety part of RpcCalls: a call ends at    *)
(* most once, and is answered only if a server answered it.                *)
(***************************************************************************)
THEOREM TransportImplementsRpcCalls == Spec => Rpc!RpcSafeSpec
  <1>1. Init => Rpc!RpcInit
    BY InitRefines
  <1>2. TransportInv /\ [Next]_vars => [Rpc!RpcNext]_(Rpc!rpcVars)
    BY NextRefines
  <1> QED BY <1>1, <1>2, InvAlways, PTL DEF Spec, Rpc!RpcSafeSpec

=============================================================================
