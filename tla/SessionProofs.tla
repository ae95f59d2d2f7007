---------------------------- MODULE SessionProofs ----------------------------
(***************************************************************************)
(* Proofs about waiting for logins, for any set of them, and about the     *)
(* session of a toybox, for any calls and any number of app-servers.       *)
(***************************************************************************)
EXTENDS AuthLogin, ToyboxSession, TLAPS

LoginShape ==
  /\ login \in [Logins -> {"none", "started", "succeeded", "failed"}]
  /\ heard \in [Logins -> SUBSET Completions]
  /\ wait \in [Logins -> {"none", "waiting", "refreshing", "settled"}]
  /\ outcome \in [Logins -> {"none", "state", "unread", "failed", "timedOut"}]
  /\ unnamed \in [Logins -> BOOLEAN]

(* A login has ended so, l itself or one whose completion did not name it. *)
Ended(l, how) == login[l] = how \/ \E m \in Logins : login[m] = how /\ unnamed[m]
How(success) == IF success THEN "succeeded" ELSE "failed"

(* What is heard has happened; and a wait that has taken note of a success *)
(* or is settled by a completion had one that is its own, or unnamed.      *)
LoginInv ==
  /\ LoginShape
  /\ \A l \in Logins : \A completion \in heard[l] :
       completion.id = AnyLogin
         => \E m \in Logins : login[m] = How(completion.success) /\ unnamed[m]
  /\ \A l \in Logins : \A completion \in heard[l] :
       completion.id \in Logins => login[completion.id] = How(completion.success)
  /\ \A l \in Logins :
       /\ wait[l] = "refreshing" => Ended(l, "succeeded")
       /\ outcome[l] \in {"state", "unread"} => Ended(l, "succeeded")
       /\ outcome[l] = "failed" => Ended(l, "failed")
       /\ wait[l] # "settled" => outcome[l] = "none"

----------------------------------------------------------------------------
(* What has ended stays so, however a login is completed.                  *)
LEMMA EndedStays ==
  ASSUME LoginShape, NEW l \in Logins, NEW completion \in Completions, loginCompleted(l, completion),
         NEW how \in {"succeeded", "failed"}
  PROVE  /\ \A m \in Logins : login[m] = how => m # l /\ login'[m] = how /\ unnamed'[m] = unnamed[m]
         /\ \A m \in Logins : Ended(m, how) => Ended(m, how)'
PROOF
  <1>1. \A m \in Logins : login[m] = how => m # l /\ login'[m] = how /\ unnamed'[m] = unnamed[m]
    BY DEF loginCompleted, LoginShape
  <1> QED BY <1>1 DEF Ended

LEMMA CompletedKeepsInv ==
  ASSUME LoginInv, NEW l \in Logins, NEW completion \in Completions, loginCompleted(l, completion)
  PROVE  LoginInv'
PROOF
  <1>1. /\ login' = [login EXCEPT ![l] = How(completion.success)]
        /\ unnamed' = [unnamed EXCEPT ![l] = completion.id = AnyLogin]
        /\ UNCHANGED <<wait, outcome>>
        /\ heard' = [m \in Logins |->
             IF wait[m] = "waiting" THEN heard[m] \cup {completion} ELSE heard[m]]
        /\ completion.id \in {l, AnyLogin}
    BY DEF loginCompleted, How
  <1>2. LoginShape'
    <2>1. How(completion.success) \in {"succeeded", "failed"}
      BY DEF How
    <2>2. (completion.id = AnyLogin) \in BOOLEAN
      OBVIOUS
    <2> QED BY <1>1, <2>1, <2>2 DEF LoginInv, LoginShape
  <1>3. login'[l] = How(completion.success) /\ unnamed'[l] = (completion.id = AnyLogin)
    BY <1>1 DEF LoginInv, LoginShape
  <1>4. \A how \in {"succeeded", "failed"} : \A m \in Logins : login[m] = how
          => login'[m] = how /\ unnamed'[m] = unnamed[m]
    BY EndedStays DEF LoginInv
  <1>5. \A how \in {"succeeded", "failed"} : \A m \in Logins : Ended(m, how) => Ended(m, how)'
    BY EndedStays DEF LoginInv
  <1>6. \A success : How(success) \in {"succeeded", "failed"}
    BY DEF How
  <1>7. \A m \in Logins : \A c : c \in heard'[m] => c \in heard[m] \/ c = completion
    BY <1>1
  <1>8. ASSUME NEW m \in Logins, NEW c \in heard'[m], c.id = AnyLogin
        PROVE  \E n \in Logins : login'[n] = How(c.success) /\ unnamed'[n]
    <2>1. CASE c = completion
      BY <2>1, <1>3, <1>8
    <2>2. CASE c \in heard[m]
      BY <2>2, <1>4, <1>6, <1>8 DEF LoginInv
    <2> QED BY <2>1, <2>2, <1>7
  <1>9. ASSUME NEW m \in Logins, NEW c \in heard'[m], c.id \in Logins
        PROVE  login'[c.id] = How(c.success)
    <2>1. CASE c = completion
      BY <2>1, <1>1, <1>3, <1>9, LoginConstants
    <2>2. CASE c \in heard[m]
      BY <2>2, <1>4, <1>6, <1>9 DEF LoginInv
    <2> QED BY <2>1, <2>2, <1>7
  <1>10. \A m \in Logins :
       /\ wait'[m] = "refreshing" => Ended(m, "succeeded")'
       /\ outcome'[m] \in {"state", "unread"} => Ended(m, "succeeded")'
       /\ outcome'[m] = "failed" => Ended(m, "failed")'
       /\ wait'[m] # "settled" => outcome'[m] = "none"
    BY <1>1, <1>5 DEF LoginInv
  <1> QED BY <1>2, <1>8, <1>9, <1>10 DEF LoginInv, How

LEMMA EventKeepsInv ==
  ASSUME LoginInv, NEW l \in Logins, NEW completion \in Completions, loginEvent(l, completion)
  PROVE  LoginInv'
PROOF
  <1>1. /\ completion \in heard[l] /\ UNCHANGED <<login, unnamed>>
        /\ heard' = [heard EXCEPT ![l] = @ \ {completion}]
    BY DEF loginEvent
  <1>2. \A m \in Logins : heard'[m] \subseteq heard[m]
    BY <1>1 DEF LoginInv, LoginShape
  <1>3. heard' \in [Logins -> SUBSET Completions]
    BY <1>1 DEF LoginInv, LoginShape
  <1>4. \A m \in Logins, how \in {"succeeded", "failed"} : Ended(m, how)' = Ended(m, how)
    BY <1>1 DEF Ended
  <1>5. IsFor(completion, l) => Ended(l, How(completion.success))
    BY <1>1 DEF IsFor, Ended, LoginInv
  <1>6. CASE wait[l] = "waiting" /\ IsFor(completion, l) /\ completion.success
    <2>1. wait' = [wait EXCEPT ![l] = "refreshing"] /\ UNCHANGED outcome
      BY <1>6 DEF loginEvent
    <2>2. Ended(l, "succeeded")
      BY <1>5, <1>6 DEF How
    <2> QED BY <1>1, <1>2, <1>3, <1>4, <1>6, <2>1, <2>2 DEF LoginInv, LoginShape
  <1>7. CASE wait[l] = "waiting" /\ IsFor(completion, l) /\ ~completion.success
    <2>1. /\ wait' = [wait EXCEPT ![l] = "settled"]
          /\ outcome' = [outcome EXCEPT ![l] = "failed"]
      BY <1>7 DEF loginEvent
    <2>2. Ended(l, "failed")
      BY <1>5, <1>7 DEF How
    <2> QED BY <1>1, <1>2, <1>3, <1>4, <2>1, <2>2 DEF LoginInv, LoginShape
  <1>8. CASE ~(wait[l] = "waiting" /\ IsFor(completion, l))
    <2>1. UNCHANGED <<wait, outcome>>
      BY <1>8 DEF loginEvent
    <2> QED BY <1>1, <1>2, <1>3, <1>4, <2>1 DEF LoginInv, LoginShape
  <1> QED BY <1>6, <1>7, <1>8

LEMMA OtherStepKeepsInv ==
  ASSUME LoginInv, NEW l \in Logins,
         startLogin(l) \/ waitForLogin(l) \/ stateRefreshed(l) \/ loginTimeout(l)
  PROVE  LoginInv'
PROOF
  <1>1. CASE startLogin(l)
    <2>1. /\ login[l] = "none" /\ login' = [login EXCEPT ![l] = "started"]
          /\ UNCHANGED <<heard, wait, outcome, unnamed>>
      BY <1>1 DEF startLogin
    <2>2. \A m \in Logins : login[m] \in {"succeeded", "failed"} => login'[m] = login[m]
      BY <2>1 DEF LoginInv, LoginShape
    <2>3. \A m \in Logins, how \in {"succeeded", "failed"} : Ended(m, how) => Ended(m, how)'
      BY <2>1, <2>2 DEF Ended
    <2>4. LoginShape'
      BY <2>1 DEF LoginInv, LoginShape
    <2>5. \A success : How(success) \in {"succeeded", "failed"}
      BY DEF How
    <2> QED BY <2>1, <2>2, <2>3, <2>4, <2>5 DEF LoginInv, How
  <1>2. ASSUME UNCHANGED <<login, unnamed, heard>>
        PROVE  \A m \in Logins, how \in {"succeeded", "failed"} : Ended(m, how)' = Ended(m, how)
    BY <1>2 DEF Ended
  <1>3. CASE waitForLogin(l)
    BY <1>2, <1>3 DEF waitForLogin, LoginInv, LoginShape
  <1>4. CASE stateRefreshed(l)
    <2>1. /\ wait[l] = "refreshing" /\ wait' = [wait EXCEPT ![l] = "settled"]
          /\ UNCHANGED <<login, unnamed, heard>>
      BY <1>4 DEF stateRefreshed
    <2>2. PICK how \in {"state", "unread"} : outcome' = [outcome EXCEPT ![l] = how]
      BY <1>4 DEF stateRefreshed
    <2> QED BY <1>2, <2>1, <2>2 DEF LoginInv, LoginShape
  <1>5. CASE loginTimeout(l)
    BY <1>2, <1>5 DEF loginTimeout, LoginInv, LoginShape
  <1> QED BY <1>1, <1>3, <1>4, <1>5

LEMMA LoginInvariance == LoginSpec => []LoginInv
PROOF
  <1>1. LoginInit => LoginInv
    BY DEF LoginInit, LoginInv, LoginShape
  <1>2. LoginInv /\ [LoginNext]_loginVars => LoginInv'
    <2> SUFFICES ASSUME LoginInv, [LoginNext]_loginVars PROVE LoginInv'
      OBVIOUS
    <2>1. ASSUME NEW l \in Logins,
                 startLogin(l) \/ waitForLogin(l) \/ stateRefreshed(l) \/ loginTimeout(l)
          PROVE  LoginInv'
      BY <2>1, OtherStepKeepsInv
    <2>2. ASSUME NEW l \in Logins, NEW completion \in Completions,
                 loginCompleted(l, completion) \/ loginEvent(l, completion)
          PROVE  LoginInv'
      BY <2>2, CompletedKeepsInv, EventKeepsInv
    <2>3. CASE UNCHANGED loginVars
      BY <2>3 DEF loginVars, LoginInv, LoginShape, Ended
    <2> QED BY <2>1, <2>2, <2>3 DEF LoginNext
  <1> QED BY <1>1, <1>2, PTL DEF LoginSpec

(* A wait ends with the completion of its own login, or an unnamed one.    *)
THEOREM WaitsForItsLogin == LoginSpec => []WaitIsForItsLogin
PROOF
  <1>1. LoginInv => WaitIsForItsLogin
    BY DEF LoginInv, Ended, WaitIsForItsLogin
  <1> QED BY <1>1, LoginInvariance, PTL

(* The timer does not overtake a success that the wait has noted.          *)
THEOREM SuccessStands == LoginSpec => SuccessIsNotLate
PROOF
  <1>1. LoginInv /\ [LoginNext]_loginVars
          => [\A l \in Logins : wait[l] = "refreshing" => outcome'[l] # "timedOut"]_loginVars
    <2> SUFFICES ASSUME LoginInv, LoginNext, NEW l \in Logins, wait[l] = "refreshing"
                 PROVE  outcome'[l] # "timedOut"
      OBVIOUS
    <2>1. outcome[l] = "none" /\ outcome \in [Logins -> {"none", "state", "unread", "failed", "timedOut"}]
      BY DEF LoginInv, LoginShape
    <2>2. ASSUME NEW m \in Logins,
                 startLogin(m) \/ waitForLogin(m) \/ stateRefreshed(m) \/ loginTimeout(m)
          PROVE  outcome'[l] # "timedOut"
      BY <2>1, <2>2 DEF startLogin, waitForLogin, stateRefreshed, loginTimeout
    <2>3. ASSUME NEW m \in Logins, NEW completion \in Completions,
                 loginCompleted(m, completion) \/ loginEvent(m, completion)
          PROVE  outcome'[l] # "timedOut"
      BY <2>1, <2>3 DEF loginCompleted, loginEvent
    <2> QED BY <2>2, <2>3 DEF LoginNext
  <1> QED BY <1>1, LoginInvariance, PTL DEF LoginSpec, SuccessIsNotLate

----------------------------------------------------------------------------
AnyLine == [kind : {"initialize", "call", "respond"}, of : Asks \cup {CHOOSE a \in Asks : TRUE}]

ToyboxShape ==
  /\ input \in Seq(AnyLine)
  /\ app \in [process : Nat \ {0}, up : BOOLEAN, initialized : BOOLEAN]
  /\ sentTo \in [Asks -> Nat]

(* While the toybox connects nothing is sent; from then on the first       *)
(* app-server is initialized; and calls are lines of a client that knows   *)
(* the toybox to be ready.                                                 *)
ToyboxInv ==
  /\ ToyboxShape
  /\ toybox = "connecting" => \A a \in Asks : sentTo[a] = 0
  /\ toybox = "serving" /\ app.process = 1 => app.initialized
  /\ peer # "ready" => \A k \in 1..Len(input) : input[k].kind # "call"
  /\ ServedAfterInitialize

(* What is left when the first line is taken.                              *)
LEMMA TakenLine ==
  ASSUME ToyboxShape, NEW kind, Take(kind)
  PROVE  /\ toybox = "serving" /\ input # <<>> /\ input[1].kind = kind
         /\ input' \in Seq(AnyLine)
         /\ \A k \in 1..Len(input') : k + 1 \in 1..Len(input) /\ input'[k] = input[k + 1]
BY DEF Take, ToyboxShape

LEMMA AddedLine ==
  ASSUME ToyboxShape, NEW line \in AnyLine, input' = Append(input, line)
  PROVE  /\ input' \in Seq(AnyLine)
         /\ \A k \in 1..Len(input') : (k \in 1..Len(input) /\ input'[k] = input[k]) \/ input'[k] = line
BY DEF ToyboxShape

LEMMA RunningIsNext ==
  ASSUME ToyboxShape
  PROVE  /\ Running \in [process : Nat \ {0}, up : BOOLEAN, initialized : BOOLEAN]
         /\ Running.process = 1 => Running = app
BY DEF Running, ToyboxShape

LEMMA ClientKeepsInv ==
  ASSUME ToyboxInv,
         \/ initialize \/ initializeFails
         \/ \E a \in Asks : request(a) \/ requestTimesOut(a) \/ respond(a)
  PROVE  ToyboxInv'
PROOF
  <1> USE DEF ToyboxInv
  <1>1. CASE initialize
    <2>1. InitializeLine \in AnyLine /\ InitializeLine.kind = "initialize"
      BY DEF InitializeLine, AnyLine
    <2>2. peer = "new" /\ input' = Append(input, InitializeLine) /\ UNCHANGED <<toybox, app, sentTo>>
      BY <1>1 DEF initialize
    <2> QED BY <2>1, <2>2, AddedLine DEF ToyboxShape, ServedAfterInitialize
  <1>2. CASE initializeFails
    BY <1>2 DEF initializeFails, ToyboxShape, ServedAfterInitialize
  <1>3. ASSUME NEW a \in Asks, request(a) PROVE ToyboxInv'
    <2>1. CASE peer = "ready"
      <3>1. [kind |-> "call", of |-> a] \in AnyLine
        BY DEF AnyLine
      <3>2. input' = Append(input, [kind |-> "call", of |-> a]) /\ UNCHANGED <<peer, toybox, app, sentTo>>
        BY <1>3, <2>1 DEF request
      <3> QED BY <2>1, <3>1, <3>2, AddedLine DEF ToyboxShape, ServedAfterInitialize
    <2>2. CASE peer # "ready"
      BY <1>3, <2>2 DEF request, ToyboxShape, ServedAfterInitialize
    <2> QED BY <2>1, <2>2
  <1>4. ASSUME NEW a \in Asks, requestTimesOut(a) PROVE ToyboxInv'
    BY <1>4 DEF requestTimesOut, ToyboxShape, ServedAfterInitialize
  <1>5. ASSUME NEW a \in Asks, respond(a) PROVE ToyboxInv'
    <2> DEFINE line == [kind |-> "respond", of |-> a]
    <2>1. line \in AnyLine /\ line.kind = "respond"
      BY DEF AnyLine
    <2>2. input' = Append(input, line) /\ UNCHANGED <<peer, toybox, app, sentTo>>
      BY <1>5 DEF respond
    <2> HIDE DEF line
    <2> QED BY <2>1, <2>2, AddedLine DEF ToyboxShape, ServedAfterInitialize
  <1> QED BY <1>1, <1>2, <1>3, <1>4, <1>5

LEMMA LineKeepsInv ==
  ASSUME ToyboxInv, answerInitialize \/ forwardCall \/ forwardResponse
  PROVE  ToyboxInv'
PROOF
  <1> USE DEF ToyboxInv
  <1>1. CASE answerInitialize
    <2>1. Take("initialize") /\ UNCHANGED <<toybox, app, sentTo>>
          /\ (peer = "ready" => peer' = "ready")
      BY <1>1 DEF answerInitialize
    <2> QED BY <2>1, TakenLine, SMTT(20) DEF ToyboxShape, ServedAfterInitialize
  <1>2. CASE forwardCall
    <2>1. /\ Take("call") /\ app' = Running /\ UNCHANGED <<peer, toybox>>
          /\ sentTo' = [sentTo EXCEPT ![Head(input).of] = Running.process]
      BY <1>2 DEF forwardCall
    <2>2. peer = "ready"
      <3>1. input # <<>> /\ input[1].kind = "call" /\ input \in Seq(AnyLine)
        BY <2>1, TakenLine DEF ToyboxShape
      <3>2. 1 \in 1..Len(input)
        BY <3>1
      <3> QED BY <3>1, <3>2
    <2>3. Running.process \in Nat /\ ToyboxShape'
      BY <2>1, TakenLine, RunningIsNext DEF ToyboxShape
    <2> QED BY <2>1, <2>2, <2>3, TakenLine, RunningIsNext DEF ServedAfterInitialize
  <1>3. CASE forwardResponse
    <2>1. Take("respond") /\ app' = Running /\ UNCHANGED <<peer, toybox, sentTo>>
      BY <1>3 DEF forwardResponse
    <2>2. ToyboxShape'
      BY <2>1, TakenLine, RunningIsNext DEF ToyboxShape
    <2> QED BY <2>1, <2>2, TakenLine, RunningIsNext DEF ServedAfterInitialize
  <1> QED BY <1>1, <1>2, <1>3

LEMMA AppServerKeepsInv ==
  ASSUME ToyboxInv,
         \/ connect \/ connectFails \/ inputEnds \/ AppExits
         \/ \E a \in Asks : callTimesOut(a) \/ AppAsks(a) \/ AppAnswers(a) \/ AppRefuses(a)
  PROVE  ToyboxInv'
PROOF
  <1> USE DEF ToyboxInv
  <1>1. CASE connect
    BY <1>1 DEF connect, ToyboxShape, ServedAfterInitialize
  <1>2. CASE connectFails
    BY <1>2 DEF connectFails, ToyboxShape, ServedAfterInitialize
  <1>3. CASE inputEnds
    BY <1>3 DEF inputEnds, ToyboxShape, ServedAfterInitialize
  <1>4. CASE AppExits
    <2>1. app' = [app EXCEPT !.up = FALSE] /\ UNCHANGED <<peer, input, toybox, sentTo>>
      BY <1>4 DEF AppExits, Answer
    <2> QED BY <2>1 DEF ToyboxShape, ServedAfterInitialize
  <1>5. ASSUME NEW a \in Asks, callTimesOut(a) \/ AppAsks(a) \/ AppAnswers(a) \/ AppRefuses(a)
        PROVE  ToyboxInv'
    <2>1. UNCHANGED <<peer, input, toybox, app, sentTo>>
      BY <1>5 DEF callTimesOut, AppAsks, AppAnswers, AppRefuses, Answer
    <2> QED BY <2>1 DEF ToyboxShape, ServedAfterInitialize
  <1> QED BY <1>1, <1>2, <1>3, <1>4, <1>5

(* Nothing is sent before the toybox has initialized its app-server, nor   *)
(* before the client knows that the toybox is ready.                       *)
THEOREM SessionsInitialize == ToyboxSpec => []ServedAfterInitialize
PROOF
  <1>1. ToyboxInit => ToyboxInv
    BY DEF ToyboxInit, ToyboxInv, ToyboxShape, ServedAfterInitialize
  <1>2. ToyboxInv /\ [ToyboxNext]_toyboxVars => ToyboxInv'
    <2> SUFFICES ASSUME ToyboxInv, [ToyboxNext]_toyboxVars PROVE ToyboxInv'
      OBVIOUS
    <2>1. CASE UNCHANGED toyboxVars
      BY <2>1 DEF toyboxVars, ToyboxInv, ToyboxShape, ServedAfterInitialize
    <2>2. CASE ToyboxNext
      BY <2>2, ClientKeepsInv, LineKeepsInv, AppServerKeepsInv DEF ToyboxNext, ToyboxServes
    <2> QED BY <2>1, <2>2
  <1>3. ToyboxInv => ServedAfterInitialize
    BY DEF ToyboxInv
  <1> QED BY <1>1, <1>2, <1>3, PTL DEF ToyboxSpec
=============================================================================
