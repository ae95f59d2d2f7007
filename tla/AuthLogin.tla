------------------------------ MODULE AuthLogin ------------------------------
(***************************************************************************)
(* CodexAuthClient: waits for logins that a user completes, fails or lets  *)
(* lie.  A completion is announced with the id of its login or without,    *)
(* and every waiter reads the account before it looks at it.               *)
(***************************************************************************)
EXTENDS Naturals

CONSTANTS
  Logins,      \* the logins that are started
  AnyLogin     \* the id of a completion that names none

ASSUME LoginConstants == AnyLogin \notin Logins

VARIABLES
  login,       \* the app-server: what has become of a login
  heard,       \* the completions a wait has heard of and reads the account for
  wait,        \* waitForLogin
  outcome,     \* how its promise was settled
  unnamed      \* history: whether the completion of a login named it

loginVars == <<login, heard, wait, outcome, unnamed>>

Completions == [id : Logins \cup {AnyLogin}, success : BOOLEAN]

LoginInit ==
  /\ login = [l \in Logins |-> "none"]
  /\ heard = [l \in Logins |-> {}]
  /\ wait = [l \in Logins |-> "none"] /\ outcome = [l \in Logins |-> "none"]
  /\ unnamed = [l \in Logins |-> FALSE]

----------------------------------------------------------------------------
(* account/login/start                                                     *)
startLogin(l) ==
  /\ login[l] = "none" /\ login' = [login EXCEPT ![l] = "started"]
  /\ UNCHANGED <<heard, wait, outcome, unnamed>>

waitForLogin(l) ==
  /\ login[l] # "none" /\ wait[l] = "none"
  /\ wait' = [wait EXCEPT ![l] = "waiting"]
  /\ UNCHANGED <<login, heard, outcome, unnamed>>

(* account/login/completed; every onChange listener starts getState.       *)
loginCompleted(l, completion) ==
  /\ login[l] = "started" /\ completion.id \in {l, AnyLogin}
  /\ login' = [login EXCEPT ![l] = IF completion.success THEN "succeeded" ELSE "failed"]
  /\ heard' = [m \in Logins |->
       IF wait[m] = "waiting" THEN heard[m] \cup {completion} ELSE heard[m]]
  /\ unnamed' = [unnamed EXCEPT ![l] = completion.id = AnyLogin]
  /\ UNCHANGED <<wait, outcome>>

(* Mutant of IsFor: any login will do.                                     *)
IsForAny(completion, l) == completion.id \in Logins \cup {AnyLogin}

IsFor(completion, l) == completion.id \in {l, AnyLogin}

(* The account is read: the event reaches the listener of the wait, unless *)
(* it has been settled.  A success is settled by reading it once more.     *)
loginEvent(l, completion) ==
  /\ completion \in heard[l]
  /\ heard' = [heard EXCEPT ![l] = @ \ {completion}]
  /\ IF wait[l] = "waiting" /\ IsFor(completion, l)
     THEN IF completion.success
          THEN wait' = [wait EXCEPT ![l] = "refreshing"] /\ UNCHANGED outcome
          ELSE /\ wait' = [wait EXCEPT ![l] = "settled"]
               /\ outcome' = [outcome EXCEPT ![l] = "failed"]
     ELSE UNCHANGED <<wait, outcome>>
  /\ UNCHANGED <<login, unnamed>>

(* getState may fail in its turn, and the wait with it.                    *)
stateRefreshed(l) ==
  /\ wait[l] = "refreshing"
  /\ wait' = [wait EXCEPT ![l] = "settled"]
  /\ \E how \in {"state", "unread"} : outcome' = [outcome EXCEPT ![l] = how]
  /\ UNCHANGED <<login, heard, unnamed>>

(* Mutant of loginTimeout: the timer is not cleared by a success.          *)
loginTimeoutUncleared(l) ==
  /\ wait[l] \in {"waiting", "refreshing"}
  /\ wait' = [wait EXCEPT ![l] = "settled"] /\ outcome' = [outcome EXCEPT ![l] = "timedOut"]
  /\ UNCHANGED <<login, heard, unnamed>>

(* Mutant of loginTimeout: it waits for the account that is being read.    *)
loginTimeoutIdle(l) ==
  /\ wait[l] = "waiting" /\ heard[l] # {}
  /\ wait' = [wait EXCEPT ![l] = "settled"] /\ outcome' = [outcome EXCEPT ![l] = "timedOut"]
  /\ UNCHANGED <<login, heard, unnamed>>

loginTimeout(l) ==
  /\ wait[l] = "waiting"
  /\ wait' = [wait EXCEPT ![l] = "settled"] /\ outcome' = [outcome EXCEPT ![l] = "timedOut"]
  /\ UNCHANGED <<login, heard, unnamed>>

LoginNext ==
  \E l \in Logins :
    \/ startLogin(l) \/ waitForLogin(l) \/ stateRefreshed(l) \/ loginTimeout(l)
    \/ \E completion \in Completions : loginCompleted(l, completion) \/ loginEvent(l, completion)

LoginSpec == LoginInit /\ [][LoginNext]_loginVars

(* The timer fires, and reading the account ends, with an error at worst.  *)
LoginFairness ==
  \A l \in Logins : WF_loginVars(stateRefreshed(l)) /\ WF_loginVars(loginTimeout(l))

----------------------------------------------------------------------------
(***************************************************************************)
(* A wait is over with the completion of its own login: with an account,   *)
(* or the failure to read it, if it succeeded, with its error if it        *)
(* failed; only a completion without an id may be that of another.         *)
(***************************************************************************)
WaitIsForItsLogin ==
  \A l \in Logins : outcome[l] \in {"state", "unread", "failed"} =>
    LET how == IF outcome[l] # "failed" THEN "succeeded" ELSE "failed"
    IN login[l] = how \/ \E m \in Logins : login[m] = how /\ unnamed[m]

(***************************************************************************)
(* A wait that has taken note of a success is not reported as timed out,   *)
(* though the account is read again before it is settled.                  *)
(***************************************************************************)
SuccessIsNotLate ==
  [][\A l \in Logins : wait[l] = "refreshing" => outcome'[l] # "timedOut"]_loginVars

(***************************************************************************)
(* Every wait comes to an end, with or without a user.                     *)
(***************************************************************************)
WaitsEnd == \A l \in Logins : wait[l] = "waiting" ~> wait[l] = "settled"

=============================================================================
