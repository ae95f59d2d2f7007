------------------------------- MODULE RpcCalls -------------------------------
(***************************************************************************)
(* What a caller of CodexStdioTransport.request is promised: each call     *)
(* ends exactly once, with the answer a server gave to this very call, or  *)
(* without one.                                                            *)
(***************************************************************************)
CONSTANT Calls

VARIABLES
  state,    \* of each call
  replied   \* the calls some server has answered, delivered or not

States == {"unsent", "open", "answered", "failed"}

RpcInit ==
  /\ state = [k \in Calls |-> "unsent"]
  /\ replied = {}

Send(k) ==
  /\ state[k] = "unsent"
  /\ state' = [state EXCEPT ![k] = "open"]
  /\ UNCHANGED replied

(* A server that still works on a call may answer after the caller gave    *)
(* up.                                                                     *)
Reply(k) ==
  /\ state[k] # "unsent"
  /\ replied' = replied \cup {k}
  /\ UNCHANGED state

Answer(k) ==
  /\ state[k] = "open" /\ k \in replied
  /\ state' = [state EXCEPT ![k] = "answered"]
  /\ UNCHANGED replied

(* Calls fail one by one, or all together.                                 *)
Fail(ks) ==
  /\ \A k \in ks : state[k] = "open"
  /\ state' = [k \in Calls |-> IF k \in ks THEN "failed" ELSE state[k]]
  /\ UNCHANGED replied

RpcNext ==
  \/ \E k \in Calls : Send(k) \/ Reply(k) \/ Answer(k)
  \/ \E ks \in SUBSET Calls : Fail(ks)

rpcVars == <<state, replied>>

RpcSafeSpec == RpcInit /\ [][RpcNext]_rpcVars

(* No call stays open.                                                     *)
RpcSpec == RpcSafeSpec /\ \A k \in Calls : WF_rpcVars(Answer(k) \/ Fail({k}))

=============================================================================
