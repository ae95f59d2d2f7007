------------------------------ MODULE MCSessions ------------------------------
(* Components that talk to an app-server or run until something ends, each   *)
(* on its own, checked side by side as in MCWorkbench; with fairness.        *)
EXTENDS WorkflowRun, ToyboxSession, AuthLogin, StdioTransport

VARIABLE part

transportVars == vars
parts == <<workflowVars, toyboxVars, loginVars, transportVars, part>>

CONSTANTS t1, a1, a2, k1, k2

WorkflowPart ==
  part = "workflow" /\ UNCHANGED <<toyboxVars, loginVars, transportVars, part>>
ToyboxPart ==
  part = "toybox" /\ UNCHANGED <<workflowVars, loginVars, transportVars, part>>
LoginPart ==
  part = "login" /\ UNCHANGED <<workflowVars, toyboxVars, transportVars, part>>
TransportPart ==
  part = "transport" /\ UNCHANGED <<workflowVars, toyboxVars, loginVars, part>>

PartsInit ==
  /\ WorkflowInit /\ ToyboxInit /\ LoginInit /\ Init
  /\ part \in {"workflow", "toybox", "login", "transport"}

PartsNext ==
  \/ WorkflowPart /\ WorkflowNext
  \/ ToyboxPart /\ ToyboxNext
  \/ LoginPart /\ LoginNext
  \/ TransportPart /\ Next

(* The fairness of every part.  As the parts exclude each other, weak        *)
(* fairness of a disjunction with steps of several parts is that of each.    *)
PartsFairness ==
  /\ WF_parts(\/ WorkflowPart /\ timeOut
              \/ ToyboxPart /\ ToyboxServes
              \/ LoginPart /\ stateRefreshed(a1)
              \/ TransportPart /\ Timeout(k1))
  /\ WF_parts(\/ WorkflowPart /\ \E clean \in BOOLEAN : childExits(clean)
              \/ LoginPart /\ stateRefreshed(a2)
              \/ TransportPart /\ Timeout(k2))
  /\ WF_parts(\/ WorkflowPart /\ (handleWaitAll \/ settleWaitAll)
              \/ LoginPart /\ loginTimeout(a1))
  /\ WF_parts(\/ WorkflowPart /\ WorkflowTick
              \/ LoginPart /\ loginTimeout(a2))
  /\ WF_parts(WorkflowPart /\ HostStarts(t1))
  /\ WF_parts(WorkflowPart /\ HostWaits(t1))

PartsSpec == PartsInit /\ [][PartsNext]_parts /\ PartsFairness
=============================================================================
