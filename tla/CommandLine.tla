------------------------------ MODULE CommandLine ------------------------------
(***************************************************************************)
(* One command of the codex-toys command line, from its arguments to its   *)
(* exit code, and the toybox it starts: a child process of this machine,   *)
(* or over ssh one of another.  What an operation does is modelled by the  *)
(* other modules; here it is where it is carried out, with which of the    *)
(* options given, and how it ends.                                         *)
(***************************************************************************)
EXTENDS CommandArgs, Integers, Sequences

CONSTANT Lines     \* the command lines: [words, extras, given, bad]

ASSUME LinesAssumption ==
  \A l \in Lines : /\ l \in [words : Seq(STRING), extras : 0..2, given : SUBSET STRING,
                              bad : SUBSET STRING]
                  /\ l.bad \cap Flags = {}

VARIABLES line,    \* the command line
          type,    \* the type of command, once the arguments are read
          plan,    \* the stages to come
          box,     \* the toybox: none, starting, ready, closed, or died
          boxBusy, \* whether the toybox is at work on the request
          done,    \* where the operation was carried out, with which options
          ending,  \* how it ended
          exit     \* the exit code, or -1

commandVars == <<line, type, plan, box, boxBusy, done, ending, exit>>

NotDone == [at |-> "nowhere", options |-> {}]
Ssh == "ssh" \in remoteFields(type, line.given)
GivenOptions == parsedOptions(type, line.given)
Waits == type \in {"turn-run", "kit-setup"} /\ "wait" \in line.given

----------------------------------------------------------------------------
(***************************************************************************)
(* The stages of each command in main.  "check" refuses --sandbox beside   *)
(* --permissions, "work" is done in this process, "open" starts a toybox   *)
(* and initializes it, "ask" has it carry out the request, "wait" looks at *)
(* a turn until it has ended, and "close" is in a finally clause.          *)
(***************************************************************************)
AskTypes == {"app-call", "functions-list", "functions-describe", "functions-call", "workbench-call",
         "workbench-app-call", "workbench-methods", "workbench-overview", "host-overview"}
RunsHere == {"prompt-run-due", "dispatch-run-due", "handoff-drain"}   \* with a toybox, unless over ssh
Either == FeedTypes \cup PromptTypes \cup HandoffTypes \cup DispatchTypes
          \cup {"workflow-list", "workflow-run"}
Probes == {"fetch", "workbench-doctor"}   \* whether a toybox can be reached is what they report

askStages == <<"open", "ask", "close">>
withStages == <<"open", "work", "close">>

(* Mutant of turnStages: a turn is checked by whoever starts it.           *)
turnStagesCheckedLate ==
  IF Waits THEN <<"open", "check", "ask", "wait", "close">> ELSE <<"open", "check", "ask", "close">>

(* startRemoteTurn                                                         *)
turnStages ==
  IF Waits THEN <<"check", "open", "ask", "wait", "close">> ELSE <<"check", "open", "ask", "close">>

checkStage(t) == IF t \in {"workflow-run", "prompt-enqueue", "handoff-enqueue"} THEN <<"check">> ELSE <<>>

mainStages(t) ==
  CASE t \in AskTypes \cup {"fetch"} -> askStages
    [] t = "turn-run" -> turnStages
    [] t = "kit-setup" -> <<"work">> \o turnStages
    [] t = "workbench-doctor" -> <<"work">> \o askStages
    [] t = "workbench-run" -> withStages
    [] t \in RunsHere /\ ~Ssh -> withStages
    [] t \in Either /\ Ssh -> checkStage(t) \o askStages
    [] OTHER -> checkStage(t) \o <<"work">>

----------------------------------------------------------------------------
(* The parameters of a request, named as its method names them.            *)
paramName(t, o) ==
  CASE o = "source" -> "sourceId"
    [] o = "item" -> "itemId"
    [] o = "status-new" -> "status"
    [] o = "no-advance" -> "advance"
    [] o = "no-poll" -> "poll"
    [] o = "older-than-days" -> "olderThanDays"
    [] o = "dry-run" -> "dryRun"
    [] o = "feed-root" -> "feedRoot"
    [] o = "workbench-root" -> "workbenchRoot"
    [] o = "include-output" -> "includeOutput"
    [] o = "run-at" -> "runAt"
    [] o = "label" -> "labels"
    [] o = "after" -> "afterIntentId"
    [] o = "after-status" -> "afterStatus"
    [] o = "thread-id" -> "threadId"
    [] o = "target-cwd" -> "cwd"
    [] o = "service-tier" -> "serviceTier"
    [] o = "approval-policy" -> "approvalPolicy"
    [] o = "target-host" -> "targetHost"
    [] o = "capability" -> IF t = "handoff-enqueue" THEN "requiredCapabilities" ELSE "capabilities"
    [] o = "requester-host" -> "requesterHost"
    [] o = "requester-thread-id" -> "requesterThreadId"
    [] o = "host-id" -> "hostId"
    [] o = "materialize" -> "action"
    [] o = "prompt-queue" -> "promptQueue"
    [] o = "script" -> "scriptPath"
    [] o = "script-stdin" -> "script"
    [] o = "event" -> "eventPath"
    [] o \in ParamsOptions -> "params"
    [] OTHER -> o

(* The parameters that the methods of the toybox read.                     *)
feedMethods(t) ==
  {"mode", "feedRoot"} \cup
  CASE t = "feed-poll" -> {"sourceId"}
    [] t = "feed-item-append" -> {"sourceId", "params"}
    [] t = "feed-item-list" -> {"sourceId", "status", "limit"}
    [] t = "feed-collect" -> {"cursor", "sourceId", "status", "limit", "advance"}
    [] t = "feed-cursor-advance" -> {"cursor", "itemId"}
    [] t = "feed-dispatch" -> {"sourceId", "cursor", "limit", "poll", "target"}
    [] t = "feed-prune" -> {"olderThanDays", "dryRun"}
    [] OTHER -> {}

enqueueParams ==
  {"prompt", "title", "queue", "labels", "runAt", "afterIntentId", "afterStatus", "threadId", "cwd",
   "model", "serviceTier", "effort", "sandbox", "approvalPolicy", "permissions"}

dispatchMethods(t) ==
  {"mode", "workbenchRoot"} \cup
  CASE t = "dispatch-create" -> {"params"}
    [] t = "dispatch-read" -> {"includeOutput"}
    [] t = "dispatch-collect" -> {"cursor"}
    [] t = "dispatch-retry" -> {"runAt"}
    [] t = "dispatch-prune" -> {"olderThanDays", "dryRun"}
    [] OTHER -> {}

(* Mutant of promptMethods: due prompts are run whatever their queue.      *)
promptMethodsOfAnyQueue(t) ==
  {"mode", "workbenchRoot"} \cup
  CASE t = "prompt-enqueue" -> enqueueParams
    [] t = "prompt-list" -> {"status", "queue", "limit"}
    [] t = "prompt-read" -> {"includeOutput"}
    [] t = "prompt-collect" -> {"cursor", "queue"}
    [] t = "prompt-retry" -> {"runAt"}
    [] t = "prompt-run-due" -> {"limit"}
    [] OTHER -> {}

promptMethods(t) ==
  {"mode", "workbenchRoot"} \cup
  CASE t = "prompt-enqueue" -> enqueueParams
    [] t = "prompt-list" -> {"status", "queue", "limit"}
    [] t = "prompt-read" -> {"includeOutput"}
    [] t = "prompt-collect" -> {"cursor", "queue"}
    [] t = "prompt-retry" -> {"runAt"}
    [] t = "prompt-run-due" -> {"limit", "queue"}
    [] OTHER -> {}

handoffMethods(t) ==
  {"mode", "workbenchRoot"} \cup
  CASE t = "handoff-enqueue" -> enqueueParams \cup {"targetHost", "requiredCapabilities", "requesterHost",
                                                    "requesterThreadId"}
    [] t = "handoff-list" -> {"status", "queue", "targetHost", "capabilities", "limit"}
    [] t = "handoff-read" -> {"includeOutput"}
    [] t = "handoff-collect" -> {"cursor", "queue", "targetHost", "capabilities"}
    [] t = "handoff-retry" -> {"runAt"}
    [] t = "handoff-drain" -> {"queue", "hostId", "capabilities", "limit", "action", "promptQueue"}
    [] OTHER -> {}

workflowMethods(t) ==
  IF t = "workflow-list" THEN {"workbenchRoot"}
  ELSE {"scriptPath", "script", "eventPath", "prompt", "workbenchRoot", "cwd", "via", "sandbox",
        "approvalPolicy", "permissions", "model"}

(* The requests of a turn, and the wait for it; kit setup reads the others *)
(* for the installation before it.                                         *)
turnMethods(t) ==
  {"prompt", "cwd", "sandbox", "approvalPolicy", "permissions", "model", "wait"} \cup
  IF t = "turn-run" THEN {"threadId"} ELSE {"ref", "workbenchRoot", "overwrite"}

methodReads(t) ==
  CASE t \in FeedTypes -> feedMethods(t)
    [] t \in PromptTypes -> promptMethods(t)
    [] t \in HandoffTypes -> handoffMethods(t)
    [] t \in DispatchTypes -> dispatchMethods(t)
    [] t \in {"workflow-list", "workflow-run"} -> workflowMethods(t)
    [] t = "workbench-overview" -> {"mode", "workbenchRoot"}
    [] t \in {"turn-run", "kit-setup"} -> turnMethods(t)
    [] OTHER -> {"params"}

(* What of the options reaches the method of a toybox, or a function here. *)
OptionsAt(place) ==
  IF place = "box" THEN {o \in GivenOptions : paramName(type, o) \in methodReads(type)} ELSE GivenOptions

----------------------------------------------------------------------------
CommandInit ==
  /\ line \in Lines
  /\ type = "none" /\ plan = <<>> /\ box = "none" /\ boxBusy = FALSE
  /\ done = NotDone /\ ending = "none" /\ exit = -1

Stage(stage) == plan # <<>> /\ Head(plan) = stage

(* The rest is skipped but for the finally clause, the last of the stages. *)
Abandon == plan' = IF \E i \in DOMAIN plan : plan[i] = "close" THEN <<"close">> ELSE <<>>

(* Mutant of Fail: nothing is closed when something fails.                 *)
FailUnclosed(how) ==
  /\ plan' = <<>>
  /\ ending' = IF type \in Probes THEN "ok" ELSE how
  /\ done' = IF type \in Probes THEN [at |-> "here", options |-> GivenOptions] ELSE done
  /\ UNCHANGED <<line, type, box, boxBusy, exit>>

(* An error ends the command; a probe reports it.                          *)
Fail(how) ==
  /\ Abandon
  /\ ending' = IF type \in Probes THEN "ok" ELSE how
  /\ done' = IF type \in Probes THEN [at |-> "here", options |-> GivenOptions] ELSE done
  /\ UNCHANGED <<line, type, box, boxBusy, exit>>

readArguments(result) ==
  /\ type = "none"
  /\ parseArgs(line, result)
  /\ type' = result
  /\ ending' = IF result = "refused" THEN "refused" ELSE "none"
  /\ UNCHANGED <<line, plan, box, boxBusy, done, exit>>

startCommand ==
  /\ type \notin {"none", "refused", "help"} /\ ending = "none" /\ plan = <<>> /\ exit = -1
  /\ done = NotDone
  /\ plan' = mainStages(type)
  /\ UNCHANGED <<line, type, box, boxBusy, done, ending, exit>>

check ==
  /\ Stage("check")
  /\ IF {"sandbox", "permissions"} \subseteq line.given
     THEN Fail("refused")
     ELSE plan' = Tail(plan) /\ UNCHANGED <<line, type, box, boxBusy, done, ending, exit>>

(* The operation is carried out: at most one of these fits the type.       *)
CarriedOut(at, how) ==
  /\ done' = [at |-> at, options |-> OptionsAt(at)]
  /\ ending' = how

feedCommand(at, how) ==
  /\ type \in FeedTypes
  /\ how \in IF type = "feed-dispatch" THEN {"ok", "failed"} ELSE {"ok"}
  /\ CarriedOut(at, how)

promptCommand(at, how) == type \in PromptTypes /\ how = "ok" /\ CarriedOut(at, how)
handoffCommand(at, how) == type \in HandoffTypes /\ how = "ok" /\ CarriedOut(at, how)
dispatchCommand(at, how) == type \in DispatchTypes /\ how = "ok" /\ CarriedOut(at, how)

(* A task that has failed is the result of workbench run, not an error.    *)
workbenchRun(at, how) ==
  /\ type = "workbench-run"
  /\ how \in {"ok", "failed"}
  /\ CarriedOut(at, how)

workflowCommand(at, how) == type \in {"workflow-run", "workflow-list"} /\ how = "ok" /\ CarriedOut(at, how)

(* kit setup installs the kit here, and then starts a turn on it.          *)
kitSetup(at, how) == type = "kit-setup" /\ at = "here" /\ how = "ok" /\ CarriedOut(at, how)

turnCommand(at, how) ==
  /\ type \in {"turn-run", "kit-setup"}
  /\ at = "box" /\ how = "started"
  /\ CarriedOut(at, how)

(* A probe is a report made here of what the toybox says of itself.        *)
otherCommand(at, how) ==
  /\ type \notin Either \cup {"workbench-run", "turn-run", "kit-setup"}
  /\ how \in IF type = "runtime-preflight" THEN {"ok", "failed"} ELSE {"ok"}
  /\ CarriedOut(IF type \in Probes THEN "here" ELSE at, how)

CarriesOut(at, how) ==
  \/ feedCommand(at, how) \/ promptCommand(at, how) \/ handoffCommand(at, how)
  \/ dispatchCommand(at, how) \/ workbenchRun(at, how) \/ workflowCommand(at, how)
  \/ kitSetup(at, how) \/ turnCommand(at, how) \/ otherCommand(at, how)

Results == {"ok", "failed", "started"}

work ==
  /\ Stage("work")
  /\ \E how \in Results : CarriesOut("here", how)
  /\ plan' = Tail(plan)
  /\ UNCHANGED <<line, type, box, boxBusy, exit>>

workFails == Stage("work") /\ Fail("error")

----------------------------------------------------------------------------
(* The toybox                                                              *)
open ==
  /\ Stage("open") /\ box = "none"
  /\ box' = "starting"
  /\ UNCHANGED <<line, type, plan, boxBusy, done, ending, exit>>

boxInitialized ==
  /\ box = "starting"
  /\ box' = "ready"
  /\ plan' = IF Stage("open") THEN Tail(plan) ELSE plan
  /\ UNCHANGED <<line, type, boxBusy, done, ending, exit>>

ask ==
  /\ Stage("ask") /\ box = "ready" /\ ~boxBusy
  /\ boxBusy' = TRUE
  /\ UNCHANGED <<line, type, plan, box, done, ending, exit>>

(* The toybox is done.  Its answer counts while somebody waits for it; one *)
(* over ssh finishes what it is at when its input ends.                    *)
answer ==
  /\ boxBusy /\ boxBusy' = FALSE
  /\ IF Stage("ask")
     THEN (\E how \in Results : CarriesOut("box", how)) /\ plan' = Tail(plan)
     ELSE /\ done' = IF type \in Probes THEN done ELSE [at |-> "box", options |-> OptionsAt("box")]
          /\ UNCHANGED <<plan, ending>>
  /\ UNCHANGED <<line, type, box, exit>>

methodFails == Stage("ask") /\ boxBusy /\ Fail("error")

(* The turn is looked at until it has ended or the time is over.           *)
waitForTurn ==
  /\ Stage("wait") /\ box = "ready"
  /\ ending' \in {"completed", "failed", "interrupted", "timed_out"}
  /\ plan' = Tail(plan)
  /\ UNCHANGED <<line, type, box, boxBusy, done, exit>>

Requesting == Stage("open") \/ Stage("ask") \/ Stage("wait")

(* A toybox that cannot be started, exits, or does not answer in time.     *)
toyboxDies ==
  /\ box \in {"starting", "ready"}
  /\ box' = "died" /\ boxBusy' = FALSE
  /\ UNCHANGED <<line, type, plan, done, ending, exit>>

requestFails == Requesting /\ box # "none" /\ Fail("error")

close ==
  /\ Stage("close")
  /\ plan' = Tail(plan)
  /\ box' = IF box = "none" THEN "none" ELSE "closed"
  /\ boxBusy' = (boxBusy /\ Ssh)
  /\ UNCHANGED <<line, type, done, ending, exit>>

(* A feed dispatch opens a toybox for each task, and a workflow for its    *)
(* first request: createLazyWorkbenchRequester.                            *)
Lazy == type \in {"feed-dispatch", "workflow-run"} /\ Stage("work")

openForTask ==
  /\ Lazy /\ box = "none"
  /\ box' = "starting"
  /\ UNCHANGED <<line, type, plan, boxBusy, done, ending, exit>>

(* Closed after the task, or when the script has ended, in any case.       *)
closeForTask ==
  /\ Lazy /\ box # "none"
  /\ box' = "none"
  /\ UNCHANGED <<line, type, plan, boxBusy, done, ending, exit>>

lazyCommandEnds == Lazy /\ box = "none" /\ (work \/ workFails)

(* A wait of the script that is still asleep looks again after the close,  *)
(* which opens another toybox, that nobody closes.                         *)
lateLook ==
  /\ type = "workflow-run" /\ ~Ssh
  /\ plan = <<>> /\ ending # "none" /\ done # NotDone /\ box = "none"
  /\ box' = "starting"
  /\ UNCHANGED <<line, type, plan, boxBusy, done, ending, exit>>

----------------------------------------------------------------------------
exitCode ==
  IF \/ ending \in {"error", "refused"}
     \/ Waits /\ ending \in {"failed", "timed_out"}
     \/ type \in {"feed-dispatch", "runtime-preflight"} /\ ending = "failed"
  THEN 1 ELSE 0

exits ==
  /\ exit = -1 /\ plan = <<>> /\ (ending # "none" \/ type = "help")
  /\ exit' = exitCode
  /\ UNCHANGED <<line, type, plan, box, boxBusy, done, ending>>

CommandNext ==
  \/ \E result \in {"help", "refused", commandType(line.words)} : readArguments(result)
  \/ startCommand \/ check \/ open \/ boxInitialized \/ ask \/ answer \/ methodFails \/ waitForTurn
  \/ ~Lazy /\ (work \/ workFails)
  \/ openForTask \/ closeForTask \/ lazyCommandEnds \/ lateLook
  \/ toyboxDies \/ requestFails \/ close \/ exits

CommandSpec == CommandInit /\ [][CommandNext]_commandVars

----------------------------------------------------------------------------
(***************************************************************************)
(* The exit code can be relied on: 0 says that the operation was carried   *)
(* out, over ssh on that machine if the command knows --ssh, and that      *)
(* neither a turn waited for nor the target of a feed dispatch has failed. *)
(* A command that is refused, by its arguments or by the options of its    *)
(* turn, has done nothing and started no toybox; but kit setup installs    *)
(* the kit before it looks at the options of the turn.                     *)
(***************************************************************************)
ExitTellsOutcome ==
  /\ exit = 0 /\ type # "help" =>
       /\ done.at # "nowhere"
       /\ Ssh /\ type \in Either \cup AskTypes \cup {"turn-run"} => done.at = "box"
       /\ Waits => ending \in {"completed", "interrupted"}
       /\ type = "feed-dispatch" => ending = "ok"
  /\ ending = "refused" /\ type # "kit-setup" => done = NotDone /\ box = "none"

(***************************************************************************)
(* A command does the same over ssh as here: each option that it knows     *)
(* reaches the operation, through the names of a request and what its      *)
(* method reads.  The directories of a queued turn are TargetCwdIsKept's.  *)
(***************************************************************************)
Directories(t) == IF t \in {"prompt-enqueue", "handoff-enqueue"} THEN {"cwd", "target-cwd"} ELSE {}
RoutesAgree ==
  done.at # "nowhere" =>
    (line.given \cap commandOptions(type)) \ Directories(type) \subseteq done.options

(***************************************************************************)
(* A prompt or a handoff is queued with the directory of --target-cwd.     *)
(***************************************************************************)
TargetCwdIsKept ==
  done.at # "nowhere" /\ type \in {"prompt-enqueue", "handoff-enqueue"} /\ "target-cwd" \in line.given
    => "target-cwd" \in done.options

(***************************************************************************)
(* No toybox is left running by a command that has ended, whatever failed  *)
(* on the way; only lateLook leaves one.                                   *)
(***************************************************************************)
NoToyboxIsLeft == exit # -1 /\ type # "workflow-run" => box \in {"none", "closed"}
=============================================================================
