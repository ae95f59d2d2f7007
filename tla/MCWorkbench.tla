----------------------------- MODULE MCWorkbench -----------------------------
(* Components of the workbench that share no state, checked side by side:   *)
(* every behaviour is one of one part, and the other parts stay as they     *)
(* began.                                                                   *)
EXTENDS HandoffQueue, WorkbenchTasks, ActionsJob, KitInstall, WorkflowCatalog,
        WorkflowRun, ThreadProgress, MCCommandLine, RolloutTransplant,
        MemoryTransplant, FunctionsRuntime, TurnRequest, StateRoots

CONSTANTS
  p1, p2, p3, p4,   \* the installers
  c1, c2     \* the collectors

VARIABLE part

workbenchVars == <<queueVars, taskVars, jobVars, kitVars, catalogVars>>
turnVars == <<workflowVars, threadVars, commandVars, request>>
homeVars == <<rolloutVars, memoryVars, functionsVars, rootVars>>
othersThanQueue == <<taskVars, jobVars, kitVars, catalogVars, turnVars, homeVars>>
othersThanTasks == <<queueVars, jobVars, kitVars, catalogVars, turnVars, homeVars>>
othersThanJobs == <<queueVars, taskVars, kitVars, catalogVars, turnVars, homeVars>>
othersThanKits == <<queueVars, taskVars, jobVars, catalogVars, turnVars, homeVars>>
othersThanCatalog == <<queueVars, taskVars, jobVars, kitVars, turnVars, homeVars>>
othersThanWorkflow == <<workbenchVars, threadVars, commandVars, request, homeVars>>
othersThanThread == <<workbenchVars, workflowVars, commandVars, request, homeVars>>
othersThanCommand == <<workbenchVars, workflowVars, threadVars, request, homeVars>>
othersThanRequest == <<workbenchVars, workflowVars, threadVars, commandVars, homeVars>>
othersThanRollouts == <<workbenchVars, turnVars, memoryVars, functionsVars, rootVars>>
othersThanMemories == <<workbenchVars, turnVars, rolloutVars, functionsVars, rootVars>>
othersThanFunctions == <<workbenchVars, turnVars, rolloutVars, memoryVars, rootVars>>
othersThanRoots == <<workbenchVars, turnVars, rolloutVars, memoryVars, functionsVars>>
parts == <<workbenchVars, turnVars, homeVars, part>>

(* Prompts of two queues, and a handoff to a host that can what it needs.   *)
MCSources ==
  {promptQueueSource(1), promptQueueSource(2), localHandoffSource(1, 1, {1})}

(* The first turn speaks, the second runs a command.                        *)
MCDeltas == <<2, 0>>

MCDrains == {1, 2}
MCModeOf ==
  <<[command |-> "run-due", queue |-> AnyQueue, promptQueue |-> AnyQueue,
     hostId |-> LocalController, capabilities |-> {}],
    [command |-> "materialize", queue |-> 1, promptQueue |-> AnyQueue,
     hostId |-> 1, capabilities |-> {1}]>>

(* One overwrites a skill, one only adds a plugin; the third overwrites the *)
(* same skill, and the kit of the fourth cannot be read.                    *)
Skill(path, content) ==
  [kind |-> "skill", name |-> "setup", path |-> path, quality |-> "good", content |-> content]
Plugin(path, quality) ==
  [kind |-> "plugin", name |-> "x", path |-> path, quality |-> quality, content |-> 2]
MCOffer ==
  [p \in Installers |->
     CASE p = p1 -> {Skill(1, 1), Skill(2, 2)}
       [] p = p2 -> {Plugin(1, "unfit"), Plugin(2, "good")}
       [] p = p3 -> {Skill(1, 3)}
       [] p = p4 -> {Skill(1, 1), Plugin(2, "broken")}]
MCOptions == [p \in Installers |-> [overwrite |-> p # p2, include |-> {}, exclude |-> {}]]
MCSetup == <<"skill", "setup">>

(* One replaces a rollout as it is, the other with a new directory.         *)
MCMovers == {1, 2}
MCNames == [r \in {1} |-> "a"]
MCMove ==
  [find |-> "file", thread |-> "a", rollout |-> 1, placed |-> TRUE, copies |-> TRUE,
   target |-> "to", replace |-> TRUE, cwd |-> "keep"]
MCMoves ==
  <<{MCMove}, {[MCMove EXCEPT !.find = "thread", !.cwd = "new"]}>>

(* One merges, the other overwrites or copies without a plan.               *)
MCKinds == <<"mergeable", "artifact">>
MCSourceFiles == <<{1}, {1, 2}>>
MCOrder(overwrite, merge, backup) ==
  [planned |-> TRUE, apply |-> TRUE, overwrite |-> overwrite, merge |-> merge, backup |-> backup]
MCTransplants ==
  <<{MCOrder(TRUE, TRUE, TRUE)},
    {MCOrder(TRUE, FALSE, TRUE), [MCOrder(FALSE, FALSE, FALSE) EXCEPT !.planned = FALSE]}>>

MCTexts == <<"defines", "other">>

(* Of the parts that do not move one initial state is enough.               *)
PartsInit ==
  /\ part \in {"queue", "collect", "tasks", "jobs", "kits", "stamps", "catalog", "workflow", "thread", "command",
              "request", "rollouts", "memories", "functions", "roots"}
  /\ QueueInit /\ (part # "queue" => \A i \in IntentIds : asked[i] = promptQueueSource(1))
  /\ TaskInit /\ (part # "tasks" => \A r \in TaskRuns : taskRun[r].task = CHOOSE k \in LatestTasks : TRUE)
  /\ JobInit /\ (part # "jobs" => upstream.files = {} /\ gitignore = appendGitignoreEntries({"auth"}))
  /\ KitInit
  /\ (part # "kits" => /\ market = IntactFile([k \in KitKeys |-> NoEntry])
                       /\ \A k \in KitKeys : (part = "stamps" /\ k = Setup) \/ dest[k] = Missing)
  /\ CatalogInit /\ WorkflowInit /\ ThreadInit
  /\ (part # "command" => line = AnyLine)
  /\ CommandInit
  /\ RolloutInit /\ (ownRollout = <<>> \/ part # "rollouts" => sessions["from"][1].thread = "a")
  /\ (part # "rollouts" => ownRollout = <<>>)
  /\ MemoryInit /\ (part # "memories" => ownMemory = <<>>)
  /\ FunctionsInit
  /\ RootInit /\ (part # "roots" => dotCodex = {})
  /\ IF part = "request" THEN RequestInit ELSE request = [at |-> "none"]

(* Collection does not depend on what has run an intent: one command whose   *)
(* claims and intents succeed, and a user who cancels the last intent.  One  *)
(* collector may be slow, or die: it begins before time passes.              *)
CollectNext ==
  \/ \E i \in IntentIds : /\ (i = 1 \/ intentFile[1].status # "absent")
                           /\ enqueuePromptQueueIntent(i, promptQueueSource(1))
  \/ DrainSteps(1) /\ ~LoseClaim(1) /\ (drain'[1].pc = "stamp" => drain'[1].status = "completed")
  \/ CancelIntent(2)
  \/ \E c \in Collectors : CollectSteps(c) /\ (c = c2 /\ queueNow > 0 => collector[c].pc # "idle")
  \/ CollectorDies(c2) /\ queueNow > 0
  \/ QueueTimePasses

(* A user edits the skill, and an install may die, where one overwrites and  *)
(* the other adds and no two plans share a stamp.  Two that overwrite the    *)
(* same, of one stamp or of two, overlap without that.  What is registered   *)
(* and not edited since is not installed again.                              *)
Begins(p) == installer[p].pc = "idle" /\ installer'[p].pc # "idle"
KitsNext ==
  /\ KitNext /\ (2 \in stamped' => 1 \in stamped')
  /\ part = "kits" =>
       /\ ~Begins(p3) /\ shared' = {}
       /\ Begins(p1) => lockFile.entries[Setup] = NoEntry \/ dest[Setup][1] = "user"
       /\ Begins(p2) => lockFile.entries[<<"plugin", "x">>] = NoEntry
       /\ \A k \in KitKeys \ {Setup} : dest'[k] # UserContent(1)
  /\ part = "stamps" =>
       /\ ~Begins(p2) /\ kitEdits' = 0 /\ kitCrashes' = 0 /\ ~retireSetupSkill
       /\ Begins(p1) \/ Begins(p3) => lockFile.entries[Setup] = NoEntry

PartsNext ==
  \/ part = "queue" /\ QueueNext /\ UNCHANGED <<collector, othersThanQueue>>
  \/ part = "collect" /\ CollectNext /\ UNCHANGED othersThanQueue
  \/ part = "tasks" /\ TaskNext /\ UNCHANGED othersThanTasks
  \/ part = "jobs" /\ JobNext /\ UNCHANGED othersThanJobs
  \/ part \in {"kits", "stamps"} /\ KitsNext /\ UNCHANGED othersThanKits
  \/ part = "catalog" /\ CatalogNext /\ UNCHANGED othersThanCatalog
  \/ part = "workflow" /\ WorkflowNext /\ UNCHANGED othersThanWorkflow
  \/ part = "thread" /\ ThreadNext /\ command'[1] = "none" /\ UNCHANGED othersThanThread
  \/ part = "command" /\ CommandNext /\ UNCHANGED othersThanCommand
  \/ part = "request" /\ RequestNext /\ UNCHANGED othersThanRequest
  \/ part = "rollouts" /\ RolloutNext /\ UNCHANGED othersThanRollouts
  \/ part = "memories" /\ MemoryNext /\ UNCHANGED othersThanMemories
  \/ part = "functions" /\ FunctionsNext /\ UNCHANGED othersThanFunctions
  \/ part = "roots" /\ RootNext /\ UNCHANGED othersThanRoots

PartsSpec == PartsInit /\ [][PartsNext /\ UNCHANGED part]_parts
=============================================================================
