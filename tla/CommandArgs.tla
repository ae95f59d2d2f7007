------------------------------ MODULE CommandArgs ------------------------------
(***************************************************************************)
(* What the command line says: parseArgs of the codex-toys command.  A     *)
(* command line is its words (the command, the subcommand, the action; a   *)
(* missing one is NoWord), the number of positionals after the words that  *)
(* name the command, and the options given, named without their dashes.    *)
(* Options that only shape the output, and the number of --timeout-ms, are *)
(* left out; an option of the environment counts as given.                 *)
(***************************************************************************)
EXTENDS Naturals, FiniteSets

NoWord == "-"

----------------------------------------------------------------------------
(* The options.  A flag has no value; the value of another one may be      *)
(* missing, not a number, or not in its list.  --status is two options:    *)
(* the status of a run, and "status-new", that of a feed item.             *)
Flags == {"wait", "script-stdin", "apply", "overwrite", "replace", "preserve-cwd", "no-backup",
          "forgejo", "github", "no-image", "dry-run", "include-output", "materialize", "all",
          "no-advance", "no-poll", "help"}

RemoteFields == {"ssh", "cwd", "remote-path-prepend", "runtime-command", "codex-command", "codex-arg"}
TurnOptions == {"sandbox", "approval-policy", "permissions", "model"}
ParamsOptions == {"params-json", "params-file"}
Context == {"mode", "workbench-root"}
FeedContext == {"mode", "feed-root"}

----------------------------------------------------------------------------
(* The type of command that the words name; "refused" for words nobody     *)
(* knows and for commands that were removed.                               *)
runtimeType(sub) ==
  CASE sub = "serve" -> "runtime-serve"
    [] sub = "http" -> "runtime-http"
    [] sub = "preflight" -> "runtime-preflight"
    [] sub \in {"host-overview", "host"} -> "host-overview"
    [] OTHER -> "refused"

functionsType(sub) ==
  CASE sub \in {"list", "ls"} -> "functions-list"
    [] sub \in {"describe", "show"} -> "functions-describe"
    [] sub \in {"call", "run"} -> "functions-call"
    [] OTHER -> "refused"

feedItemType(action) ==
  CASE action \in {NoWord, "list", "ls"} -> "feed-item-list"
    [] action \in {"read", "show"} -> "feed-item-read"
    [] action \in {"append", "add"} -> "feed-item-append"
    [] OTHER -> "refused"

feedType(sub, action) ==
  CASE sub \in {NoWord, "doctor"} -> "feed-doctor"
    [] sub \in {"source", "sources"} /\ action \in {NoWord, "list", "ls"} -> "feed-source-list"
    [] sub = "poll" -> "feed-poll"
    [] sub \in {"item", "items"} -> feedItemType(action)
    [] sub = "collect" -> "feed-collect"
    [] sub = "cursor" /\ action = "advance" -> "feed-cursor-advance"
    [] sub = "dispatch" -> "feed-dispatch"
    [] sub = "prune" -> "feed-prune"
    [] OTHER -> "refused"

(* What prompts, handoffs and dispatch runs have in common.                *)
Enqueue == {"enqueue", "queue", "add", "create"}
intentAction(action) ==
  CASE action \in {NoWord, "list", "ls"} -> "list"
    [] action \in {"read", "show"} -> "read"
    [] action \in {"retry", "requeue"} -> "retry"
    [] action \in {"run-due", "run"} -> "run-due"
    [] action \in {"collect", "cancel"} -> action
    [] OTHER -> "refused"

promptType(action) ==
  CASE action \in Enqueue -> "prompt-enqueue"
    [] action = "pull" -> "prompt-pull"
    [] intentAction(action) = "list" -> "prompt-list"
    [] intentAction(action) = "read" -> "prompt-read"
    [] intentAction(action) = "collect" -> "prompt-collect"
    [] intentAction(action) = "cancel" -> "prompt-cancel"
    [] intentAction(action) = "retry" -> "prompt-retry"
    [] intentAction(action) = "run-due" -> "prompt-run-due"
    [] OTHER -> "refused"

handoffType(action) ==
  CASE action \in Enqueue -> "handoff-enqueue"
    [] action = "pull" -> "handoff-pull"
    [] action = "drain" \/ intentAction(action) = "run-due" -> "handoff-drain"
    [] intentAction(action) = "list" -> "handoff-list"
    [] intentAction(action) = "read" -> "handoff-read"
    [] intentAction(action) = "collect" -> "handoff-collect"
    [] intentAction(action) = "cancel" -> "handoff-cancel"
    [] intentAction(action) = "retry" -> "handoff-retry"
    [] OTHER -> "refused"

dispatchType(action) ==
  CASE action \in {"create", "add"} -> "dispatch-create"
    [] action = "prune" -> "dispatch-prune"
    [] intentAction(action) = "list" -> "dispatch-list"
    [] intentAction(action) = "read" -> "dispatch-read"
    [] intentAction(action) = "collect" -> "dispatch-collect"
    [] intentAction(action) = "cancel" -> "dispatch-cancel"
    [] intentAction(action) = "retry" -> "dispatch-retry"
    [] intentAction(action) = "run-due" -> "dispatch-run-due"
    [] OTHER -> "refused"

(* A word that is none of these is a method to call.                       *)
workbenchType(sub, action) ==
  CASE sub \in {NoWord, "methods"} -> "workbench-methods"
    [] sub = "doctor" -> "workbench-doctor"
    [] sub = "overview" -> "workbench-overview"
    [] sub = "run" -> "workbench-run"
    [] sub \in {"prompt", "prompts", "prompt-queue"} -> promptType(action)
    [] sub \in {"handoff", "handoffs", "local-handoff"} -> handoffType(action)
    [] sub = "dispatch" -> dispatchType(action)
    [] sub = "init" -> IF action = "actions" THEN "init-actions" ELSE "refused"
    [] sub \in {"tick", "backend", "deferred", "defer"} -> "refused"
    [] sub = "app" -> "workbench-app-call"
    [] OTHER -> "workbench-call"

threadsType(sub) ==
  CASE sub = "locate" -> "threads-locate"
    [] sub = "inspect" -> "threads-inspect"
    [] sub = "install-rollout" -> "threads-install-rollout"
    [] sub = "transplant" -> "threads-transplant"
    [] OTHER -> "refused"

kitType(sub) ==
  CASE sub = "inspect" -> "kit-inspect"
    [] sub = "add" -> "kit-add"
    [] sub = "setup" -> "kit-setup"
    [] sub = "doctor" -> "kit-doctor"
    [] sub = "list" -> "kit-list"
    [] OTHER -> "refused"

commandType(words) ==
  LET command == words[1]  sub == words[2]  action == words[3] IN
  CASE command \in {NoWord, "help"} -> "help"
    [] command = "mcp" /\ sub \in {NoWord, "serve"} -> "mcp-serve"
    [] command \in {"fetch", "neofetch"} -> "fetch"
    [] command = "runtime" -> runtimeType(sub)
    [] command = "host" /\ sub = "overview" -> "host-overview"
    [] command = "turn" /\ sub = "run" -> "turn-run"
    [] command = "workflow" /\ sub \in {"list", "ls"} -> "workflow-list"
    [] command = "workflow" /\ sub = "run" -> "workflow-run"
    [] command = "app" -> IF sub \in {NoWord, "actions"} THEN "app-actions" ELSE "app-call"
    [] command \in {"functions", "function"} -> functionsType(sub)
    [] command = "feed" -> feedType(sub, action)
    [] command = "workbench" -> workbenchType(sub, action)
    [] command = "actions" /\ sub = "prepare-auth" -> "actions-prepare-auth"
    [] command = "actions" /\ sub = "cleanup" -> "actions-cleanup"
    [] command = "memories" /\ sub = "transplant"
         /\ action \in {"global-to-workbench", "workbench-to-global"} -> "memories-transplant"
    [] command = "threads" -> threadsType(sub)
    [] command = "kit" -> kitType(sub)
    [] OTHER -> "refused"

----------------------------------------------------------------------------
(* The options that the result of parseArgs carries, by type of command.   *)
FeedTypes == {"feed-doctor", "feed-source-list", "feed-poll", "feed-item-list", "feed-item-append",
              "feed-item-read", "feed-collect", "feed-cursor-advance", "feed-dispatch", "feed-prune"}
PromptTypes == {"prompt-enqueue", "prompt-list", "prompt-read", "prompt-pull", "prompt-collect",
                "prompt-cancel", "prompt-retry", "prompt-run-due"}
HandoffTypes == {"handoff-enqueue", "handoff-list", "handoff-read", "handoff-pull", "handoff-collect",
                 "handoff-cancel", "handoff-retry", "handoff-drain"}
DispatchTypes == {"dispatch-create", "dispatch-list", "dispatch-read", "dispatch-collect",
                  "dispatch-cancel", "dispatch-retry", "dispatch-run-due", "dispatch-prune"}
CallTypes == {"app-call", "functions-call", "workbench-call", "workbench-app-call"}
OwnTypes == {"help", "mcp-serve", "app-actions", "init-actions", "actions-prepare-auth",
             "actions-cleanup", "memories-transplant", "threads-locate", "threads-inspect",
             "threads-install-rollout", "threads-transplant", "kit-inspect", "kit-add", "kit-setup",
             "kit-doctor", "kit-list"}

feedOptions(type) ==
  FeedContext \cup
  CASE type = "feed-poll" -> {"source"}
    [] type = "feed-item-list" -> {"source", "status-new", "limit"}
    [] type = "feed-item-append" -> {"source"} \cup ParamsOptions
    [] type = "feed-collect" -> {"cursor", "source", "status-new", "limit", "no-advance"}
    [] type = "feed-cursor-advance" -> {"cursor", "item"}
    [] type = "feed-dispatch" -> {"cursor", "source", "target", "limit", "no-poll"}
    [] type = "feed-prune" -> {"older-than-days", "dry-run"}
    [] OTHER -> {}

enqueueOptions ==
  TurnOptions \cup {"prompt", "title", "queue", "label", "run-at", "after", "after-status",
                    "thread-id", "cwd", "target-cwd", "service-tier", "effort"}

promptOptions(type) ==
  Context \cup
  CASE type = "prompt-enqueue" -> enqueueOptions
    [] type = "prompt-list" -> {"status", "queue", "limit"}
    [] type = "prompt-read" -> {"include-output"}
    [] type = "prompt-collect" -> {"cursor", "queue"}
    [] type = "prompt-retry" -> {"run-at"}
    [] type = "prompt-run-due" -> {"queue", "limit"}
    [] OTHER -> {}

handoffOptions(type) ==
  Context \cup
  CASE type = "handoff-enqueue" -> enqueueOptions \cup {"target-host", "capability", "requester-host",
                                                        "requester-thread-id"}
    [] type = "handoff-list" -> {"status", "queue", "target-host", "capability", "limit"}
    [] type = "handoff-read" -> {"include-output"}
    [] type = "handoff-collect" -> {"cursor", "queue", "target-host", "capability"}
    [] type = "handoff-retry" -> {"run-at"}
    [] type = "handoff-drain" -> {"queue", "host-id", "capability", "limit", "materialize", "prompt-queue"}
    [] OTHER -> {}

dispatchOptions(type) ==
  Context \cup
  CASE type = "dispatch-create" -> ParamsOptions
    [] type = "dispatch-read" -> {"include-output"}
    [] type = "dispatch-collect" -> {"cursor"}
    [] type = "dispatch-retry" -> {"run-at"}
    [] type = "dispatch-prune" -> {"older-than-days", "dry-run"}
    [] OTHER -> {}

kitOptions(type) ==
  CASE type = "kit-inspect" -> {"ref"}
    [] type = "kit-add" -> {"ref", "workbench-root", "apply", "overwrite", "include", "exclude"}
    [] type = "kit-setup" -> {"ref", "workbench-root", "overwrite", "prompt", "wait"} \cup TurnOptions
    [] OTHER -> {"workbench-root"}

threadsOptions(type) ==
  CASE type = "threads-install-rollout" -> {"codex-home", "replace", "cwd", "preserve-cwd"}
    [] type = "threads-transplant" -> {"from-codex-home", "to-codex-home", "replace", "cwd", "preserve-cwd"}
    [] OTHER -> {"codex-home"}

commandOptions(type) ==
  CASE type \in FeedTypes -> feedOptions(type)
    [] type \in PromptTypes -> promptOptions(type)
    [] type \in HandoffTypes -> handoffOptions(type)
    [] type \in DispatchTypes -> dispatchOptions(type)
    [] type \in CallTypes -> ParamsOptions
    [] type \in {"runtime-serve", "runtime-preflight"} -> {"cwd"}
    [] type = "runtime-http" -> {"cwd", "static", "host", "port"}
    [] type = "turn-run" -> {"prompt", "thread-id", "cwd", "wait"} \cup TurnOptions
    [] type = "workflow-list" -> {"workbench-root"}
    [] type = "workflow-run" -> {"script", "script-stdin", "event", "prompt", "workbench-root", "cwd",
                                 "via"} \cup TurnOptions
    [] type \in {"workbench-doctor", "workbench-overview", "workbench-run"} -> Context
    [] type = "init-actions" -> {"workbench-root", "forgejo", "github", "image", "no-image", "overwrite"}
    [] type \in {"actions-prepare-auth", "actions-cleanup"} -> {"workbench-root"}
    [] type = "memories-transplant" -> {"workbench-root", "global-codex-home", "workbench-codex-home",
                                        "apply", "overwrite", "merge", "no-backup"}
    [] type \in {"kit-inspect", "kit-add", "kit-setup", "kit-doctor", "kit-list"} -> kitOptions(type)
    [] type \in {"threads-locate", "threads-inspect", "threads-install-rollout", "threads-transplant"} ->
         threadsOptions(type)
    [] OTHER -> {}

(* The route of a command: what says on which machine it is carried out,    *)
(* and where there.  The commands of OwnTypes have none and ignore --ssh.   *)
remoteFields(type, given) ==
  IF type \in OwnTypes THEN {}
  ELSE (given \cap RemoteFields) \ IF "ssh" \in given THEN {} ELSE {"cwd"}

----------------------------------------------------------------------------
(* The positionals a command needs; those beyond are inline parameters.  A  *)
(* method named in place of "call" counts as a positional.                 *)
needed(type, given) ==
  CASE type \in {"turn-run", "prompt-enqueue", "handoff-enqueue"} -> IF "prompt" \in given THEN 0 ELSE 1
    [] type = "feed-item-append" -> IF "source" \in given THEN 0 ELSE 1
    [] type = "feed-cursor-advance" -> IF "item" \in given THEN 0 ELSE 1
    [] type = "feed-dispatch" -> IF "target" \notin given THEN 2 ELSE IF "source" \in given THEN 0 ELSE 1
    [] type = "threads-transplant" -> IF "to-codex-home" \in given THEN 1 ELSE 2
    [] type \in {"app-call", "functions-call", "functions-describe", "feed-item-read", "workbench-run",
                 "workbench-call", "workbench-app-call", "prompt-read", "prompt-pull", "prompt-cancel",
                 "prompt-retry", "handoff-read", "handoff-pull", "handoff-cancel", "handoff-retry",
                 "dispatch-read", "dispatch-cancel", "dispatch-retry", "threads-locate",
                 "threads-inspect", "threads-install-rollout", "kit-inspect", "kit-add", "kit-setup"} -> 1
    [] OTHER -> 0

TakesParams == CallTypes \cup {"feed-item-append", "dispatch-create"}

paramsConflict(type, given, extras) ==
  /\ type \in TakesParams
  /\ \/ ParamsOptions \subseteq given
     \/ extras > needed(type, given) /\ ParamsOptions \cap given # {}

workflowSources(given, extras) ==
  Cardinality(given \cap {"script", "script-stdin"}) + (IF extras > 0 THEN 1 ELSE 0)

(* The errors that parseArgs throws for the command as a whole.            *)
refuses(type, given, extras) ==
  \/ type = "refused"
  \/ extras < needed(type, given)
  \/ paramsConflict(type, given, extras)
  \/ type = "turn-run" /\ "ssh" \in given /\ "wait" \notin given
  \/ type = "workflow-run" /\ workflowSources(given, extras) # 1
  \/ type \in {"feed-prune", "dispatch-prune"} /\ "older-than-days" \notin given
  \/ type = "kit-setup" /\ given \cap {"ssh", "include", "exclude"} # {}

(* The working directory of a queued prompt or handoff: that of the route, *)
(* which is spread last, or the target's, or the one given locally.        *)
enqueueCwd(given) ==
  IF {"ssh", "cwd"} \subseteq given THEN {"cwd"}
  ELSE IF "target-cwd" \in given THEN {"target-cwd"}
  ELSE IF "ssh" \notin given THEN given \cap {"cwd"} ELSE {}

(* The options of the operation itself, out of those given.                *)
parsedOptions(type, given) ==
  IF type \in {"prompt-enqueue", "handoff-enqueue"}
  THEN ((given \cap commandOptions(type)) \ {"cwd", "target-cwd"}) \cup enqueueCwd(given)
  ELSE given \cap commandOptions(type)

(* parseArgs: options are read one after the other, so that the first of   *)
(* --help and an unacceptable one decides; then the words.                 *)
parseArgs(line, result) ==
  \/ line.bad # {} /\ result = "refused"
  \/ "help" \in line.given /\ result = "help"
  \/ /\ line.bad = {} /\ "help" \notin line.given
     /\ result = IF refuses(commandType(line.words), line.given, line.extras) THEN "refused"
                 ELSE commandType(line.words)
=============================================================================
