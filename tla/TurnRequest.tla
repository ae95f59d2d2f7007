----------------------------- MODULE TurnRequest -----------------------------
(***************************************************************************)
(* What becomes of the options of a turn on their way from whoever asks to *)
(* the app-server: parsed when they are enqueued, stored, parsed again when *)
(* the intent is read, copied when a handoff is materialized or a run is   *)
(* retried, mixed with the defaults of a workflow, and split over the      *)
(* thread and its turn.  An option that is left out is not in the domain.  *)
(***************************************************************************)
EXTENDS Naturals, FiniteSets, Functions

CONSTANTS
  MaxOdd,      \* bound: options that are given otherwise than well
  MaxRetries   \* bound

ASSUME RequestConstants == MaxOdd \in Nat /\ MaxRetries \in Nat

VARIABLE request   \* one request, on its way

(* The options of the first, and of the second those the first leaves out. *)
first ++ second ==
  [option \in DOMAIN first \cup DOMAIN second |->
     IF option \in DOMAIN first THEN first[option] ELSE second[option]]

TurnStrings == {"threadId", "cwd", "model", "serviceTier", "permissions"}
TurnWords == {"effort", "sandbox", "approvalPolicy"}
TurnTarget == {"prompt", "metadata", "outputSchema"} \cup TurnStrings \cup TurnWords
WorkflowTarget ==
  {"workflow", "event", "prompt", "cwd", "model", "sandbox", "approvalPolicy", "permissions"}
CreateParams == {"id", "runAt", "createdBy", "reason", "source", "dependsOn"}
QueueParams ==
  {"id", "runAt", "createdBy", "reason", "source", "title", "queue", "labels",
   "afterIntentId", "afterStatus"}
HandoffParams == {"targetHost", "requiredCapabilities", "requesterHost", "requesterThreadId"}

Entries == {"dispatch", "workflow", "prompt", "handoff"}
OptionsOf(entry) ==
  CASE entry = "dispatch" -> TurnTarget \cup CreateParams
    [] entry = "workflow" -> WorkflowTarget \cup CreateParams
    [] entry = "prompt" -> TurnTarget \cup QueueParams
    [] entry = "handoff" -> TurnTarget \cup QueueParams \cup HandoffParams

(* How a value is taken: "empty" is "" or [], "wrong" is of another type,  *)
(* no date or no word of the enumeration.                                  *)
KindOf(entry, option) ==
  CASE option = "workflow" -> "required"
    [] option = "prompt" -> IF entry = "workflow" THEN "string" ELSE "required"
    [] option \in TurnWords \cup {"afterStatus"} -> "word"
    [] option = "runAt" -> "date"
    [] option \in {"labels", "requiredCapabilities", "metadata", "dependsOn", "skills"} -> "list"
    [] option \in {"source", "event"} -> "record"
    [] option = "outputSchema" -> "any"
    [] OTHER -> "string"

requiredString(value) == IF value = "good" THEN "good" ELSE "refused"
optionalString(value) == IF value = "good" THEN "good" ELSE "absent"
enumValue(value) == IF value = "good" THEN "good" ELSE "refused"
runAtValue(value) ==
  CASE value = "wrong" -> "refused" [] value = "good" -> "good" [] OTHER -> "absent"
stringArray(value) == IF value = "good" THEN "good" ELSE "absent"
recordOrUndefined(value) == IF value = "wrong" THEN "absent" ELSE value

ValueOf(kind, value) ==
  CASE kind = "required" -> requiredString(value)
    [] kind = "string" -> optionalString(value)
    [] kind = "word" -> enumValue(value)
    [] kind = "date" -> runAtValue(value)
    [] kind = "list" -> stringArray(value)
    [] kind = "record" -> recordOrUndefined(value)
    [] kind = "any" -> value

compactUndefined(given) ==
  Restrict(given, {option \in DOMAIN given : given[option] # "absent"})
parse(entry, given) ==
  compactUndefined([option \in DOMAIN given |-> ValueOf(KindOf(entry, option), given[option])])

Required(entry) == {option \in OptionsOf(entry) : KindOf(entry, option) = "required"}
Refuses(parsed) == \E option \in DOMAIN parsed : parsed[option] = "refused"
Accepts(entry, given) ==
  Required(entry) \subseteq DOMAIN given /\ ~Refuses(parse(entry, given))

----------------------------------------------------------------------------
(* Much or little is asked, of it up to MaxOdd options oddly.              *)
Asked(entry) ==
  LET options == OptionsOf(entry)
      usual == {Required(entry), options, options \ {"sandbox"},
                options \ {"permissions", "threadId"}}
      odd == {{}} \cup {Range(pick) : pick \in [1..MaxOdd -> options]}
  IN {values ++ [option \in names |-> "good"] :
        names \in usual, values \in UNION {[some -> {"empty", "wrong"}] : some \in odd}}

(* What the script of a workflow asks of its turn, and what the manifest   *)
(* and the command that runs it give as defaults.                          *)
ScriptOptions == TurnTarget \cup {"skills"}
ScriptAsks ==
  {[option \in names |-> "good"] :
     names \in {{}, {"prompt"}, {"threadId", "sandbox"},
                {"cwd", "model", "effort", "metadata", "skills"},
                {"permissions", "approvalPolicy", "outputSchema", "serviceTier"}}}
  \cup {[option \in {"sandbox"} |-> "wrong"], [option \in {"cwd"} |-> "empty"]}
ManifestOptions == {"prompt", "cwd", "skills"}
ManifestDefaults == {<<>>, [option \in ManifestOptions |-> "good"]}
CommandDefaults == {<<>>, [option \in {"cwd"} |-> "good"]}

RequestInit ==
  \E entry \in Entries : \E given \in Asked(entry) :
    request = [at |-> "asked", entry |-> entry, given |-> given, kind |-> entry,
               target |-> <<>>, source |-> <<>>, script |-> <<>>, manifest |-> <<>>,
               command |-> <<>>, thread |-> <<>>, turn |-> <<>>, retries |-> 0]

Becomes(r) == request' = r

(* The turn that a prompt or a handoff asks for, and what its source keeps. *)
enqueued(input) == Restrict(input, TurnTarget \cap DOMAIN input)
after(input) ==
  IF "afterIntentId" \in DOMAIN input THEN {"afterIntentId", "afterStatus"} ELSE {}
promptSource(input) ==
  Restrict(input, ({"queue", "title", "labels", "source"} \cup after(input)) \cap DOMAIN input)
handoffSource(input) ==
  promptSource(input) ++ Restrict(input, HandoffParams \cap DOMAIN input)
sourceOf(entry, input) ==
  CASE entry = "prompt" -> promptSource(input)
    [] entry = "handoff" -> handoffSource(input)
    [] OTHER -> Restrict(input, {"source"} \cap DOMAIN input)

parseDispatchRunTarget(entry, given) ==
  parse(entry, Restrict(given, (TurnTarget \cup WorkflowTarget) \cap DOMAIN given))
KindOfTarget(entry) == IF entry = "workflow" THEN "workflow" ELSE "dispatch"

(* Parsed by its entry, the target is parsed once more when it is created. *)
EnqueueRequest ==
  LET r == request
      input == parse(r.entry, r.given)
      target == IF r.entry = "workflow" THEN input ELSE enqueued(input)
  IN /\ r.at = "asked"
     /\ Becomes(
          IF Accepts(r.entry, r.given)
          THEN [r EXCEPT !.at = "stored", !.source = sourceOf(r.entry, input),
                         !.target = parseDispatchRunTarget(KindOfTarget(r.entry), target)]
          ELSE [r EXCEPT !.at = "refused"])

normalizeDispatchRunIntent ==
  LET r == request
      kind == KindOfTarget(r.entry)
  IN /\ r.at = "stored"
     /\ Becomes(
          IF Accepts(kind, r.target)
          THEN [r EXCEPT !.at = "claimed", !.target = parseDispatchRunTarget(kind, r.target)]
          ELSE [r EXCEPT !.at = "unreadable"])

(* Mutant of materialized: the options that came last are forgotten.       *)
materializedOld(r) ==
  Restrict(r.target, (TurnTarget \ {"metadata", "outputSchema"}) \cap DOMAIN r.target)
    ++ Restrict(r.source, {"title", "labels"} \cap DOMAIN r.source)

materialized(r) ==
  Restrict(r.target, TurnTarget \cap DOMAIN r.target)
    ++ Restrict(r.source, {"title", "labels"} \cap DOMAIN r.source)

materializeRequest ==
  LET r == request
      input == parse("prompt", materialized(r))
  IN /\ r.at = "claimed" /\ r.kind = "handoff"
     /\ Becomes([r EXCEPT !.at = "stored", !.kind = "prompt", !.target = enqueued(input),
                          !.source = promptSource(input)])

(* A run that failed is created anew with the same target and source.      *)
retryDispatchRunIntent ==
  LET r == request
      kind == KindOfTarget(r.entry)
  IN /\ r.at = "failed" /\ r.retries < MaxRetries
     /\ Becomes([r EXCEPT !.at = "stored", !.retries = @ + 1, !.script = <<>>, !.manifest = <<>>,
                          !.command = <<>>, !.thread = <<>>, !.turn = <<>>,
                          !.target = parseDispatchRunTarget(kind, r.target)])

----------------------------------------------------------------------------
(* runWorkflowDispatchTarget: the script runs, and asks for its turn.      *)
runWorkflowDispatchTarget ==
  /\ request.at = "claimed" /\ request.entry = "workflow"
  /\ \E script \in ScriptAsks, manifest \in ManifestDefaults, command \in CommandDefaults :
       Becomes([request EXCEPT !.at = "called", !.script = script, !.manifest = manifest,
                               !.command = command])

From(who, given) == [option \in DOMAIN given |-> who]

(* The defaults of the host: the target's and, of prompt, cwd and skills,  *)
(* the manifest's when the target has none.  A cwd there always is: the    *)
(* command's goes before the manifest's, the root after it.                *)
hostDefaults(r) ==
  From("asked", Restrict(r.target, {"prompt", "cwd", "model", "sandbox", "approvalPolicy",
                                    "permissions"} \cap DOMAIN r.target))
    ++ From("command", r.command)
    ++ From("manifest", r.manifest)
    ++ [option \in {"cwd"} |-> "root"]

turnStartParamsFromHostParams(r) ==
  From("script", parse("dispatch", r.script)) ++ hostDefaults(r)

TurnAsked(r) ==
  IF r.entry = "workflow" THEN turnStartParamsFromHostParams(r) ELSE From("asked", r.target)

(* Without a prompt, with a wrong word, or with both sandbox and           *)
(* permissions no turn starts.                                             *)
validateTurnPermissionOptions(r) ==
  /\ "prompt" \in DOMAIN TurnAsked(r)
  /\ ~Refuses(parse("dispatch", r.script))
  /\ ~({"sandbox", "permissions"} \subseteq DOMAIN TurnAsked(r))

Runs(r) ==
  \/ r.at = "called"
  \/ r.at = "claimed" /\ r.entry # "workflow"

Only(given, options) == Restrict(given, options \cap DOMAIN given)

threadStartParamsFromWorkflow(asked) ==
  Only(asked, {"cwd", "model", "serviceTier", "sandbox", "approvalPolicy", "permissions"})

turnStartParamsFromWorkflow(asked, includeSandboxPolicy) ==
  Only(asked, {"threadId", "prompt", "cwd", "model", "serviceTier", "effort", "approvalPolicy",
               "permissions", "metadata", "outputSchema"}
              \cup (IF includeSandboxPolicy THEN {"sandbox"} ELSE {}))

(* A new thread gets the sandbox, an existing one its turn.                *)
startWorkflowTurnWithRequest ==
  LET r == request
      asked == TurnAsked(r)
      existing == "threadId" \in DOMAIN asked
  IN /\ Runs(r)
     /\ Becomes(
          IF validateTurnPermissionOptions(r)
          THEN [r EXCEPT !.at = "started",
                  !.thread = IF existing THEN <<>> ELSE threadStartParamsFromWorkflow(asked),
                  !.turn = turnStartParamsFromWorkflow(asked, existing)]
          ELSE [r EXCEPT !.at = "failed"])

(* The turn fails, so that its run can be retried.                         *)
TurnFails ==
  /\ request.at = "started"
  /\ Becomes([request EXCEPT !.at = "failed"])

RequestNext ==
  \/ EnqueueRequest \/ normalizeDispatchRunIntent \/ materializeRequest
  \/ retryDispatchRunIntent \/ runWorkflowDispatchTarget
  \/ startWorkflowTurnWithRequest \/ TurnFails

RequestSpec == RequestInit /\ [][RequestNext]_request

----------------------------------------------------------------------------
(***************************************************************************)
(* What was asked for and accepted is what the app-server is told,         *)
(* whichever way it took, materialized, stored or retried: of a workflow   *)
(* the script goes before the target and the target before the manifest.   *)
(* What is accepted can be read again.  Two things are told otherwise: the *)
(* skills that a script asks for or a manifest gives, which are told to    *)
(* nobody; and the directory of a workflow's turn, which is the command's  *)
(* before it is the manifest's and, if none of them has one, the root,     *)
(* which nobody asked for.                                                 *)
(***************************************************************************)
NeverTold == {"skills"}

Expected(r) ==
  LET taken == {option \in TurnTarget \cap DOMAIN r.given :
                  ValueOf(KindOf(r.entry, option), r.given[option]) # "absent"}
      usual == [option \in taken |-> "asked"]
      scripted == [option \in {o \in DOMAIN r.script : r.script[o] = "good"} |-> "script"]
      command == [o \in DOMAIN r.command |-> "command"]
      manifest == [o \in DOMAIN r.manifest |-> "manifest"]
      root == [o \in {"cwd"} |-> "root"]
  IN IF r.entry = "workflow" THEN scripted ++ usual ++ command ++ manifest ++ root ELSE usual

AcceptedIsTold ==
  /\ request.at # "unreadable"
  /\ request.at = "started" =>
       request.turn ++ request.thread =
         Restrict(Expected(request), DOMAIN Expected(request) \ NeverTold)
=============================================================================
