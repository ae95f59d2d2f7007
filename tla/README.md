# codex-toys: a TLA+ model

codex-toys is a workbench around the Codex app-server: a file-backed queue of
work to run later (dispatch), a file-backed intake of feeds, a JSON-RPC bridge to
an app-server process, and servers, proxies and commands on top of these. This
directory holds TLA+ modules of its stateful parts, TLC configurations that check
them on small instances, and TLAPS proofs for instances of every size. Every
definition is translated from the source; `PROJECT.json` ("map") names the lines.

Paths below are relative to the repository; `wb` is
`packages/workbench/src/workbench-runtime.ts`.

## Inventory

| component | state it keeps | operations | what makes it correct | modules |
| --- | --- | --- | --- | --- |
| dispatch queue (`wb`) | one JSON file per intent, attempt, output and claim | create, run-due (list, claim, execute, finish, release), cancel, retry, prune | one runner per claim, dependencies before dependents, final results stay, results keep their evidence, due work is done in spite of crashes | `DispatchStore`, `DispatchRunner`, `DispatchOperator`, `DispatchRuns` |
| prompt queue, handoffs, collect (`wb`, `dispatch-run-methods.ts`) | intents with other sources and targets, a cursor file | enqueue, run, drain, materialize, retry, collect | a handoff runs only where it was meant to; a cursor passes nothing that nobody got | `HandoffQueue` |
| options of a turn (`wb`, `workflow.ts`, `remote-workflow.ts`) | stored targets | parse, store, read, copy, mix with defaults, split | what was accepted is what the app-server is told (but for skills) | `TurnRequest` |
| workbench tasks and health (`wb`) | run records, `health/summary.json` | run a task, record it, summarise | overlapping runs lose no result | `WorkbenchTasks` |
| Actions job (`wb`, `packages/actions/src/actions.ts`) | a checkout, a branch | authenticate, run, clean up, commit, push | nothing private is pushed, everything executed is | `ActionsJob` |
| state roots (`wb`, feed) | `.codex` directories, configurations | discover, create, scaffold | what a tool wrote it finds again | `StateRoots` |
| feed (`packages/feed/src/index.ts`) | one JSON file per item, an HTTP checkpoint per source, a cursor per consumer | poll, append, collect, dispatch, prune | every published entry is taken in and delivered; cursors pass nothing undelivered; a 304 hides nothing | `FeedStore`, `FeedIntake`, `FeedConsume`, `Feed` |
| app-server transport (`bridge/src/app-server/stdio-transport.ts`) | the child process, the pending calls and their timers | start, close, request, notify, respond, and the handlers of exit, error, lines and timers | each call ends once, with its own answer or none | `StdioTransport`, `RpcCalls` |
| app-server client, toybox server, toybox client, proxy (`client.ts`, `toybox/src/*.ts`, `cli/toybox.ts`, `proxy/src/*.ts`) | what is connected, the initialize promise, the lines in between | initialize, call, ask back, answer, close | nothing is asked of a server that was not initialized; a question does not block its own answer | `ToyboxSession` |
| login (`bridge/src/app-server/auth.ts`) | listeners and a timer per wait | start, wait for, complete a login | a wait ends once, with its own login | `AuthLogin` |
| workflow runs and turns (`workflow.ts`, `remote-workflow.ts`, `workflow-module-runner.ts`) | a child process, its calls, polling waits | run a script, start turns, wait, time out | a run ends; a wait tells the truth | `WorkflowRun`, `WorkflowCatalog` |
| thread workbench (`thread-workbench.ts`) | a snapshot folded over notifications | apply a notification, show and mark messages | nothing is shown in part; an ended turn is settled, and loses nothing of what was said | `ThreadProgress` |
| kits (`packages/kits/src/kits.ts`) | installed directories, `marketplace.json`, `kit-lock.json` | plan, add, register | the lock names what is installed; what is replaced has a backup | `KitInstall` |
| functions (`functions.ts`) | the module cache of the process | list, describe, call | a call runs the manifest of its time | `FunctionsRuntime` |
| rollouts and memories (`bridge/src/threads.ts`, `memories.ts`, `cli/memories.ts`) | files of two Codex homes and their backups | inspect, install, transplant | what is replaced survives in a backup | `RolloutTransplant`, `MemoryTransplant` |
| command line, remote control (`cli/args.ts`, `cli/index.ts`, `packages/remote/src/*.ts`) | a toybox process of its own, here or over ssh | parse, route, open, ask, wait, close, exit | the exit code tells the outcome; both routes do the same | `CommandArgs`, `CommandLine` |
| overviews, generated types, docs, evals, containers | none | reports, pure functions | | not modelled |

**Interaction.** Processes share files and nothing else: every command of the
command line, every scheduled `run-due` or `feed poll`, is a process of its own
that reads, decides and writes without a lock (the claim files of the dispatch
queue are the only mutual exclusion). A feed dispatch may enqueue dispatch
intents; a dispatch target may be a turn on an app-server, reached through a
client over the transport or through a toybox server and its peers. Inside a
process everything is callbacks and promises on one thread, so that an `await` or
an event is where another operation may come between.

**What is hard.** Check-then-act across awaits and processes (claims, cancels,
cursors, prunes, plans and backup names); leases that expire under a runner that
is only slow; crashes between creating and writing a file; directories that change
under a listing; answers that come after their timeout, their server's exit or its
replacement; options that are copied field by field through five hands; cuts
applied to lists that also hold history. The hazards, each at its line, are in
`PROJECT.json`.

## Layout

A component is a module, or a store with the processes that work on it and one
module that composes them (`DispatchRuns`, `Feed`). `StdioTransport` implements
the abstract `RpcCalls`. Theorems are in `...Proofs` modules that extend the
component's; `SessionProofs`, `WorkbenchProofs`, `HomeProofs` and `TurnProofs` hold
those of several components, one section each. A module named `MC...` gives its
constants values; the `.cfg` of the same name, or one that begins with it, is a run.

`MCWorkbench` and `MCSessions` check several components in one run. They share no
variable, so nothing is gained by interleaving them: the constant-like variable
`part` picks one of them for each behaviour, the others stay in their initial
state, and those that do not move have one initial state instead of many. The
state space is the sum of those of the parts, not the product, and a property of
one component is checked as in a run of its own. `MCDispatchScenarios` and
`MCFeedScenarios` do the same for two instances of one component with a
CONSTRAINT that keeps what the two instances have in common and either the one or
the other; states outside both are not explored further.

The configurations list the type invariants that proofs rest on, of the dispatch
queue and the transport. `FeedTypeOK`, `QueueTypeOK`, `TaskTypeOK` and `JobTypeOK`
state the types of their modules; they hold when they are added to the INVARIANTS of
the run. The other theorems rest on invariants of their own (`...Inv` in the modules of
proofs), most of which begin with the shape of the variables they need.

The plan was to model first what two processes can spoil for each other (the
dispatch queue, the feed, the transport), then everything that runs on top of it,
down to the command line, and to prove the safety of what processes share. That is
done, but for the parts named at the end.

## The dispatch queue: `DispatchStore`, `DispatchRunner`, `DispatchOperator`, `DispatchRuns`

Source: `packages/workbench/src/workbench-runtime.ts` (create, list, run-due,
cancel, retry and prune of dispatch runs, and the file helpers below them).

**State.** `intents`, `attempts`, `outputs` and `claims` are the directories of
the same names, one entry per path. A file is a record whose `status` is
`"absent"` where there is no file and `"torn"` while a file made by
`writeNewJsonFile` exists and is still empty; files written by
`writeJsonFileAtomic` change in one step. `runner[r]` is the local state of a
process in `runDueDispatchRuns` (its program counter, the time the run started,
the intents still to try, the intent snapshot, attempt and outcome in hand), and
`operator[o]` that of a create, cancel, retry or prune. `started`, `takenOver`
and `reached` are history that no action reads.

**Actions.** Every `await` of the code is a boundary between two actions:
`ClaimRead`, `ClaimCheckDue`, `OpenClaim`/`ClaimExists`, `ReadClaim`,
`RemoveExpiredClaim`, `ReopenClaim`/`ReclaimLost`, `WriteClaim`, `MarkRunning`
are `claimDispatchRunIntent`, and `WriteAttempt` ... `ReleaseClaim` the `try` and
`finally` of the run. A failed file operation inside the `try` is `TryFails`;
outside it there is no `finally`, so a failure there leaves what a `Crash`
leaves. `PruneClaim`, `PruneOutputs`, `PruneAttempts`, `PruneIntent` are the
removals of a prune in their order.

**Abstractions.** A listing is one step (each claim reads its intent again, so a
listing only narrows down what is tried); ties of `runAt` are broken either way
(`createdAt` is left out); the dependency files of one intent are read in one
step, which is exact for the instances, where an intent has at most one; two
different ids are two different files; a retry's read and its open are one step,
since what it copies (the dependencies) never changes; a lease is its expiry.
Targets are opaque: they return "completed" or "failed" at any later time.
A prune with `--dry-run` changes nothing and is not an action. The handoff and
prompt-queue filters of a run only narrow the list; they are in `HandoffQueue`.

**What the runs show.**

| run | instance | checks |
| --- | --- | --- |
| `dispatch_exclusion` | 1 intent, 2 runners, create and cancel, lease 1, clock to 2, one crash or failed write | `TypeOK`, `ClaimExclusion`, `NeverRequeued`, `FinalOnceQuiet` |
| `dispatch_results` | `DependentIntents`: 2 intents, the second may depend on the first, create and retry, 2 runners, clock to 1; or `PrunedIntent`: 1 intent, create and prune, retention 1, clock to 3; 6 attempts, no crash | `DependenciesReached`, `RecentResultHasEvidence` |
| `dispatch_liveness` | 1 intent, 2 runners, one crash, clock to 1, 6 attempts | `DueSettlesUnlessTorn` |
| `dispatch_once` | 1 intent, 2 runners, no crash, no expiry | `RunsAtMostOnce`, violated: see Findings |
| `dispatch_overlap` | 1 intent, 2 runners and one that died | `ClaimedOnceAcrossRunners`, violated: see Findings |

- `ClaimExclusion`: two runners are past the claim of one intent only if its claim
  was removed before by somebody else than its writer. The snapshots claims are
  made from may be as stale as they like.
- `NeverRequeued`, `FinalOnceQuiet`: no writer of an old snapshot puts an intent
  back to pending; and once an intent is terminal and every process that read it
  earlier has gone, nothing changes it but a prune.
- `DependenciesReached`: judged with the history `reached`, since the status of a
  dependency may be rewritten after it was looked at.
- `RecentResultHasEvidence`: attempt and output of a finished intent exist while
  it is inside the retention window, in spite of late writers and of prunes that
  started from an older listing.
- `DueSettlesUnlessTorn`: crash recovery through lease expiry. The exception is a
  claim file whose writer died between creating and writing it; no code removes it.

Two runners are enough for every race of the claim protocol, since a runner that
has died or given up starts again; a clock that reaches twice the lease lets a
claim be made, expire, be taken over and expire again; four attempts on one
intent are an original, a takeover and two late competitors. `MaxAttempts` binds
only `StartRun` (`AttemptsRemain`), so that no run is cut short in its middle.
The ends of the clock and of the attempts stop an instance, and commands and
runners are one-shot processes anyway: deadlock is not checked.

**Fairness.** `Fairness` is what a scheduler gives: run-due is called again and
again (`StartRun`, cron, a systemd timer or an Actions schedule in the
documentation), a process that has not died takes its next step, targets return,
commands that started go on, and time passes. Nothing is assumed of when an
operator gives a command or a process dies.

## The feed: `FeedStore`, `FeedIntake`, `FeedConsume`, `Feed`

Source: `packages/feed/src/index.ts` (`pollFeedSource`, `appendFeedItem`,
`collectFeedItems`, `dispatchFeedItems`, `advanceFeedCursor`, `pruneFeedItems`).

**State.** `published` is what the source has published, oldest first; `items` the
item files (absent, torn as above, or written, with `observedAt`); `checkpoint`
the etag on file, which is the number of entries the document had; `cursor` the
collect cursor, a pair of time and id. `poller`, `appender`, `consumer` and
`pruner` are the processes. `known`, `late`, `delivered` and `pruned` are history:
the items whose file was ever created, those created behind an item that sorts
after them, the successes of the target, the pruned ones.

**Actions.** A poll takes its time (`StartPoll`, which becomes `observedAt` of all
its items), reads the checkpoint, fetches (304, a document, an empty document or
an error), creates and fills one item file after the other or finds it there, and
writes the checkpoint: the new etag, or after a failure the old one. A consumer
reads the cursor, the directory and then the files; it advances and hands over
(`collect --advance`), or runs the target item by item and moves the cursor after
each success. A prune lists and removes file by file.

**Abstractions.** One source and one cursor per instance. Ids are numbers compared
as the hashed ids are; any order of them against publication occurs, because the
entries are published in any order. A document's entries are stored in any
order. Reading all files of a listing is one step, whose result is any part of
the written files when a file of the directory listing has gone (`ENOENT` ends
the list without an error), and an error when a file is empty. Parsing, HTTP
headers other than the etag, run records, disabled sources and the configuration
are left out; a target is opaque and succeeds or fails.

| run | instance | checks |
| --- | --- | --- |
| `feed_safety` | `DeliveryOfOnePoll`: 1 published and 1 appended item, 1 poll process, 2 consumers of which at most one collects with advance, 1 failure, clock to 1; or `IntakeAlone`: 2 entries, documents cut at 1, 2 overlapping polls, a prune, 1 failure | `PassedInOrderIsDelivered`, `CheckpointCoversDocument` |
| `feed_liveness` | 2 entries, 1 poll process, 1 dispatcher, 1 failure, 1 crash | `PublishedIsDelivered` |
| `feed_prune_skip` | 3 entries, a consumer and a prune | `PassedInOrderIsDelivered`, violated: see Findings |

`PassedInOrderIsDelivered` leaves out late items: a poll writes its items one
after the other under one time, and an item whose id is smaller than that of one
already delivered lies behind the cursor; the same happens to appends with an
earlier time. That is the code's behaviour, listed as a hazard; the property says
that nothing else is ever skipped, whatever two consumers do to one cursor. Two
items suffice for an order to be wrong, two consumers for a cursor to be moved
back under one of them.

**Fairness.** Polls and dispatches are scheduled again and again and go on while
they live; failures and crashes are bounded by the instance. Nothing makes the
source publish.

## The app-server transport: `StdioTransport`, `RpcCalls`

Source: `packages/bridge/src/app-server/stdio-transport.ts`.

**State.** `child`, `nextRequestId`, `pending` are the private fields; `armed` the
calls whose timer runs; `call` what has become of each call of `request`, with the
id and the server it went to. Outside the process: `server` (running, told to
terminate, dead with its event not yet handled, gone), `inbox` and `lines`, the
messages on its stdin and stdout. A message carries its id and what it is about,
so that a right id on a wrong answer can be told.

**Actions.** `Request`, `Notify` (also respond and respondError) and `Close` are
the methods, `ChildExit` the exit and error handlers, `HandleLine` and `Timeout`
the other callbacks; each runs to its end on one thread and is one step.
`ReadingStops` is a listener that throws and so ends `readLines`.
`ServerAnswers` and `ServerExits` are the app-server: it answers in any order,
late or never, and may exit at any time.

**Abstractions.** `#child` is reset in the same turn in which a child's exit code
is set, so `running` is the same as holding a child. Both handlers of an end of a
child do the same to the calls. A message that cannot be serialised, and errors on
stdin of a process that has died, are left out.

| run | instance | checks |
| --- | --- | --- |
| `sessions` (part `transport`) | 2 calls, 2 servers | `TransportTypeOK`, `AnswersItsOwnCall`, `WaitsForPresentServer`, `CallsEnd` |
| `transport_exit` | 2 calls, 2 servers | `ExitedIsItsServer`, violated: see Findings |

`CallsEnd` is the refinement: seen through `RpcState` (every kind of rejection is
"failed") the transport implements `RpcCalls`, in which a call is sent, answered
by a server, and ends exactly once; with liveness, under the fairness of timers
only, since nothing is asked of servers. Two servers are the one that is leaving
and its successor, and two calls one for each; what more calls and servers could
do is covered by the proofs.

## The workbench: what `MCWorkbench` checks

The run `workbench_safety` checks fifteen parts of thirteen components, one part in
each behaviour: `KitInstall` and `HandoffQueue` have two each. Every clock, crash, failed step and edit is bounded by a constant
of its own; the ends of these stop an instance, and every process here is a
command that ends as well: deadlock is not checked.

### `HandoffQueue`: prompts, handoffs and what is collected

Source: `wb` (`enqueuePromptQueueIntent`, `enqueueLocalHandoffIntent`,
`runDuePromptQueueIntents`, `drainLocalHandoffQueue`,
`materializeLocalHandoffIntent`, `retryDispatchRunIntent`, `collectDispatchRuns`,
`collectPromptQueueRuns`). Prompts and handoffs are intents of the dispatch queue
with a source that says where they belong. `intentFile` are the intents, `drain[d]`
the scheduled commands, each with fixed options (`ModeOf`), `collector[c]` the
processes of collect on one cursor file. `asked`, `ranBy`, `collected`,
`overlooked` and `unseen` are history.

A claim is three steps: the intent is read again and judged (`JudgeIntent`), its claim
file is opened and won or lost (`LoseClaim`, `ClaimIntent`), and it is written as
running, whatever it has become by then. Who wins is left open here, whoever else
holds the claim, so that every order `DispatchRunner` allows is allowed here; the files of
claims, and what is torn of them, are modelled there. The date of an end and its write
are two steps (`StampEnd`, `WriteEnd`), because collect passes over finished intents
by date: an end dated earlier and written later lies behind the cursor. A collector
lists the directory (`ListIntents`) and then reads one file after the other, in any
order (`ReadIntent`), while others write.
A drain that materializes creates a prompt and then ends the handoff; if it dies in
between, the prompt is created again by the next one. A retry copies the source of
the original, so that "pending again" does not mean "for anybody".

- `HandoffsAwaitTheirHost`: a handoff, and every retry of it, is run only by a
  drain of its queue, for its host, with the capabilities it needs.
- `PassedIsCollected`: two collectors on one cursor may set it back and repeat
  results, but whatever the cursor has passed went to a caller. There are three
  exceptions, and the code has them all: the end was written behind the cursor; the
  collector that held it died; or the end was written to a file that a collector had
  read already (or that was not there when it listed), and that collector then passed it
  for the later end of another file. The last is a skip without any crash or second
  collector: intent A is read while it runs, A ends, B ends later, B is read as ended,
  and the cursor goes to B. `unseen[c]` are these ends until collector `c` writes its
  cursor. The collectors of one cursor name one queue: a cursor shared by two queues,
  as the default cursor may be, passes what the other has ended.

That intents end at last is a question of claims: see `DueSettlesUnlessTorn`.

Bounds: two intents from two prompt queues and a handoff, a `run-due` and a
materializing drain, one crash (part `queue`). In the part `collect` the intents are
of the queue that is collected, one `run-due` wins its claims, a user may cancel the
last intent, and of the two collectors one may be slow or die: collection does not
depend on what ran an intent. Two collectors can set one cursor back; the lease of 1
lets an end be dated before and after a listing.

### `TurnRequest`: the options of a turn

Source: the parsers of `wb`, `materializeLocalHandoffIntent`,
`retryDispatchRunIntent`, `workflow.ts` (host parameters and defaults) and
`remote-workflow.ts` (thread/start and turn/start). A request goes from the caller
through parsing, storage, parsing on reading, materialization, a retry and the
defaults of a workflow to the two requests the app-server gets; an option is
absent, good, empty or of a wrong kind. The script of a workflow goes before the
target, the target before the command (a cwd), the command before the manifest, and
the root of the repository is the cwd if none of them has one.

`AcceptedIsTold`: what was accepted is what the app-server is told, in that order, and
what was stored can be read again. It names two differences between what was asked
and what is told. `skills`, an option of `context.turn.start` in
`docs/pages/primitives/workflow.md:137` and of manifests, is accepted and told to nobody.
And a turn of a workflow always has a cwd, though nobody may have asked for one.
Every subset of the usual options is asked with up to one odd value, and
retried once.

What the model shows beside this: sandbox beside permissions is accepted when
it is enqueued and always fails when the turn starts.

### `WorkbenchTasks`: task runs and health

Source: `wb` (`runTask`, `persistRun`, `writeHealth`, `consecutiveFailures`). A run
is a process that executes, writes its record (empty for a moment), reads all
records and writes the summary (empty for a moment). `healthRaced` is history: a
record appeared after another run had read the records. `QuietHealthMatchesRecords`:
when all runs have ended, the summary counts the failures that the records show,
unless just this happened or a write failed. Bounds: two runs of two tasks, one of
which keeps its latest record only; a clock of 1 gives the runs equal or different
times; one failed write.

### `ActionsJob`: the generated workflow

Source: `wb` (`scaffoldActionsWorkbench`, the YAML it writes, its `.gitignore`
entries), `packages/actions/src/actions.ts` (prepare-auth, cleanup). A job checks
out, writes `auth.json`, runs, cleans up whatever failed, commits and pushes. Files
are their kinds, by where they lie and what git and cleanup make of them; Codex may
write any kind into its home.

- `NothingPrivatePushed`: no credential and no database is pushed, though cleanup
  may fail; the exception is a database among the sessions, which are added by
  force, when it does fail.
- `ExecutedIsPushed`: what a job has executed is upstream for good when it ends,
  unless somebody else has pushed since its checkout or there is no memories
  directory, without which `git add` fails and the shell ends.

Bounds: two overlapping jobs, two pieces of work, two failing steps.

### `StateRoots`: where state is found again

Source: `wb` and `feed/src/index.ts` (root discovery, `ensureStateDirs`, actions
init). A command looks upwards for a configuration, then for a `.codex`, then takes
its own directory, and creates `.codex` where it settled. `StateIsFoundAgain`: a
tool finds from a directory the root it wrote to from there, unless a configuration
or a state was put at or above that directory on purpose. A chain of three
directories has one above and one below. A home directory with `~/.codex` is a root
in this sense for all directories below it that have none.

### `KitInstall`: installing a kit

Source: `packages/kits/src/kits.ts` (discovery, plan, apply, marketplace, lock). An
installer plans against the destinations of the moment, then item by item backs up,
removes and copies, then rewrites `marketplace.json` and `kit-lock.json` in place. Each
of the two is read, emptied and written in three steps, so that two installs can lose
each other's entries or tear the file, after which no plan succeeds. An item that lacks
its files is left out; one whose path leaves the kit, or whose plugin manifest is no
JSON, ends the command. Backups lie in a directory named by the millisecond of the plan,
which two plans may share: the second copies into what the first has saved (`Mixed`).
Users edit destinations, the setup skill retires itself, installers die. The copy of an
old `marketplace.json` that is put beside the backups is left out, since nothing reads
it.

- `ReplacedIsBackedUp`: whatever a user wrote before an install began and any install
  has taken away (`replaced`), be it one that died and was repeated or ran beside
  another, is still in a backup. The exceptions are what a user wrote while an install
  ran, and backups that plans of one millisecond share.
- `EndedInstallIsComplete`: an install that ends undisturbed has installed,
  registered and locked every item it did not skip, whatever an earlier one that
  died has left, and keeps all other lock entries.

Bounds: four installers. One overwrites, with two skills of one name of which the
first path wins; one adds, with an unfit and a good plugin; one overwrites the same
skill; the kit of the last cannot be read. In the part `kits` the first two and the
last run, with one edit and one crash; in the part `stamps` the two that overwrite
overlap, in one millisecond or in two.

### `WorkflowCatalog`: which workflow a name means

Source: `workflow.ts` (manifest paths, `listWorkflows`, `resolveWorkflowTarget`).
`loaded` is the loop over the places, one place at a time. `FirstManifestWins`: a name
means the first manifest that has it. The run tries every placement of manifests in two roots of two directories, with declared names, names
of directories and manifests that cannot be loaded (one of which ends the listing of
all).

### `WorkflowRun`: a script, its turns and its waits

Source: `workflow.ts`, `remote-workflow.ts`, `workflow-module-runner.ts`. The host
spawns a child, answers its calls, polls threads for turns, ends the child when its
time is over. App-server and turns are outside: a turn ends when it likes, a thread
can still be empty when it is first read.

- `WaitsTellTheTruth`: a wait returns for a turn that has ended, with its status,
  throws for a failed one if asked to, and is never out of time for a turn it has
  just seen the end of.
- `RunEnds` (run `sessions`): a run and every call of its script come to an end
  however long turns take, though the child may be gone.

Bounds: two turns, a time of 1 with a poll of 1 (2 with fairness), so that a
wait ends before, at and after the end of its turn; one empty read. Fairness
(`WorkflowFairness`): the timer fires, the signal ends the child, promises settle,
the app-server answers reads and time passes; not that a turn or a script ends. A
script that ignores SIGTERM is outside.

### `ThreadProgress`: the snapshot of a thread

Source: `packages/workbench/src/thread-workbench.ts`. The reducer is one action for
each notification (`Reduce`), applied to what an app-server may send in order, with
turns interrupted at any point; the consumer shows pending messages and marks them
later, while notifications go on. A text is the number of its deltas.

- `ShownIsWhole`: no message is shown in part and then taken for delivered.
- `EndedTurnIsSettled`: once a turn has ended, however it did, no turn is active, no
  command is running, and its summaries, its completed commentary and its last completed
  answer are ready. An agent message that was not completed when its turn ended (by an
  interrupt, say) is not shown then or later: `reduceCompletedTurn` does not look at
  `agentMessageBuffers`, where the property finds it whole.

What the model shows beside this: a turn that gives no answer of its own shows the
answer of the turn before it again.

Bounds: a turn that speaks, with two summaries, a commentary and answers of up to two
deltas each, and a turn after it that runs a command.

### `RolloutTransplant`, `MemoryTransplant`: moving files between homes

Source: `bridge/src/threads.ts`; `bridge/src/memories.ts`, `cli/memories.ts`. Both
look at files, decide, choose the name of a backup and replace in place, with every
`await` a boundary; threads and Codex go on writing, a second mover does the same, a
process dies within a copy and leaves part of it.

- `ReplacedRolloutSurvives`, `ReplacedMemorySurvives`: the last text that the target
  home's own threads or Codex wrote is in the file or in one of its backups. The
  exceptions, each of which the code has: it was written while its file was being
  replaced, or (memories) after it was planned as missing; it was replaced without a
  backup as asked; two movers took the same name for their backups, which two that
  look in the same instant do.

Bounds: one rollout of two lines with two movers, one of which keeps the directory
and one of which rewrites it, one crash; two memory files, one of which can be
merged, with two transplants, of which one may go without a plan, one own write;
two instants. What the models show beside this: a source that grows during a
preserved copy fails the check but leaves the destination replaced; when the
directory is rewritten, which is the default, size and hash are not checked; a
memory file torn by a crash is a conflict later, and is skipped.

### `FunctionsRuntime`: the module cache

Source: `packages/workbench/src/functions.ts`. A call finds a manifest, reads its
time, imports it under a URL with that time and validates it, while users write,
restore and remove manifests. `CallsRunTheCurrentManifest`: a call runs a version
that was there during the call, unless two versions had one time. Two calls, a
TypeScript manifest (which may be evaluated anew) and a JavaScript one, two edits,
two times. Modules that a manifest imports are not versioned at all and stay stale;
`timeoutMs` of a definition is read by nobody.

### `CommandArgs`, `CommandLine`: commands

Source: `cli/args.ts`, `cli/index.ts`, `cli/toybox.ts`, `packages/remote/src/*.ts`,
`dispatch-run-methods.ts`. `CommandArgs` is `parseArgs` as operators: the type of
command, the options it carries, what it refuses. `CommandLine` is one command: its
stages in `main` (`mainStages`), the toybox it starts here or over ssh, the request,
the wait for a turn, the close in `finally`, the exit code; what an operation does
is modelled by its component, here it is where it is done and with which options.

- `ExitTellsOutcome`: 0 means done, on the other machine with `--ssh`, and no failure
  of a turn waited for or of a feed target; a refused command has done nothing, but
  for `kit setup`, which installs before it looks at the options of its turn.
- `RoutesAgree`: an option a command knows reaches the operation over ssh as it does
  here, through the names of the request and what its method reads (of `turn run` and
  `kit setup`, what the requests of the turn and the installation take). Excepted are
  `cwd` and `target-cwd` of `prompt enqueue` and `handoff enqueue`, see Findings.
- `NoToyboxIsLeft`: whatever fails, a command that has ended leaves no toybox, but
  for a workflow whose sleeping wait opens one after the close (`lateLook`).
- `TargetCwdIsKept` (run `command_target_cwd`): violated, see Findings.

The instance has every word of every command, with each option and each pair of
options that it knows, with and without `--ssh`, and up to two positionals.

What the code does and the model keeps: a task that failed is a result of
`workbench run`, which exits 0, as does a wait for a turn that was interrupted; a
local `turn run` without `--wait` closes the toybox its turn runs in; the commands of
`threads`, `memories`, `kit`, `actions` and `init` ignore `--ssh`, and `workbench run`
is always carried out here.

## Sessions: what `MCSessions` checks

The run `sessions` has the components that talk to an app-server or run until
something ends, with fairness; as in `MCWorkbench` a behaviour is one of one part.
The parts exclude each other, so weak fairness of a disjunction of steps of
several parts is weak fairness of each of them: `PartsFairness` merges them to keep
the number of fairness conditions small. The two steps of one part that it merges
(`handleWaitAll`, `settleWaitAll`) follow each other and are never enabled at once.

| part | instance | checks |
| --- | --- | --- |
| `workflow` | 1 turn, time 2, poll 1, 1 empty read | `RunEnds` |
| `toybox` | 3 calls, 2 app-servers | `ServedAfterInitialize`, `LinesAreServed` |
| `login` | 2 logins, completions with and without an id | `WaitIsForItsLogin`, `SuccessIsNotLate`, `WaitsEnd` |
| `transport` | 2 calls, 2 servers | see above |

### `ToyboxSession`

Source: `cli/toybox.ts` (`serveToybox`), `toybox/src/server.ts`, `client.ts`,
`proxy/src/proxy.ts`, `bridge/src/app-server/client.ts`. The client sends
`toybox.initialize` with its first request and keeps that promise, even a rejected
one; the toybox connects before it reads a line and then handles one line after the
other; the app-server asks back, and the answer to a question is one more line.

- `ServedAfterInitialize`: no call reaches an app-server that was not initialized
  unless the one that was has exited: the transport starts a successor, and
  nothing initializes that one, so that its calls are refused.
- `LinesAreServed`: a call that waits for the answer to a question, which is a later
  line, holds up all lines, but not for good: its time limit (`callTimesOut`) brings
  the toybox back to its input. Fairness (`ToyboxFairness`): lines that have come are
  handled and the timers of the transport fire; nothing of the app-server.

One client on stdin is what the command line starts; several peers in one process
exist in tests only.

### `AuthLogin`

Source: `bridge/src/app-server/auth.ts`. A wait listens for completions, reads the
account at each, and ends with its own, with the timeout or with an error. An event
of a completion without an id settles every wait. `WaitIsForItsLogin` and
`SuccessIsNotLate` speak of the race between a success that is being read and the
timer; `WaitsEnd` needs only that the timer fires and reading ends
(`LoginFairness`), not that a user does anything.

## Findings

- `dispatch_once`: the documentation promises that one-shot intents run at most
  once. A claim judges the intent before it opens the claim file and not again:
  a runner that read the pending intent before another runner claimed, finished
  and released it opens the claim and runs the target again.
- `dispatch_overlap`: two runners that both read the same expired claim both
  remove the path; the second removes the fresh claim of the first, and both
  execute within their leases.
- `feed_prune_skip`: a file removed while a listing reads the directory ends the
  list there without an error; the cursor then passes the items not read.
- `transport_exit`: after `close()` and a new request, the exit of the old process
  rejects the calls that wait for the new one.
- `command_target_cwd`: the help says that `--target-cwd` is the directory of a
  queued turn; with `--ssh` the directory of the route replaces it.

## Proofs

All proofs hold for arbitrary constants that satisfy the named assumptions
(`DispatchConstants`, `TransportConstants`, `HandoffConstants`, ...). TLC checks the
same properties on the instances above.

- `DispatchRunsProofs`, `TypeCorrect`: every file and every process keeps the
  shape the code declares. Each action is a lemma; the claims of a runner name an
  attempt that exists, which is what keeps ids within their bound.
- `DispatchRunsProofs`, `DependenciesHold`: `DependenciesReached` speaks of the
  start of a target, but the dependencies were judged much earlier, on another
  file. `DependencyInv` carries the fact along: the present status of every intent is
  in the history `reached` (`RecordsReached`); a running intent has its dependencies
  reached (`RunningReached`), which is what a runner relies on that takes over an
  expired lease without looking again; so has the snapshot of every runner past its
  check (`SnapReached`); and what an operator will write is pending or canceled
  (`OperatorSnaps`), so that it makes no intent run.
- `DispatchRunsProofs`, `NothingIsRequeued`: no write of any process, from a snapshot
  of any age, makes a readable intent pending again.
- `DispatchRunsProofs`, `ClaimsExclude`: `ClaimExclusion` alone is not inductive,
  because a runner enters the claimed steps by creating a file and nothing in
  `ClaimExclusion` says that the others' file is still there. The invariant adds
  `ClaimHeld`: while an intent's claim was never taken away, a runner that works
  on it has its claim file on disk. Then `open` with "wx" fails for everybody else.
- `DispatchRunsProofs`, `RecentHasEvidence`: `RecentResultHasEvidence` must survive
  late runners and a prune whose removals come long after its listing. The invariant
  `EvidenceInv` follows each attempt. It is in the hand of one runner from its claim to
  its result (`HandsDiffer`) and `Used` from then on; an intent's result names one used
  attempt, and no other intent names it (`OneIntentEach`). Snapshots that are written
  back name none. A running attempt is written to by the runner that has it in hand; a
  prune has listed only attempts that are `Gone`: used, and of an intent older than
  the retention, which it stays because clocks only go forward (`OldStays`).
- `StdioTransportProofs`: `TransportInv` says that ids are counted and distinct,
  that `pending` holds exactly the open calls, each under its id and with a timer,
  that all of them went to the present child, and that a message carries the id of
  the call it is about. `AnswersItsOwnCall` and `WaitsForPresentServer` follow, and
  so does each step of `TransportImplementsRpcCalls`, the safety half of the
  refinement. Distinct ids are what makes late answers harmless: the mutant that
  counts ids per server breaks it.
- `FeedProofs`, `CheckpointCovers`: `IntakeInv` says, for every step of a poll, which
  of the etags it holds name a document whose entries were all taken in, and that
  what a poll still has to store is all that is missing from its own. Publishing
  changes no document that had an etag, and a prune takes nothing from the history.
- `FeedProofs`, `InOrderIsDelivered`: `Cleared(p)` says that a cursor may stand at `p`:
  every item created in order and not after `p` is delivered or in hand. It holds of
  the cursor and of the copy each consumer has read (`Started`); of the items a
  consumer works on it holds but for those items themselves (`Loaded`), because what
  was created after its directory listing sorts behind it (`Listing`) and a batch has
  no gap. The theorem assumes `Undisturbed`: no prune, one source, and no death of a
  process when some collect with advance. Each of these breaks the property in the
  code: a prune cuts a listing short (see Findings), consumers of two sources skip each
  other's items, and a collect that dies after it advanced has delivered nothing.
- `HandoffQueueProofs`, `HandoffsFindTheirHost`: `HandoffInv` says that the source on
  disk is the source first asked for (a retry hands both on, nothing rewrites
  them), so that what a drain has listed, claimed and run suited its options.
- `SessionProofs`: the waits of `AuthLogin` (`WaitsForItsLogin`, `SuccessStands`),
  whose invariant says what every completion a wait has heard of tells about its
  login; and `SessionsInitialize`, whose invariant says that nothing is sent while the
  toybox connects, that the first app-server is initialized from then on, and that
  there is no call in the input before the client knows the toybox to be ready.
- `DispatchRunsProofs`, `QuietIsFinal`: `FinalOnceQuiet` follows from `TypeCorrect`
  alone, once one looks at who has a quiet intent in hand: a runner is about to read
  it or has read it terminal (`HarmlessRunner`), an operator only prunes it. A process
  that takes it in hand begins so, and none of its steps leads out of it.
- `HandoffQueueProofs`, `PassedIsSeen`: the cursor on disk is not enough, because a
  collector writes a cursor that it computed before, from files it read one after the
  other. `CollectInv` says of every collector at work that each end at or behind the
  place it is going to write was collected, overlooked or written too late for it, is
  in its batch, or is in a file it has still to read.
- `WorkbenchProofs`, `HealthMatchesRecords`: `TaskInv` says that a record lies at the
  path of its own run (`Placed`), that, unless summaries overlapped, a run that has
  read the records has its own on disk and is going to write what they sum up to, and
  that a summary on disk that does not fit them has a run that has its own summary
  still before it. At rest there is no such run.
- `WorkbenchProofs`, `AcceptedRequestsAreTold`: `RequestInv` says that the stored
  target is what parsing takes of the options given (`TargetOf`), and what was taken
  once is taken again as it is (`TakenAgain`): so storing, reading, materializing
  and retrying change nothing, however often. The order script, target, command,
  manifest, root is that of the host's defaults, and the two differences that
  `AcceptedIsTold` names, the skills and the directory, are part of the theorem.
- `WorkbenchProofs`, `JobsKeepPrivate` and `JobsPushTheirWork`: `JobInv` says that
  `.gitignore` holds all private entries and databases, that what a job has committed
  is clean, that upstream is, and that a job that can still push (whose base is the
  head) has all the work that is upstream.
- `WorkbenchProofs`, `CallsRunTheirManifest`: `FunctionsInv` says that the history
  knows all versions with their times, that a call under way has seen what is there,
  and that a cached module is one of its file and time, so that unique times make it
  the current one.
- `HomeProofs`, `StateFound`: `RootInv` adds that a configuration lies in a
  `.codex`, and so does a state that was used, at or above the directory it was used
  from. A search upwards finds the innermost of a set, which exists for directories
  of any depth (`InnermostExists`).
- `HomeProofs`, `ReplacedHaveBackups` and `EndedInstallsAreComplete`: both follow from
  one invariant, `KitInv`. `SafeInv`: what a user had where somebody is about to replace
  it, and what was taken away already, has a backup, came after a plan, or has a backup
  that plans of one millisecond share. `DoneInv`: what an install that nobody disturbed
  has done so far, said for every item and every step (`DoneAt`); the second theorem is
  its last step. `StampInv`: a backup that is there was made by a plan that has its
  millisecond, and a plan that shares it with none has not yet made one of an item it
  has still to do.
- `HomeProofs`, `ReplacedRolloutIsKept`: the property is broken between the copy and
  the rename if the copy's name is taken by another mover. `RolloutInv` says that a name
  taken is free or shared, that a copy in the making is this mover's or shared, and
  that who is about to rewrite a file has copied it away.
- `HomeProofs`, `ReplacedMemoryIsKept`: names come from the clock here. `MemoryInv` says
  that every copy has an owner whose plan has its stamp, so that a copy that exists
  already shows two plans of one instant; that who overwrites a file has copied it; and
  that a file planned as missing that is there came too late.
- `TurnProofs`, `WaitsAreTrue`: `WorkflowInv` says that an end a wait has seen is the
  end its turn has (`WaitTold`; an end never changes), that a wait timed out only with
  no time left and no end seen, and that `waitAll` answers when all its waits ended.
- `TurnProofs`, `FirstManifestIsMeant`: the theorem is about what a recursion yields, for
  any number of places. The induction theorems of the library cannot be instantiated, so
  the induction is by a least place where a claim fails (`LeastPlace`, from the well
  foundedness of the naturals): that the function `loaded` exists (`LoadsExist`), and
  that up to every place it holds the manifests that are the first of their name
  (`LoadedAreFirst`).
- `TurnProofs`, `ShownTextsAreWhole` and `EndedTurnsAreSettled`: `ThreadInv` relates the
  buffers to what was said. A text that is ready is all that was said; while it is not
  ready, the buffer of its kind holds it. The end of a turn makes the summaries ready and
  leaves the buffers of agent messages: so the theorem says of a message that was not
  completed that its buffer is whole, and of nothing that it is shown.
- `TurnProofs`, `ExitCodesTellOutcomes`, `RoutesAgreeOnOptions` and `ToyboxesAreClosed`:
  the state of a command is the list of steps still before it. `Fits` says that this
  list is in order, so that a close follows every open (lemmas about the tail and the
  concatenation of ordered lists take the place of an induction over plans); `BoxInv`,
  `EndInv` and `CarriedInv` say where it is with its toybox, its outcome and its
  options.

The assumptions say what a constant stands for: that a set is finite where its
elements are counted (`TaskConstants`), that turns and parts are numbered from the
first on (`ThreadConstants`), that a bound is a number, and that the value for an
absent file is not a record (`NoneIsARecord`). TLC evaluates them in the runs.

## Checked only on instances

The liveness properties (`DueSettlesUnlessTorn`, `PublishedIsDelivered`,
`RunEnds`, `LinesAreServed`, `WaitsEnd`, the liveness half of
`CallsEnd`): fairness and ENABLED are beyond the prover. Every invariant and every
action property of the passing runs is proved, `PassedInOrderIsDelivered` on the
condition `Undisturbed` above. No module has a recursive operator; `loaded` is the only
recursive function.

## Not modelled

- Reports over files of other components: overviews, doctors, status and preflight of
  a remote host, account and usage of a login.
- Formatting and parsing: help and output, XML and JSON of feeds, the configuration
  files, sessions and summaries of rollouts; a value is good, empty or wrong.
- `fetch`, the MCP server, the clone of a kit from git, routing, static files and CORS
  headers of the proxy: one call, or pure functions, without state of their own.
- The text of copied memories (a database is left out of them, texts are searched) and
  what a merge by `codex exec` writes: it is another text.
- Several peers of one toybox: nothing but tests starts such a process. Goals, plan
  steps and activity entries of a thread's snapshot: copied as they come.
- Generated protocol types, documentation, evals, example workflows and containers.
