----------------------------- MODULE HandoffQueue -----------------------------
(***************************************************************************)
(* The queues over the dispatch directory: prompts and local handoffs, the *)
(* commands that run them, and the collection of what has ended.           *)
(*                                                                         *)
(* What counts here is which command may take an intent, and whether       *)
(* whoever collects sees its end.  The claim files are DispatchRunner's:   *)
(* here a command that tries to open one may win it or lose it, whoever    *)
(* else may hold it.                                                       *)
(***************************************************************************)
EXTENDS Naturals, FiniteSets

CONSTANTS
  IntentIds,      \* numbers, compared as the ids are
  NoIntent,
  Sources,        \* what is enqueued: some of QueueSource
  LocalController,\* the host of a handoff that names none
  AnyQueue,       \* no queue filter
  Drains,         \* the scheduled commands, each with its options:
  ModeOf,         \* [command, queue, promptQueue, hostId, capabilities]
  Collectors,     \* processes of "prompt collect", on one cursor,
  CollectQueue,   \* and the queue they name
  QueueLease,     \* leaseMs
  QueueClock,     \* bound: the time after which no process dies
  DrainCrashes    \* bound

ASSUME HandoffConstants ==
  /\ IntentIds \subseteq Nat \ {0} /\ NoIntent \notin IntentIds
  /\ QueueLease \in Nat \ {0} /\ QueueClock \in Nat /\ DrainCrashes \in Nat

VARIABLES
  intentFile,     \* the intents on disk
  drain,          \* the processes of run-due, prompt run and handoff drain
  collector,      \* the processes of collect
  collectCursor,  \* the place of the last intent collected
  queueNow, drainDeaths,
  asked,          \* history: the source first enqueued, kept over retries
  ranBy,          \* history: the commands that executed an intent
  collected,      \* history: places handed to a caller of collect
  overlooked,     \* history: places written behind the cursor, passed though some
                  \* collector could not see them, or lost with a collector
  unseen          \* history: for a collector, the places written too late for it

queueVars == <<intentFile, drain, collector, collectCursor, queueNow, drainDeaths,
               asked, ranBy, collected, overlooked, unseen>>
drainHistory == <<asked, ranBy>>
collectHistory == <<collected, overlooked, unseen>>
missHistory == <<overlooked, unseen>>

QueueTime == 0 .. QueueClock + QueueLease
Ended == {"completed", "failed", "canceled"}

(* The source of an intent says how it was enqueued.                       *)
promptQueueSource(queue) ==
  [kind |-> "prompt-queue", queue |-> queue, host |-> LocalController, needs |-> {}]

localHandoffSource(queue, host, needs) ==
  [kind |-> "local-handoff", queue |-> queue, host |-> host, needs |-> needs]

(* Times and ids, ordered as updatedAt and id are.                         *)
QueuePlace == QueueTime \X (IntentIds \cup {0})

isAfterDispatchRunCollectCursor(place, cursor) ==
  \/ place[1] > cursor[1]
  \/ place[1] = cursor[1] /\ place[2] > cursor[2]

QueueIntent == [status : {"absent", "pending", "running"} \cup Ended,
                source : Sources, updatedAt : QueueTime,
                expires : 0 .. QueueClock + 2 * QueueLease]
PlaceOfIntent(i) == <<intentFile[i].updatedAt, i>>
HasEnded(i) == intentFile[i].status \in Ended

DrainState == [pc : {"idle", "claim", "open", "run", "stamp", "write"}, now : QueueTime,
               todo : SUBSET IntentIds, cur : IntentIds \cup {NoIntent},
               status : Ended, at : QueueTime]
IdleDrain == [pc |-> "idle", now |-> 0, todo |-> {}, cur |-> NoIntent,
              status |-> "failed", at |-> 0]

CollectorState == [pc : {"idle", "list", "read", "return"}, prev : QueuePlace,
                   unread : SUBSET IntentIds, batch : SUBSET QueuePlace]
IdleCollector == [pc |-> "idle", prev |-> <<0, 0>>, unread |-> {}, batch |-> {}]

QueueTypeOK ==
  /\ intentFile \in [IntentIds -> QueueIntent]
  /\ drain \in [Drains -> DrainState]
  /\ collector \in [Collectors -> CollectorState]
  /\ collectCursor \in QueuePlace
  /\ asked \in [IntentIds -> Sources]
  /\ queueNow \in QueueTime

QueueInit ==
  /\ \E s \in Sources :
       /\ intentFile = [i \in IntentIds |-> [status |-> "absent", source |-> s,
                                             updatedAt |-> 0, expires |-> 0]]
       /\ asked = [i \in IntentIds |-> s]
  /\ drain = [d \in Drains |-> IdleDrain]
  /\ collector = [c \in Collectors |-> IdleCollector]
  /\ collectCursor = <<0, 0>>
  /\ queueNow = 0 /\ drainDeaths = 0
  /\ ranBy = [i \in IntentIds |-> {}]
  /\ collected = {} /\ overlooked = {} /\ unseen = [c \in Collectors |-> {}]

----------------------------------------------------------------------------
(* What a collector will write: its last place, or the cursor it has read. *)
LastPlace(c) ==
  IF collector[c].batch = {} THEN collector[c].prev
  ELSE CHOOSE p \in collector[c].batch :
         \A q \in collector[c].batch : ~isAfterDispatchRunCollectCursor(q, p)

(* A collector at work that will not see what is written to i now: it has  *)
(* read the file, or listed the directory before it was there, or takes it *)
(* for collected.                                                          *)
Misses(c, i, place) ==
  \/ collector[c].pc = "read" /\ i \notin collector[c].unread
  \/ /\ collector[c].pc \in {"list", "read"}
     /\ ~isAfterDispatchRunCollectCursor(place, collector[c].prev)

(* Writes intent i with a terminal status and the given updatedAt.         *)
PutEnd(i, status, at) ==
  /\ intentFile' = [intentFile EXCEPT ![i].status = status, ![i].updatedAt = at]
  /\ overlooked' = IF isAfterDispatchRunCollectCursor(<<at, i>>, collectCursor) THEN overlooked
                   ELSE overlooked \cup {<<at, i>>}
  /\ unseen' = [c \in Collectors |-> IF Misses(c, i, <<at, i>>) THEN unseen[c] \cup {<<at, i>>}
                                     ELSE unseen[c]]

(* createDispatchRunIntent: "wx", so that an id in use is an error.        *)
createQueueIntent(i, source, origin) ==
  /\ intentFile[i].status = "absent"
  /\ intentFile' = [intentFile EXCEPT ![i] =
       [status |-> "pending", source |-> source, updatedAt |-> queueNow, expires |-> 0]]
  /\ asked' = [asked EXCEPT ![i] = origin]

enqueuePromptQueueIntent(i, source) ==
  /\ source.kind = "prompt-queue"
  /\ createQueueIntent(i, source, source)
  /\ UNCHANGED <<drain, collector, collectCursor, queueNow, drainDeaths, ranBy, collectHistory>>

enqueueLocalHandoffIntent(i, source) ==
  /\ source.kind = "local-handoff"
  /\ createQueueIntent(i, source, source)
  /\ UNCHANGED <<drain, collector, collectCursor, queueNow, drainDeaths, ranBy, collectHistory>>

isPromptQueueIntent(source, queue) ==
  source.kind = "prompt-queue" /\ queue \in {AnyQueue, source.queue}

(* A handoff to the local controller suits every host, and a drain without *)
(* a host id takes no other.                                               *)
isLocalHandoffIntent(source, mode) ==
  /\ source.kind = "local-handoff"
  /\ mode.queue \in {AnyQueue, source.queue}
  /\ source.host \in {LocalController, mode.hostId}
  /\ source.needs \subseteq mode.capabilities

(* What the commands take; run-due without includeLocalHandoffs takes all  *)
(* but handoffs.                                                           *)
runDuePromptQueueIntents(mode, source) ==
  mode.command = "prompts" /\ isPromptQueueIntent(source, mode.queue)

drainLocalHandoffQueue(mode, source) ==
  mode.command \in {"drain", "materialize"} /\ isLocalHandoffIntent(source, mode)

Selects(mode, source) ==
  \/ mode.command = "run-due" /\ source.kind # "local-handoff"
  \/ runDuePromptQueueIntents(mode, source)
  \/ drainLocalHandoffQueue(mode, source)

(* ready: the intents whose runAt has come and whose dependencies are as   *)
(* they should be (DispatchRunner has both).  Of a running one the lease   *)
(* is looked at only.                                                      *)
IsDue(i, now, ready) ==
  \/ intentFile[i].status = "pending" /\ i \in ready
  \/ intentFile[i].status = "running" /\ intentFile[i].expires <= now

DrainStep(d, from, to) ==
  /\ drain[d].pc = from
  /\ drain' = [drain EXCEPT ![d] = to]
  /\ UNCHANGED <<collector, collectCursor, queueNow, collected>>

(* What is listed is due, at most limit of it.                             *)
StartDrain(d) ==
  /\ \E due \in SUBSET {i \in IntentIds : IsDue(i, queueNow, IntentIds)} :
       DrainStep(d, "idle", [IdleDrain EXCEPT !.pc = "claim", !.now = queueNow,
         !.todo = {i \in due : Selects(ModeOf[d], intentFile[i].source)}])
  /\ drain'[d].todo # {}
  /\ UNCHANGED <<intentFile, drainDeaths, drainHistory, missHistory>>

(* claimDispatchRunIntent reads the intent again.                          *)
JudgeIntent(d) ==
  /\ \E i \in drain[d].todo :
       /\ IsDue(i, drain[d].now, IntentIds)
       /\ DrainStep(d, "claim", [drain[d] EXCEPT !.pc = "open", !.cur = i, !.todo = @ \ {i}])
  /\ UNCHANGED <<intentFile, drainDeaths, drainHistory, missHistory>>

SkipIntent(d) ==
  /\ \E i \in drain[d].todo :
       /\ ~IsDue(i, drain[d].now, {})
       /\ DrainStep(d, "claim", [drain[d] EXCEPT !.todo = @ \ {i}])
  /\ UNCHANGED <<intentFile, drainDeaths, drainHistory, missHistory>>

(* The claim file is another's, or was left torn.                          *)
LoseClaim(d) ==
  /\ DrainStep(d, "open", [drain[d] EXCEPT !.pc = "claim", !.cur = NoIntent])
  /\ UNCHANGED <<intentFile, drainDeaths, drainHistory, missHistory>>

(* It is this command's: the intent as it was read is written as running,  *)
(* whatever it is now; the lease counts from the start of the command.     *)
ClaimIntent(d) ==
  /\ DrainStep(d, "open", [drain[d] EXCEPT !.pc = "run"])
  /\ intentFile' = [intentFile EXCEPT ![drain[d].cur].status = "running",
       ![drain[d].cur].updatedAt = drain[d].now, ![drain[d].cur].expires = drain[d].now + QueueLease]
  /\ UNCHANGED <<drainDeaths, drainHistory, missHistory>>

(* A turn, a workflow or a task with any outcome, or an enqueue that fails. *)
executeDispatchRunTarget(d) ==
  /\ \E status \in {"completed", "failed"} :
       /\ ModeOf[d].command = "materialize" => status = "failed"
       /\ DrainStep(d, "run", [drain[d] EXCEPT !.pc = "stamp", !.status = status])
  /\ ranBy' = [ranBy EXCEPT ![drain[d].cur] = @ \cup {d}]
  /\ UNCHANGED <<intentFile, drainDeaths, asked, missHistory>>

(* A drain that materializes enqueues the prompt under a new id.           *)
materializeLocalHandoffIntent(d) ==
  LET handoff == intentFile[drain[d].cur].source IN
  /\ ModeOf[d].command = "materialize"
  /\ DrainStep(d, "run", [drain[d] EXCEPT !.pc = "stamp", !.status = "completed"])
  /\ \E i \in IntentIds, prompt \in Sources :
       /\ prompt.kind = "prompt-queue"
       /\ prompt.queue = IF ModeOf[d].promptQueue = AnyQueue THEN handoff.queue
                         ELSE ModeOf[d].promptQueue
       /\ createQueueIntent(i, prompt, prompt)
  /\ ranBy' = [ranBy EXCEPT ![drain[d].cur] = @ \cup {d}]
  /\ UNCHANGED <<drainDeaths, missHistory>>

(* The end is dated, then attempt and intent are written.                  *)
StampEnd(d) ==
  /\ DrainStep(d, "stamp", [drain[d] EXCEPT !.pc = "write", !.at = queueNow])
  /\ UNCHANGED <<intentFile, drainDeaths, drainHistory, missHistory>>

WriteEnd(d) ==
  /\ DrainStep(d, "write", [drain[d] EXCEPT !.pc = "claim", !.cur = NoIntent])
  /\ PutEnd(drain[d].cur, drain[d].status, drain[d].at)
  /\ UNCHANGED <<drainDeaths, drainHistory>>

FinishDrain(d) ==
  /\ drain[d].todo = {}
  /\ DrainStep(d, "claim", IdleDrain)
  /\ UNCHANGED <<intentFile, drainDeaths, drainHistory, missHistory>>

DrainDies(d) ==
  /\ drainDeaths < DrainCrashes /\ drain[d].now <= QueueClock
  /\ drain[d].pc # "idle" /\ DrainStep(d, drain[d].pc, IdleDrain)
  /\ drainDeaths' = drainDeaths + 1
  /\ UNCHANGED <<intentFile, drainHistory, missHistory>>

----------------------------------------------------------------------------
CancelIntent(i) ==
  /\ intentFile[i].status = "pending"
  /\ PutEnd(i, "canceled", queueNow)
  /\ UNCHANGED <<drain, collector, collectCursor, queueNow, drainDeaths, drainHistory, collected>>

(* Mutant of retryDispatchRunSource: the retry states its own kind.        *)
retrySourceIsRetry(source) == [source EXCEPT !.kind = "dispatch-retry"]

(* The kind of the original source wins; "dispatch-retry" is for intents   *)
(* without one, which no filter tells from other plain intents.            *)
retryDispatchRunSource(source) == source

RetryIntent(i, j) ==
  /\ HasEnded(i)
  /\ createQueueIntent(j, retryDispatchRunSource(intentFile[i].source), asked[i])
  /\ UNCHANGED <<drain, collector, collectCursor, queueNow, drainDeaths, ranBy, collectHistory>>

----------------------------------------------------------------------------
(* collectDispatchRuns: read the cursor, list the directory, read one file *)
(* after the other, write the cursor, return the intents.                  *)
CollectStep(c, from, to) ==
  /\ collector[c].pc = from
  /\ collector' = [collector EXCEPT ![c] = to]
  /\ UNCHANGED <<intentFile, drain, queueNow, drainHistory>>

ReadCollectCursor(c) ==
  /\ CollectStep(c, "idle", [IdleCollector EXCEPT !.pc = "list", !.prev = collectCursor])
  /\ UNCHANGED <<collectCursor, drainDeaths, collectHistory>>

(* readdir, in any order.  (The listing is cut to 500 intents; the bounds  *)
(* of the instances stay below.)                                           *)
ListIntents(c) ==
  /\ CollectStep(c, "list", [collector[c] EXCEPT !.pc = "read",
       !.unread = {i \in IntentIds : intentFile[i].status # "absent"}])
  /\ UNCHANGED <<collectCursor, drainDeaths, collectHistory>>

(* The collectors of one cursor name one queue; a cursor that serves two,  *)
(* as the default one may, passes what the other has ended.                *)
collectPromptQueueRuns == {i \in IntentIds : isPromptQueueIntent(intentFile[i].source, CollectQueue)}

Collects(c, i) ==
  /\ HasEnded(i) /\ i \in collectPromptQueueRuns
  /\ isAfterDispatchRunCollectCursor(PlaceOfIntent(i), collector[c].prev)

ReadIntent(c) ==
  /\ \E i \in collector[c].unread :
       CollectStep(c, "read", [collector[c] EXCEPT !.unread = @ \ {i},
         !.batch = @ \cup {PlaceOfIntent(j) : j \in {k \in {i} : Collects(c, k)}}])
  /\ UNCHANGED <<collectCursor, drainDeaths, collectHistory>>

(* What the cursor passes with a place that was written too late for this  *)
(* collector counts as overlooked.                                         *)
PassTo(c, place) ==
  /\ collectCursor' = place
  /\ overlooked' = overlooked \cup {p \in unseen[c] : ~isAfterDispatchRunCollectCursor(p, LastPlace(c))}
  /\ unseen' = [unseen EXCEPT ![c] = {}]

(* Mutant of WriteCollectCursor: the time of the collection is kept.       *)
WriteCollectTime(c) ==
  /\ collector[c].unread = {}
  /\ CollectStep(c, "read", [collector[c] EXCEPT !.pc = "return"])
  /\ PassTo(c, <<queueNow, LastPlace(c)[2]>>)
  /\ UNCHANGED <<drainDeaths, collected>>

WriteCollectCursor(c) ==
  /\ collector[c].unread = {}
  /\ CollectStep(c, "read", [collector[c] EXCEPT !.pc = "return"])
  /\ PassTo(c, LastPlace(c))
  /\ UNCHANGED <<drainDeaths, collected>>

ReturnCollected(c) ==
  /\ CollectStep(c, "return", IdleCollector)
  /\ collected' = collected \cup collector[c].batch
  /\ UNCHANGED <<collectCursor, drainDeaths, missHistory>>

CollectorDies(c) ==
  /\ drainDeaths < DrainCrashes
  /\ collector[c].pc # "idle" /\ CollectStep(c, collector[c].pc, IdleCollector)
  /\ drainDeaths' = drainDeaths + 1
  /\ overlooked' = IF collector[c].pc = "return" THEN overlooked \cup collector[c].batch
                   ELSE overlooked
  /\ unseen' = [unseen EXCEPT ![c] = {}]
  /\ UNCHANGED <<collectCursor, collected>>

QueueTimePasses ==
  /\ queueNow < QueueClock + QueueLease
  /\ queueNow' = queueNow + 1
  /\ UNCHANGED <<intentFile, drain, collector, collectCursor, drainDeaths, drainHistory, collectHistory>>

DrainSteps(d) ==
  \/ StartDrain(d) \/ JudgeIntent(d) \/ SkipIntent(d) \/ LoseClaim(d) \/ ClaimIntent(d)
  \/ executeDispatchRunTarget(d)
  \/ materializeLocalHandoffIntent(d) \/ StampEnd(d) \/ WriteEnd(d) \/ FinishDrain(d)

CollectSteps(c) ==
  \/ ReadCollectCursor(c) \/ ListIntents(c) \/ ReadIntent(c)
  \/ WriteCollectCursor(c) \/ ReturnCollected(c)

QueueNext ==
  \/ \E i \in IntentIds, s \in Sources :
       enqueuePromptQueueIntent(i, s) \/ enqueueLocalHandoffIntent(i, s)
  \/ \E i \in IntentIds : CancelIntent(i)
  \/ \E i, j \in IntentIds : RetryIntent(i, j)
  \/ \E d \in Drains : DrainSteps(d) \/ DrainDies(d)
  \/ \E c \in Collectors : CollectSteps(c) \/ CollectorDies(c)
  \/ QueueTimePasses

QueueSpec == QueueInit /\ [][QueueNext]_queueVars

----------------------------------------------------------------------------
(***************************************************************************)
(* "Generic drains skip" handoffs: what was handed off is executed only by *)
(* a drain of its queue, for its host and with the capabilities it needs,  *)
(* and so is every retry of it.                                            *)
(***************************************************************************)
HandoffsAwaitTheirHost ==
  \A i \in IntentIds : asked[i].kind = "local-handoff" =>
    \A d \in ranBy[i] : isLocalHandoffIntent(asked[i], ModeOf[d])

(***************************************************************************)
(* What the collect cursor has passed of its queue was handed to a caller  *)
(* of collect, or is about to be.  Excepted is what the code does lose: an *)
(* end that was written behind the cursor, the results of a collector that *)
(* died, and an end written while a collector was reading the files one by *)
(* one, to a file it had read already, when it went on to pass that end    *)
(* for a later one.  But two collectors on one cursor, who may set it back *)
(* and repeat results, lose no more than one of them does.                 *)
(***************************************************************************)
PassedIsCollected ==
  \A i \in collectPromptQueueRuns :
    HasEnded(i) /\ ~isAfterDispatchRunCollectCursor(PlaceOfIntent(i), collectCursor) =>
      \/ PlaceOfIntent(i) \in collected \cup overlooked
      \/ \E c \in Collectors : collector[c].pc = "return" /\ PlaceOfIntent(i) \in collector[c].batch

=============================================================================
