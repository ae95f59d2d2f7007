------------------------------ MODULE FeedStore ------------------------------
(***************************************************************************)
(* The feed directory of a workbench: one JSON file per item, the HTTP     *)
(* checkpoint of a source and the collect cursor of a consumer group,      *)
(* shared by polls, appends, collects, dispatches and prunes, which are    *)
(* separate processes without a lock.                                      *)
(*                                                                         *)
(* Item ids are hashes: any order relates them to the order of             *)
(* publication.  Here they are numbers, compared as the ids are.           *)
(***************************************************************************)
EXTENDS Integers, Sequences, FiniteSets, SequencesExt, FiniteSetsExt

CONSTANTS
  FeedItems,       \* ids of the entries the source publishes
  AppendItems,     \* ids of the items that are appended by hand
  Pollers,         \* processes in pollFeedSource
  Appenders,       \* processes in appendFeedItem
  Consumers,       \* processes in dispatchFeedItems or collectFeedItems
  Pruners,         \* processes in pruneFeedItems
  MaxItems,        \* max_items of the source (1: latest_only)
  Filters,         \* for each source consumers ask for, its items
  Limit,           \* the limit option of a dispatch
  Advances         \* consumers dispatch (FALSE), or collect with advance (TRUE)

CONSTANTS          \* bounds of the checked instances
  MaxClock,        \* the clock stops here
  MaxFailures,     \* fetches and targets that fail
  MaxCrashes       \* processes that die

ASSUME FeedConstants ==
  /\ FeedItems \subseteq Nat /\ AppendItems \subseteq Nat
  /\ IsFiniteSet(FeedItems) /\ IsFiniteSet(AppendItems)
  /\ FeedItems \cap AppendItems = {}
  /\ Filters \subseteq SUBSET (FeedItems \cup AppendItems)
  /\ MaxItems \in Nat \ {0} /\ Limit \in Nat \ {0}
  /\ Advances \subseteq BOOLEAN
  /\ MaxClock \in Nat /\ MaxFailures \in Nat /\ MaxCrashes \in Nat

VARIABLES
  clock,           \* new Date() everywhere
  failures, crashes, \* counted for their bounds
  published,       \* the entries of the source, oldest first
  items,           \* items/<id>.json
  checkpoint,      \* sources/<source>.json, reduced to its etag
  cursor           \* collect-cursors/<cursor>.json

VARIABLES poller, appender, consumer, pruner \* the processes

(***************************************************************************)
(* History, read by no action: the ids whose file was ever created; those  *)
(* created behind an item that was already there; the target's successes   *)
(* for each item; and the pruned ones.                                     *)
(***************************************************************************)
VARIABLES known, late, delivered, pruned

envVars == <<clock, failures, crashes>>
fileVars == <<items, checkpoint, cursor>>
processVars == <<poller, appender, consumer, pruner>>
historyVars == <<known, late, delivered, pruned>>
vars == <<envVars, published, fileVars, processVars, historyVars>>

Clock == 0 .. MaxClock
ItemIds == FeedItems \cup AppendItems
NoItem == -1

(* How often a target succeeded for an item: never, once, more than once.  *)
Deliveries == 0 .. 2

----------------------------------------------------------------------------
Item == [status : {"absent", "torn", "written"}, observedAt : Clock]
NoFile == [status |-> "absent", observedAt |-> 0]

(* A place in the order of collection: the time an item was observed, then *)
(* its id.  The cursor is the place of the last item collected, or none.   *)
Place == [observedAt : Clock, id : ItemIds]
NoPlace == [observedAt |-> 0, id |-> NoItem]
PlaceOf(i) == [observedAt |-> items[i].observedAt, id |-> i]

(* Mutant of After: items observed at the same time are not told apart.    *)
AfterTime(q, p) == p = NoPlace \/ q.observedAt > p.observedAt

(* compareFeedItems, and isAfterCursor for the cursor p.                   *)
After(q, p) ==
  \/ p = NoPlace
  \/ q.observedAt > p.observedAt
  \/ q.observedAt = p.observedAt /\ q.id > p.id

(* The etag of the document the source serves after n publications is n;   *)
(* no checkpoint, or one without an etag, has etag 0.                      *)
Etags == 0 .. Cardinality(FeedItems)

(* limitFeedItems: of a longer document, the newest MaxItems entries.      *)
limitFeedItems(doc) ==
  IF Len(doc) <= MaxItems THEN Range(doc)
  ELSE Range(SubSeq(doc, Len(doc) - MaxItems + 1, Len(doc)))

Written == {i \in ItemIds : items[i].status = "written"}
Existing == {i \in ItemIds : items[i].status # "absent"}

TypeOK ==
  /\ clock \in Clock /\ failures \in 0 .. MaxFailures /\ crashes \in 0 .. MaxCrashes
  /\ published \in Seq(FeedItems)
  /\ items \in [ItemIds -> Item]
  /\ checkpoint \in Etags
  /\ cursor \in Place \cup {NoPlace}
  /\ known \subseteq ItemIds /\ late \subseteq known /\ pruned \subseteq known
  /\ delivered \in [ItemIds -> Deliveries]

InitStore ==
  /\ clock = 0 /\ failures = 0 /\ crashes = 0
  /\ published = <<>>
  /\ items = [i \in ItemIds |-> NoFile]
  /\ checkpoint = 0
  /\ cursor = NoPlace
  /\ known = {} /\ late = {} /\ pruned = {}
  /\ delivered = [i \in ItemIds |-> 0]

----------------------------------------------------------------------------
(***************************************************************************)
(* writeNewJsonFile: open(path, "wx"), then the content.  An item is late  *)
(* when an item that sorts after it has been created before it.            *)
(***************************************************************************)
CreateItem(i, observedAt) ==
  /\ items[i].status = "absent"
  /\ items' = [items EXCEPT ![i] = [status |-> "torn", observedAt |-> observedAt]]
  /\ known' = known \cup {i}
  /\ late' = IF \E j \in Existing : After(PlaceOf(j), [observedAt |-> observedAt, id |-> i])
             THEN late \cup {i} ELSE late
  /\ UNCHANGED <<checkpoint, cursor, delivered, pruned>>

(* The content goes to the file the handle was opened on.                  *)
FillItem(i) ==
  /\ items' = IF items[i].status = "torn" THEN [items EXCEPT ![i].status = "written"] ELSE items
  /\ UNCHANGED <<checkpoint, cursor, historyVars>>

(***************************************************************************)
(* listFeedItems reads the files `names` of the directory one after the    *)
(* other.  One that was removed since ends the list there, without an      *)
(* error, and in directory order that may be anywhere; an empty one makes  *)
(* the whole list throw.                                                   *)
(***************************************************************************)
listFeedItems(names, listed) ==
  IF names \subseteq Existing
  THEN names \subseteq Written /\ listed = names
  ELSE listed \subseteq names \cap Written

ListFails(names) == \E i \in names : items[i].status = "torn"

TimePasses ==
  /\ clock < MaxClock
  /\ clock' = clock + 1
  /\ UNCHANGED <<failures, crashes, published, fileVars, processVars, historyVars>>

(* The source publishes another entry.                                     *)
Publish ==
  /\ \E i \in FeedItems \ Range(published) : published' = Append(published, i)
  /\ UNCHANGED <<envVars, fileVars, processVars, historyVars>>

Fails == failures < MaxFailures /\ failures' = failures + 1 /\ UNCHANGED <<clock, crashes>>
Dies == crashes < MaxCrashes /\ crashes' = crashes + 1 /\ UNCHANGED <<clock, failures>>

=============================================================================
