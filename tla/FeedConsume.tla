------------------------------ MODULE FeedConsume ------------------------------
(***************************************************************************)
(* Consumption: dispatchFeedItems (which collects without advancing, runs  *)
(* the target for each item and acknowledges it), collectFeedItems with    *)
(* advance, and pruneFeedItems.                                            *)
(***************************************************************************)
EXTENDS FeedStore

ConsumerState == [
  pc : {"idle", "readdir", "list", "advance", "hand", "run", "ack", "ackWrite"},
  advance : BOOLEAN,            \* collectFeedItems with advance, or a dispatch
  filter : SUBSET ItemIds,
  snap : Place \cup {NoPlace},  \* the cursor the collect read
  names : SUBSET ItemIds,       \* the directory entries
  batch : SUBSET Place,         \* the items still to deliver
  cur : Place \cup {NoPlace}]   \* the one being delivered

IdleConsumer == [pc |-> "idle", advance |-> FALSE, filter |-> {}, snap |-> NoPlace, names |-> {},
                 batch |-> {}, cur |-> NoPlace]

PrunerState == [pc : {"idle", "remove"}, victims : SUBSET ItemIds]
IdlePruner == [pc |-> "idle", victims |-> {}]

ConsumeTypeOK ==
  /\ consumer \in [Consumers -> ConsumerState]
  /\ pruner \in [Pruners -> PrunerState]

InitConsume ==
  /\ consumer = [c \in Consumers |-> IdleConsumer]
  /\ pruner = [p \in Pruners |-> IdlePruner]

ConsumerStep(c, from, to) ==
  /\ consumer[c].pc = from
  /\ consumer' = [consumer EXCEPT ![c] = to]
  /\ UNCHANGED <<published, poller, appender, pruner>>

----------------------------------------------------------------------------
(* collectFeedItems                                                        *)
ReadCursor(c) ==
  /\ \E filter \in Filters, advance \in Advances :
       ConsumerStep(c, "idle", [IdleConsumer EXCEPT !.pc = "readdir", !.advance = advance,
                                                    !.filter = filter, !.snap = cursor])
  /\ UNCHANGED <<envVars, fileVars, historyVars>>

ReadDirectory(c) ==
  /\ ConsumerStep(c, "readdir", [consumer[c] EXCEPT !.pc = "list", !.names = Existing])
  /\ UNCHANGED <<envVars, fileVars, historyVars>>

(* Mutant of FirstPlaces: the limit is applied before the sort.            *)
SomePlaces(unseen, first) ==
  /\ first \subseteq unseen
  /\ Cardinality(first) = Limit \/ (first = unseen /\ Cardinality(unseen) <= Limit)

(* The first Limit places of `unseen`, in the order of collection.         *)
FirstPlaces(unseen, first) ==
  /\ first \subseteq unseen
  /\ Cardinality(first) = Limit \/ (first = unseen /\ Cardinality(unseen) <= Limit)
  /\ \A p \in first, q \in unseen \ first : After(q, p)

ListItems(c) ==
  /\ \E listed \in SUBSET consumer[c].names, batch \in SUBSET {PlaceOf(i) : i \in Written} :
       /\ listFeedItems(consumer[c].names, listed)
       /\ FirstPlaces({p \in {PlaceOf(i) : i \in listed \cap consumer[c].filter} :
                         After(p, consumer[c].snap)}, batch)
       /\ ConsumerStep(c, "list", [consumer[c] EXCEPT !.pc = IF consumer[c].advance THEN "advance"
                                                             ELSE "run",
                                                      !.names = {}, !.batch = batch])
  /\ UNCHANGED <<envVars, fileVars, historyVars>>

(* The error ends the command.                                             *)
ListItemsFails(c) ==
  /\ ListFails(consumer[c].names)
  /\ ConsumerStep(c, "list", IdleConsumer)
  /\ UNCHANGED <<envVars, fileVars, historyVars>>

(* collect with advance: the cursor moves to the last item collected, or   *)
(* is rewritten as it was read...                                          *)
LastPlace(batch) == CHOOSE p \in batch : \A q \in batch \ {p} : After(p, q)

AdvanceOnCollect(c) ==
  /\ ConsumerStep(c, "advance", [consumer[c] EXCEPT !.pc = "hand"])
  /\ cursor' = IF consumer[c].batch = {} THEN consumer[c].snap ELSE LastPlace(consumer[c].batch)
  /\ UNCHANGED <<envVars, items, checkpoint, historyVars>>

(* ... and then the items are handed to the caller.                        *)
HandOver(c) ==
  /\ ConsumerStep(c, "hand", IdleConsumer)
  /\ delivered' = [i \in ItemIds |-> IF \E p \in consumer[c].batch : p.id = i
                                     THEN Min({delivered[i] + 1, 2}) ELSE delivered[i]]
  /\ UNCHANGED <<envVars, fileVars, known, late, pruned>>

----------------------------------------------------------------------------
(* The loop of dispatchFeedItems                                           *)
DispatchDone(c) ==
  /\ consumer[c].batch = {} /\ consumer[c].cur = NoPlace
  /\ ConsumerStep(c, "run", IdleConsumer)
  /\ UNCHANGED <<envVars, fileVars, historyVars>>

(* runTarget is called for the next item...                                *)
RunTarget(c) ==
  /\ consumer[c].cur = NoPlace
  /\ \E p \in consumer[c].batch :
       /\ \A q \in consumer[c].batch \ {p} : After(q, p)
       /\ ConsumerStep(c, "run", [consumer[c] EXCEPT !.cur = p, !.batch = @ \ {p}])
  /\ UNCHANGED <<envVars, fileVars, historyVars>>

(* ... and succeeds...                                                     *)
TargetSucceeds(c) ==
  LET i == consumer[c].cur.id IN
  /\ consumer[c].cur # NoPlace
  /\ ConsumerStep(c, "run", [consumer[c] EXCEPT !.pc = "ack"])
  /\ delivered' = [delivered EXCEPT ![i] = Min({@ + 1, 2})]
  /\ UNCHANGED <<envVars, fileVars, known, late, pruned>>

(* Mutant of TargetFails: the dispatch goes on with the next item.         *)
TargetFailsGoesOn(c) ==
  /\ Fails
  /\ consumer[c].cur # NoPlace
  /\ ConsumerStep(c, "run", [consumer[c] EXCEPT !.cur = NoPlace])
  /\ UNCHANGED <<fileVars, historyVars>>

(* ... or fails, which ends the dispatch.                                  *)
TargetFails(c) ==
  /\ Fails
  /\ consumer[c].cur # NoPlace
  /\ ConsumerStep(c, "run", IdleConsumer)
  /\ UNCHANGED <<fileVars, historyVars>>

(* advanceFeedCursor reads the item again; one that cannot be read fails   *)
(* the dispatch, although its target has succeeded.                        *)
ReadAcknowledged(c) ==
  LET i == consumer[c].cur.id IN
  /\ ConsumerStep(c, "ack", IF items[i].status = "written"
                            THEN [consumer[c] EXCEPT !.pc = "ackWrite", !.cur = PlaceOf(i)]
                            ELSE IdleConsumer)
  /\ UNCHANGED <<envVars, fileVars, historyVars>>

(* The cursor goes to that item, wherever it is by now.                    *)
WriteAcknowledged(c) ==
  /\ ConsumerStep(c, "ackWrite", [consumer[c] EXCEPT !.pc = "run", !.cur = NoPlace])
  /\ cursor' = consumer[c].cur
  /\ UNCHANGED <<envVars, items, checkpoint, historyVars>>

ConsumerDies(c) ==
  /\ Dies
  /\ consumer[c].pc # "idle"
  /\ ConsumerStep(c, consumer[c].pc, IdleConsumer)
  /\ UNCHANGED <<fileVars, historyVars>>

ConsumerSteps(c) ==
  \/ ReadCursor(c) \/ ReadDirectory(c) \/ ListItems(c) \/ ListItemsFails(c)
  \/ AdvanceOnCollect(c) \/ HandOver(c) \/ DispatchDone(c) \/ RunTarget(c) \/ TargetSucceeds(c)
  \/ ReadAcknowledged(c) \/ WriteAcknowledged(c)

ConsumerFault(c) == TargetFails(c) \/ ConsumerDies(c)

----------------------------------------------------------------------------
(***************************************************************************)
(* pruneFeedItems: the items observed before a cutoff, whether they were   *)
(* collected or not.  A prune may be given any age above 0: a cutoff       *)
(* between two ticks of the clock is rounded up to the second.             *)
(***************************************************************************)
PrunerStep(p, from, to) ==
  /\ pruner[p].pc = from
  /\ pruner' = [pruner EXCEPT ![p] = to]
  /\ UNCHANGED <<published, poller, appender, consumer>>

StartPrune(p) ==
  /\ Existing = Written
  /\ \E cutoff \in Clock :
       /\ cutoff <= clock
       /\ PrunerStep(p, "idle", [pc |-> "remove",
                                 victims |-> {i \in Written : items[i].observedAt < cutoff}])
  /\ UNCHANGED <<envVars, fileVars, historyVars>>

RemoveItem(p) ==
  /\ \E i \in pruner[p].victims :
       /\ PrunerStep(p, "remove", [pruner[p] EXCEPT !.victims = @ \ {i}])
       /\ items' = [items EXCEPT ![i] = NoFile]
       /\ pruned' = pruned \cup {i}
  /\ UNCHANGED <<envVars, checkpoint, cursor, known, late, delivered>>

PruneDone(p) ==
  /\ pruner[p].victims = {}
  /\ PrunerStep(p, "remove", IdlePruner)
  /\ UNCHANGED <<envVars, fileVars, historyVars>>

=============================================================================
