------------------------------ MODULE FeedIntake ------------------------------
(***************************************************************************)
(* Intake: pollFeedSource, which fetches a document and stores its         *)
(* entries, and appendFeedItem.  The disabled source, which only leaves a  *)
(* run record, is left out, and so are the run records.                    *)
(***************************************************************************)
EXTENDS FeedStore

(***************************************************************************)
(* startedAt is the clock when the poll began, before the checkpoint is    *)
(* read and the document fetched: it becomes observedAt of every item.     *)
(***************************************************************************)
PollerState == [
  pc : {"idle", "read", "fetch", "store", "fill", "checkpoint", "fail"},
  startedAt : Clock,
  etag : Etags,             \* of the checkpoint read, then of the response
  oldEtag : Etags,          \* of the checkpoint read
  todo : SUBSET FeedItems,  \* parsed entries not yet stored
  cur : FeedItems \cup {NoItem}]

IdlePoller == [pc |-> "idle", startedAt |-> 0, etag |-> 0, oldEtag |-> 0,
               todo |-> {}, cur |-> NoItem]

AppenderState == [pc : {"idle", "fill"}, cur : AppendItems \cup {NoItem}]
IdleAppender == [pc |-> "idle", cur |-> NoItem]

IntakeTypeOK ==
  /\ poller \in [Pollers -> PollerState]
  /\ appender \in [Appenders -> AppenderState]

InitIntake ==
  /\ poller = [p \in Pollers |-> IdlePoller]
  /\ appender = [a \in Appenders |-> IdleAppender]

PollStep(p, from, to) ==
  /\ poller[p].pc = from
  /\ poller' = [poller EXCEPT ![p] = to]
  /\ UNCHANGED <<published, appender, consumer, pruner>>

StartPoll(p) ==
  /\ PollStep(p, "idle", [IdlePoller EXCEPT !.pc = "read", !.startedAt = clock])
  /\ UNCHANGED <<envVars, fileVars, historyVars>>

ReadCheckpoint(p) ==
  /\ PollStep(p, "read", [poller[p] EXCEPT !.pc = "fetch", !.oldEtag = checkpoint])
  /\ UNCHANGED <<envVars, fileVars, historyVars>>

(* 304: the document is the one the checkpoint's etag names.               *)
FetchNotModified(p) ==
  /\ Len(published) = poller[p].oldEtag /\ published # <<>>
  /\ PollStep(p, "fetch", [poller[p] EXCEPT !.pc = "checkpoint", !.etag = Len(published)])
  /\ UNCHANGED <<envVars, fileVars, historyVars>>

(* 200, with a document that has entries, in any order.                    *)
FetchDocument(p) ==
  /\ published # <<>> /\ Len(published) # poller[p].oldEtag
  /\ PollStep(p, "fetch", [poller[p] EXCEPT !.pc = "store", !.etag = Len(published),
                                            !.todo = limitFeedItems(published)])
  /\ UNCHANGED <<envVars, fileVars, historyVars>>

(* A document without entries is an error...                               *)
FetchEmpty(p) ==
  /\ published = <<>>
  /\ PollStep(p, "fetch", [poller[p] EXCEPT !.pc = "fail"])
  /\ UNCHANGED <<envVars, fileVars, historyVars>>

(* ... as an HTTP failure is.                                              *)
FetchFails(p) ==
  /\ Fails
  /\ PollStep(p, "fetch", [poller[p] EXCEPT !.pc = "fail"])
  /\ UNCHANGED <<fileVars, historyVars>>

StoreItem(p) ==
  /\ \E i \in poller[p].todo :
       /\ PollStep(p, "store", [poller[p] EXCEPT !.pc = "fill", !.cur = i])
       /\ CreateItem(i, poller[p].startedAt)
  /\ UNCHANGED envVars

(* EEXIST: an entry seen before, whatever its file holds.                  *)
StoreDuplicate(p) ==
  /\ \E i \in poller[p].todo :
       /\ items[i].status # "absent"
       /\ PollStep(p, "store", [poller[p] EXCEPT !.todo = @ \ {i}])
  /\ UNCHANGED <<envVars, fileVars, historyVars>>

FillStored(p) ==
  /\ PollStep(p, "fill", [poller[p] EXCEPT !.pc = "store", !.cur = NoItem,
                                           !.todo = @ \ {poller[p].cur}])
  /\ FillItem(poller[p].cur)
  /\ UNCHANGED envVars

StoredAll(p) ==
  /\ poller[p].todo = {}
  /\ PollStep(p, "store", [poller[p] EXCEPT !.pc = "checkpoint"])
  /\ UNCHANGED <<envVars, fileVars, historyVars>>

(* Mutant of StoreFails: the error is swallowed like an EEXIST.            *)
StoreFailsUnnoticed(p) ==
  /\ Fails
  /\ PollStep(p, "store", [poller[p] EXCEPT !.pc = "checkpoint", !.todo = {}])
  /\ UNCHANGED <<fileVars, historyVars>>

(* A file operation of the store fails.                                    *)
StoreFails(p) ==
  /\ Fails
  /\ PollStep(p, "store", [poller[p] EXCEPT !.pc = "fail", !.todo = {}])
  /\ UNCHANGED <<fileVars, historyVars>>

WriteCheckpoint(p) ==
  /\ PollStep(p, "checkpoint", IdlePoller)
  /\ checkpoint' = poller[p].etag
  /\ UNCHANGED <<envVars, items, cursor, historyVars>>

(* The error goes to the checkpoint that was read; its etag is kept.       *)
WriteFailure(p) ==
  /\ PollStep(p, "fail", IdlePoller)
  /\ checkpoint' = poller[p].oldEtag
  /\ UNCHANGED <<envVars, items, cursor, historyVars>>

PollerDies(p) ==
  /\ Dies
  /\ poller[p].pc # "idle"
  /\ PollStep(p, poller[p].pc, IdlePoller)
  /\ UNCHANGED <<fileVars, historyVars>>

PollerStep(p) ==
  \/ ReadCheckpoint(p) \/ FetchNotModified(p) \/ FetchDocument(p) \/ FetchEmpty(p)
  \/ StoreItem(p) \/ StoreDuplicate(p) \/ FillStored(p) \/ StoredAll(p)
  \/ WriteCheckpoint(p) \/ WriteFailure(p)

PollerFault(p) == FetchFails(p) \/ StoreFails(p) \/ PollerDies(p)

----------------------------------------------------------------------------
AppendStep(a, from, to) ==
  /\ appender[a].pc = from
  /\ appender' = [appender EXCEPT ![a] = to]
  /\ UNCHANGED <<published, poller, consumer, pruner>>

(* observedAt is the caller's or the present; EEXIST changes nothing.      *)
AppendFeedItem(a) ==
  /\ \E i \in AppendItems, observedAt \in Clock :
       /\ observedAt <= clock
       /\ AppendStep(a, "idle", [pc |-> "fill", cur |-> i])
       /\ CreateItem(i, observedAt)
  /\ UNCHANGED envVars

FillAppended(a) ==
  /\ AppendStep(a, "fill", IdleAppender)
  /\ FillItem(appender[a].cur)
  /\ UNCHANGED envVars

=============================================================================
