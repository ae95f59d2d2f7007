--------------------------------- MODULE Feed ---------------------------------
(***************************************************************************)
(* The feed of a workbench: polls and appends that take items in, and      *)
(* consumers that deliver them in the order they were observed.            *)
(***************************************************************************)
EXTENDS FeedIntake, FeedConsume

Init == InitStore /\ InitIntake /\ InitConsume

Next ==
  \/ Publish
  \/ \E p \in Pollers : StartPoll(p) \/ PollerStep(p) \/ PollerFault(p)
  \/ \E a \in Appenders : AppendFeedItem(a) \/ FillAppended(a)
  \/ \E c \in Consumers : ConsumerSteps(c) \/ ConsumerFault(c)
  \/ \E p \in Pruners : StartPrune(p) \/ RemoveItem(p) \/ PruneDone(p)
  \/ TimePasses

Spec == Init /\ [][Next]_vars

FeedTypeOK == TypeOK /\ IntakeTypeOK /\ ConsumeTypeOK

----------------------------------------------------------------------------
(***************************************************************************)
(* An etag is on file only when every entry of the document it names was   *)
(* taken in (cut at max_items): a 304 never hides an entry that a failed,  *)
(* interrupted or overtaken poll has left out.                             *)
(***************************************************************************)
CheckpointCoversDocument ==
  /\ checkpoint <= Len(published)
  /\ limitFeedItems(SubSeq(published, 1, checkpoint)) \subseteq known

(***************************************************************************)
(* What the cursor has passed was delivered: dispatches that overlap, fail *)
(* or die, and cursors that move back, skip no item that was created in    *)
(* the order of collection.                                                *)
(***************************************************************************)
Consumed == UNION Filters
Passed(i) == items[i].status = "written" /\ ~After(PlaceOf(i), cursor)
InHand(i) == \E c \in Consumers : consumer[c].pc = "hand" /\ PlaceOf(i) \in consumer[c].batch

PassedInOrderIsDelivered ==
  \A i \in Consumed \ late : Passed(i) => delivered[i] > 0 \/ InHand(i)

----------------------------------------------------------------------------
(***************************************************************************)
(* Polls and dispatches are started again and again by a scheduler, and    *)
(* processes that do not die go on.  Fetches and targets fail only so      *)
(* often.  Nothing makes the source publish or an operator append.         *)
(***************************************************************************)
Fairness ==
  /\ \A p \in Pollers : WF_vars(StartPoll(p) \/ PollerStep(p))
  /\ \A a \in Appenders : WF_vars(FillAppended(a))
  /\ \A c \in Consumers : WF_vars(ConsumerSteps(c))

FairSpec == Spec /\ Fairness

(* Nobody will ever fill the empty file of item i.                         *)
TornForGood(i) ==
  /\ items[i].status = "torn"
  /\ \A p \in Pollers : ~(poller[p].pc = "fill" /\ poller[p].cur = i)
  /\ \A a \in Appenders : ~(appender[a].pc = "fill" /\ appender[a].cur = i)

(***************************************************************************)
(* Every entry that the source publishes is delivered, unless it is late,  *)
(* or a process died between creating and filling the file of some item.   *)
(***************************************************************************)
PublishedIsDelivered ==
  \A i \in FeedItems :
    i \in Range(published) ~>
      delivered[i] > 0 \/ i \in late \/ \E j \in ItemIds : TornForGood(j)

=============================================================================
