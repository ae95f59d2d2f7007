------------------------------ MODULE FeedProofs ------------------------------
(***************************************************************************)
(* Proofs about the intake of the feed, for any entries, polls, appends,   *)
(* consumers and prunes, and about the order of delivery.                  *)
(***************************************************************************)
EXTENDS Feed, FiniteSetTheorems, WellFoundedInduction, TLAPS

(* Every entry that the document of etag n keeps was taken in.             *)
Covered(n) ==
  /\ n \in Nat /\ n <= Len(published)
  /\ limitFeedItems(SubSeq(published, 1, n)) \subseteq known

(* ... or is still to be stored by a poll.                                 *)
CoveredWith(n, todo) ==
  /\ n \in Nat /\ n <= Len(published)
  /\ limitFeedItems(SubSeq(published, 1, n)) \subseteq known \cup todo

PollerShape == [
  pc : {"idle", "read", "fetch", "store", "fill", "checkpoint", "fail"},
  startedAt : Clock, etag : Nat, oldEtag : Nat,
  todo : SUBSET FeedItems, cur : FeedItems \cup {NoItem}]

(* What a poll knows at each step about the etags it holds.                *)
PollerCovers(p) ==
  /\ poller[p].pc \in {"fetch", "store", "fill", "checkpoint", "fail"} => Covered(poller[p].oldEtag)
  /\ poller[p].pc \in {"store", "fill"} => CoveredWith(poller[p].etag, poller[p].todo)
  /\ poller[p].pc = "fill" => poller[p].cur \in known
  /\ poller[p].pc = "checkpoint" => Covered(poller[p].etag)

FilesAreKnown == \A i \in ItemIds : items[i].status # "absent" => i \in known

FeedShape ==
  /\ clock \in Clock
  /\ published \in Seq(FeedItems)
  /\ DOMAIN items = ItemIds
  /\ poller \in [Pollers -> PollerShape]

(* The inductive invariant of the intake.                                  *)
IntakeInv ==
  /\ FeedShape
  /\ FilesAreKnown
  /\ Covered(checkpoint)
  /\ \A p \in Pollers : PollerCovers(p)

----------------------------------------------------------------------------
(* The document of an etag stays the same when the source publishes.       *)
LEMMA PrefixStays ==
  ASSUME NEW S, NEW s \in Seq(S), NEW i \in S, NEW n \in Nat, n <= Len(s)
  PROVE  SubSeq(Append(s, i), 1, n) = SubSeq(s, 1, n) /\ n <= Len(Append(s, i))
PROOF OBVIOUS

LEMMA WholePrefix ==
  ASSUME NEW S, NEW s \in Seq(S)
  PROVE  SubSeq(s, 1, Len(s)) = s /\ Len(s) \in Nat
PROOF OBVIOUS

(* What a document keeps are entries of the source.                        *)
LEMMA LimitIsPart ==
  ASSUME NEW s \in Seq(FeedItems)
  PROVE  limitFeedItems(s) \subseteq FeedItems
PROOF
  <1>1. Range(s) \subseteq FeedItems
    BY DEF Range
  <1>2. CASE Len(s) > MaxItems
    <2> DEFINE t == SubSeq(s, Len(s) - MaxItems + 1, Len(s))
    <2>1. Len(s) \in Nat /\ MaxItems \in Nat \ {0}
      BY FeedConstants
    <2>2. t \in Seq(FeedItems)
      BY <1>2, <2>1
    <2>3. Range(t) \subseteq FeedItems
      BY <2>2, SMTT(20) DEF Range
    <2> QED BY <2>1, <1>2, <2>3 DEF limitFeedItems
  <1> QED BY <1>1, <1>2, FeedConstants DEF limitFeedItems

(* What is covered stays covered while the documents stay and items are    *)
(* only added.                                                             *)
LEMMA CoveredStays ==
  ASSUME published' = published, known \subseteq known'
  PROVE  /\ \A n : Covered(n) => Covered(n)'
         /\ \A n, todo : CoveredWith(n, todo) => CoveredWith(n, todo)'
         /\ \A n, todo : \A i \in known' : CoveredWith(n, todo) => CoveredWith(n, todo \ {i})'
PROOF
  <1>1. ASSUME NEW n, Covered(n) PROVE (Covered(n))'
    BY <1>1 DEF Covered, limitFeedItems
  <1>2. ASSUME NEW n, NEW todo, CoveredWith(n, todo) PROVE (CoveredWith(n, todo))'
    BY <1>2 DEF CoveredWith, limitFeedItems
  <1>3. ASSUME NEW n, NEW todo, NEW i \in known', CoveredWith(n, todo)
        PROVE  (CoveredWith(n, todo \ {i}))'
    BY <1>3 DEF CoveredWith, limitFeedItems
  <1> QED BY <1>1, <1>2, <1>3

LEMMA IdleHasShape == 0 \in Clock /\ IdlePoller \in PollerShape
PROOF
  <1>1. 0 \in Clock
    BY FeedConstants DEF Clock
  <1>2. IdlePoller \in PollerShape
    BY <1>1 DEF IdlePoller, PollerShape
  <1> QED BY <1>1, <1>2

LEMMA IntakeInit == Init => IntakeInv
PROOF
  <1> SUFFICES ASSUME Init PROVE IntakeInv
    OBVIOUS
  <1> USE DEF Init, InitStore, InitIntake
  <1>1. FeedShape
    <2>1. published \in Seq(FeedItems)
      OBVIOUS
    <2> QED BY <2>1, IdleHasShape DEF FeedShape
  <1>2. FilesAreKnown
    BY DEF FilesAreKnown, NoFile
  <1>3. Covered(checkpoint)
    <2>1. SubSeq(published, 1, 0) = <<>> /\ Len(<<>>) = 0
      OBVIOUS
    <2>2. limitFeedItems(<<>>) = {}
      <3>1. Range(<<>>) = {}
        BY DEF Range
      <3>2. Len(<<>>) <= MaxItems
        BY FeedConstants, <2>1
      <3> QED BY <3>1, <3>2 DEF limitFeedItems
    <2>3. published = <<>> /\ checkpoint = 0 /\ SubSeq(published, 1, checkpoint) = <<>>
      BY <2>1
    <2>4. limitFeedItems(SubSeq(published, 1, checkpoint)) = {}
      BY <2>2, <2>3, Zenon
    <2>5. checkpoint \in Nat /\ checkpoint <= Len(published)
      BY <2>1, <2>3
    <2> QED BY <2>4, <2>5 DEF Covered
  <1>4. \A p \in Pollers : PollerCovers(p)
    BY DEF PollerCovers, IdlePoller
  <1> QED BY <1>1, <1>2, <1>3, <1>4 DEF IntakeInv
----------------------------------------------------------------------------
(* Polls that do not move keep what they know.                             *)
LEMMA StillPollersKeep ==
  ASSUME IntakeInv, published' = published, known \subseteq known',
         NEW p \in Pollers, poller'[p] = poller[p]
  PROVE  PollerCovers(p)'
PROOF
  <1>1. PollerCovers(p)
    BY DEF IntakeInv
  <1> QED BY <1>1, CoveredStays DEF PollerCovers

(* A step of one poll, which leaves the others and the document alone.     *)
LEMMA PollerMoves ==
  ASSUME IntakeInv, NEW p \in Pollers, NEW to \in PollerShape,
         poller' = [poller EXCEPT ![p] = to],
         published' = published, known \subseteq known', clock' \in Clock,
         DOMAIN items' = ItemIds, FilesAreKnown', Covered(checkpoint)', PollerCovers(p)'
  PROVE  IntakeInv'
PROOF
  <1>1. FeedShape'
    BY DEF IntakeInv, FeedShape
  <1>2. ASSUME NEW q \in Pollers PROVE PollerCovers(q)'
    <2>1. CASE q = p
      BY <2>1
    <2>2. CASE q # p
      <3>1. poller'[q] = poller[q]
        BY <2>2 DEF IntakeInv, FeedShape
      <3> QED BY <3>1, StillPollersKeep
    <2> QED BY <2>1, <2>2
  <1> QED BY <1>1, <1>2 DEF IntakeInv

(* A step of another process.                                              *)
LEMMA OthersMove ==
  ASSUME IntakeInv, UNCHANGED <<poller, published, checkpoint>>, known \subseteq known',
         clock' \in Clock, DOMAIN items' = ItemIds, FilesAreKnown'
  PROVE  IntakeInv'
PROOF
  <1>1. FeedShape'
    BY DEF IntakeInv, FeedShape
  <1>2. \A q \in Pollers : PollerCovers(q)'
    BY StillPollersKeep
  <1>3. Covered(checkpoint)'
    BY CoveredStays DEF IntakeInv
  <1> QED BY <1>1, <1>2, <1>3 DEF IntakeInv

(* Creating and filling a file keep the files among the known ones.        *)
LEMMA CreateKeepsFiles ==
  ASSUME IntakeInv, NEW i \in ItemIds, NEW t, CreateItem(i, t)
  PROVE  /\ DOMAIN items' = ItemIds /\ FilesAreKnown'
         /\ known \subseteq known' /\ i \in known' /\ checkpoint' = checkpoint
PROOF
  BY DEF IntakeInv, FeedShape, FilesAreKnown, CreateItem

LEMMA FillKeepsFiles ==
  ASSUME IntakeInv, NEW i, FillItem(i)
  PROVE  /\ DOMAIN items' = ItemIds /\ FilesAreKnown'
         /\ known' = known /\ checkpoint' = checkpoint
PROOF
  <1>1. CASE i \in ItemIds /\ items[i].status = "torn"
    BY <1>1 DEF IntakeInv, FeedShape, FilesAreKnown, FillItem, historyVars
  <1>2. CASE ~(i \in ItemIds /\ items[i].status = "torn")
    BY <1>2 DEF IntakeInv, FeedShape, FilesAreKnown, FillItem, historyVars
  <1> QED BY <1>1, <1>2

----------------------------------------------------------------------------
(* The source publishes: documents that had an etag keep it.               *)
LEMMA PublishKeeps == ASSUME IntakeInv, Publish PROVE IntakeInv'
PROOF
  <1> USE DEF envVars, fileVars, processVars, historyVars
  <1>1. PICK i \in FeedItems : published' = Append(published, i)
    BY DEF Publish
  <1>2. UNCHANGED <<clock, items, checkpoint, poller, known>>
    BY DEF Publish
  <1>3. published \in Seq(FeedItems)
    BY DEF IntakeInv, FeedShape
  <1>4. ASSUME NEW n PROVE Covered(n) => (Covered(n))'
    BY <1>1, <1>2, <1>3, PrefixStays DEF Covered, limitFeedItems
  <1>5. ASSUME NEW n, NEW todo, CoveredWith(n, todo) PROVE (CoveredWith(n, todo))'
    <2>1. n \in Nat /\ n <= Len(published)
      BY <1>5 DEF CoveredWith
    <2>2. SubSeq(published', 1, n) = SubSeq(published, 1, n) /\ n <= Len(published')
      BY <1>1, <1>3, <2>1, PrefixStays
    <2> QED BY <1>2, <1>5, <2>1, <2>2 DEF CoveredWith, limitFeedItems
  <1>6. FeedShape'
    BY <1>1, <1>2, <1>3 DEF IntakeInv, FeedShape
  <1>7. FilesAreKnown'
    BY <1>2 DEF IntakeInv, FilesAreKnown
  <1>8. Covered(checkpoint)'
    BY <1>2, <1>4 DEF IntakeInv
  <1>9. ASSUME NEW p \in Pollers PROVE PollerCovers(p)'
    <2>1. PollerCovers(p)
      BY DEF IntakeInv
    <2> QED BY <2>1, <1>2, <1>4, <1>5 DEF PollerCovers
  <1> QED BY <1>6, <1>7, <1>8, <1>9 DEF IntakeInv
----------------------------------------------------------------------------
(* The steps of a poll.  Each holds one step of the protocol: which etag   *)
(* goes on, and that its document is covered.                              *)
LEMMA PollFrame ==
  ASSUME IntakeInv, NEW p \in Pollers, NEW from, NEW to, PollStep(p, from, to)
  PROVE  /\ poller[p] \in PollerShape /\ poller[p].pc = from
         /\ poller' = [poller EXCEPT ![p] = to] /\ poller'[p] = to
         /\ published' = published /\ PollerCovers(p) /\ published \in Seq(FeedItems)
         /\ Len(published) \in Nat
PROOF
  BY DEF IntakeInv, FeedShape, PollStep

(* Nothing but the poll changes.                                           *)
LEMMA QuietFrame ==
  ASSUME IntakeInv, published' = published, UNCHANGED fileVars, UNCHANGED historyVars,
         clock' = clock
  PROVE  /\ known \subseteq known' /\ clock' \in Clock /\ DOMAIN items' = ItemIds
         /\ FilesAreKnown' /\ Covered(checkpoint)'
PROOF
  <1>1. UNCHANGED <<items, checkpoint, known>>
    BY DEF fileVars, historyVars
  <1>2. Covered(checkpoint)'
    BY <1>1, CoveredStays DEF IntakeInv
  <1> QED BY <1>1, <1>2 DEF IntakeInv, FeedShape, FilesAreKnown

(* A poll that only moves on, from `from` to `to`, with all files as they  *)
(* are, keeps the invariant when `to` is right about the etags it holds.   *)
LEMMA QuietPoll ==
  ASSUME IntakeInv, NEW p \in Pollers, NEW from, NEW to \in PollerShape,
         PollStep(p, from, to), UNCHANGED fileVars, UNCHANGED historyVars, clock' = clock,
         to.pc \in {"fetch", "store", "fill", "checkpoint", "fail"} => Covered(to.oldEtag),
         to.pc = "store" => CoveredWith(to.etag, to.todo),
         to.pc # "fill",
         to.pc = "checkpoint" => Covered(to.etag)
  PROVE  IntakeInv'
PROOF
  <1>1. /\ poller' = [poller EXCEPT ![p] = to] /\ poller'[p] = to
        /\ published' = published
    BY PollFrame
  <1>2. /\ known \subseteq known' /\ clock' \in Clock /\ DOMAIN items' = ItemIds
        /\ FilesAreKnown' /\ Covered(checkpoint)'
    BY <1>1, QuietFrame
  <1>3. PollerCovers(p)'
    BY <1>1, <1>2, CoveredStays DEF PollerCovers
  <1> QED BY <1>1, <1>2, <1>3, PollerMoves

LEMMA ReadsKeep ==
  ASSUME IntakeInv, NEW p \in Pollers, StartPoll(p) \/ ReadCheckpoint(p)
  PROVE  IntakeInv'
PROOF
  <1>1. CASE StartPoll(p)
    <2> DEFINE to == [IdlePoller EXCEPT !.pc = "read", !.startedAt = clock]
    <2>1. to \in PollerShape /\ to.pc = "read"
      BY IdleHasShape DEF IntakeInv, FeedShape, PollerShape
    <2>2. PollStep(p, "idle", to) /\ UNCHANGED fileVars /\ UNCHANGED historyVars /\ clock' = clock
      BY <1>1 DEF StartPoll, envVars
    <2> HIDE DEF to
    <2> QED BY <2>1, <2>2, QuietPoll
  <1>2. CASE ReadCheckpoint(p)
    <2> DEFINE to == [poller[p] EXCEPT !.pc = "fetch", !.oldEtag = checkpoint]
    <2>1. PollStep(p, "read", to) /\ UNCHANGED fileVars /\ UNCHANGED historyVars /\ clock' = clock
      BY <1>2 DEF ReadCheckpoint, envVars
    <2>2. poller[p] \in PollerShape /\ Covered(checkpoint)
      BY DEF IntakeInv, FeedShape
    <2>3. checkpoint \in Nat
      BY <2>2 DEF Covered
    <2>4. to \in PollerShape /\ to.pc = "fetch" /\ to.oldEtag = checkpoint
      BY <2>2, <2>3 DEF PollerShape
    <2> HIDE DEF to
    <2> QED BY <2>1, <2>2, <2>4, QuietPoll
  <1> QED BY <1>1, <1>2

LEMMA FetchKeeps ==
  ASSUME IntakeInv, NEW p \in Pollers,
         FetchNotModified(p) \/ FetchDocument(p) \/ FetchEmpty(p) \/ FetchFails(p)
  PROVE  IntakeInv'
PROOF
  <1>1. CASE FetchNotModified(p)
    <2> DEFINE to == [poller[p] EXCEPT !.pc = "checkpoint", !.etag = Len(published)]
    <2>1. /\ PollStep(p, "fetch", to) /\ UNCHANGED fileVars /\ UNCHANGED historyVars
          /\ clock' = clock /\ Len(published) = poller[p].oldEtag
      BY <1>1 DEF FetchNotModified, envVars
    <2>2. /\ poller[p] \in PollerShape /\ Covered(poller[p].oldEtag) /\ Len(published) \in Nat
      BY <2>1, PollFrame DEF PollerCovers
    <2>3. to \in PollerShape /\ to.pc = "checkpoint" /\ to.oldEtag = poller[p].oldEtag
          /\ to.etag = poller[p].oldEtag
      BY <2>1, <2>2 DEF PollerShape
    <2> HIDE DEF to
    <2> QED BY <2>1, <2>2, <2>3, QuietPoll
  <1>2. CASE FetchDocument(p)
    <2> DEFINE to == [poller[p] EXCEPT !.pc = "store", !.etag = Len(published),
                                       !.todo = limitFeedItems(published)]
    <2>1. /\ PollStep(p, "fetch", to) /\ UNCHANGED fileVars /\ UNCHANGED historyVars
          /\ clock' = clock
      BY <1>2 DEF FetchDocument, envVars
    <2>2. /\ poller[p] \in PollerShape /\ Covered(poller[p].oldEtag)
          /\ published \in Seq(FeedItems) /\ Len(published) \in Nat
      BY <2>1, PollFrame DEF PollerCovers
    <2>3. limitFeedItems(published) \subseteq FeedItems
      BY <2>2, LimitIsPart
    <2>4. to \in PollerShape /\ to.pc = "store" /\ to.oldEtag = poller[p].oldEtag
          /\ to.etag = Len(published) /\ to.todo = limitFeedItems(published)
      BY <2>2, <2>3 DEF PollerShape
    <2>5. CoveredWith(Len(published), limitFeedItems(published))
      <3>1. SubSeq(published, 1, Len(published)) = published
        BY <2>2, WholePrefix
      <3>2. limitFeedItems(SubSeq(published, 1, Len(published))) = limitFeedItems(published)
        BY <3>1, Zenon
      <3>3. Len(published) <= Len(published)
        BY <2>2
      <3> QED BY <2>2, <3>2, <3>3 DEF CoveredWith
    <2> HIDE DEF to
    <2> QED BY <2>1, <2>2, <2>4, <2>5, QuietPoll
  <1>3. CASE FetchEmpty(p) \/ FetchFails(p)
    <2> DEFINE to == [poller[p] EXCEPT !.pc = "fail"]
    <2>1. /\ PollStep(p, "fetch", to) /\ UNCHANGED fileVars /\ UNCHANGED historyVars
          /\ clock' = clock
      BY <1>3 DEF FetchEmpty, FetchFails, Fails, envVars
    <2>2. poller[p] \in PollerShape /\ Covered(poller[p].oldEtag)
      BY <2>1, PollFrame DEF PollerCovers
    <2>3. to \in PollerShape /\ to.pc = "fail" /\ to.oldEtag = poller[p].oldEtag
      BY <2>2 DEF PollerShape
    <2> HIDE DEF to
    <2> QED BY <2>1, <2>2, <2>3, QuietPoll
  <1> QED BY <1>1, <1>2, <1>3
(* A new file: its entry is known before the file is filled.               *)
LEMMA StoreItemKeeps ==
  ASSUME IntakeInv, NEW p \in Pollers, StoreItem(p)
  PROVE  IntakeInv'
PROOF
  <1>1. PICK i \in poller[p].todo :
          /\ PollStep(p, "store", [poller[p] EXCEPT !.pc = "fill", !.cur = i])
          /\ CreateItem(i, poller[p].startedAt)
    BY DEF StoreItem
  <1> DEFINE to == [poller[p] EXCEPT !.pc = "fill", !.cur = i]
  <1>2. /\ poller[p] \in PollerShape /\ poller[p].pc = "store" /\ PollerCovers(p)
        /\ poller' = [poller EXCEPT ![p] = to] /\ poller'[p] = to /\ published' = published
    BY <1>1, PollFrame
  <1>3. i \in FeedItems /\ i \in ItemIds
    BY <1>2 DEF PollerShape, ItemIds
  <1>4. /\ DOMAIN items' = ItemIds /\ FilesAreKnown'
        /\ known \subseteq known' /\ i \in known' /\ checkpoint' = checkpoint
    BY <1>1, <1>3, CreateKeepsFiles
  <1>5. /\ to \in PollerShape /\ to.pc = "fill" /\ to.cur = i /\ to.oldEtag = poller[p].oldEtag
        /\ to.etag = poller[p].etag /\ to.todo = poller[p].todo
    BY <1>2, <1>3 DEF PollerShape
  <1>6. clock' \in Clock
    BY DEF StoreItem, envVars, IntakeInv, FeedShape
  <1>7. Covered(checkpoint)'
    BY <1>2, <1>4, CoveredStays DEF IntakeInv
  <1>8. Covered(poller[p].oldEtag) /\ CoveredWith(poller[p].etag, poller[p].todo)
    BY <1>2 DEF PollerCovers
  <1> HIDE DEF to
  <1>9. PollerCovers(p)'
    BY <1>2, <1>4, <1>5, <1>8, CoveredStays DEF PollerCovers
  <1> QED BY <1>2, <1>4, <1>5, <1>6, <1>7, <1>9, PollerMoves

(* An entry that has a file already is known.                              *)
LEMMA StoreDuplicateKeeps ==
  ASSUME IntakeInv, NEW p \in Pollers, StoreDuplicate(p)
  PROVE  IntakeInv'
PROOF
  <1>1. PICK i \in poller[p].todo :
          /\ items[i].status # "absent"
          /\ PollStep(p, "store", [poller[p] EXCEPT !.todo = @ \ {i}])
    BY DEF StoreDuplicate
  <1> DEFINE to == [poller[p] EXCEPT !.todo = @ \ {i}]
  <1>2. UNCHANGED fileVars /\ UNCHANGED historyVars /\ clock' = clock
    BY DEF StoreDuplicate, envVars
  <1>3. poller[p] \in PollerShape /\ poller[p].pc = "store" /\ PollerCovers(p)
    BY <1>1, PollFrame
  <1>4. i \in known
    BY <1>1, <1>3 DEF IntakeInv, FilesAreKnown, ItemIds, PollerShape
  <1>5. /\ to \in PollerShape /\ to.pc = "store" /\ to.oldEtag = poller[p].oldEtag
        /\ to.etag = poller[p].etag /\ to.todo = poller[p].todo \ {i}
    BY <1>3 DEF PollerShape
  <1>6. Covered(poller[p].oldEtag) /\ CoveredWith(poller[p].etag, poller[p].todo \ {i})
    BY <1>3, <1>4 DEF PollerCovers, CoveredWith
  <1>7. PollStep(p, "store", to)
    BY <1>1
  <1> HIDE DEF to
  <1> QED BY <1>2, <1>5, <1>6, <1>7, QuietPoll

(* The entry leaves the list of the poll when its file is filled.          *)
LEMMA FillStoredKeeps ==
  ASSUME IntakeInv, NEW p \in Pollers, FillStored(p)
  PROVE  IntakeInv'
PROOF
  <1> DEFINE i == poller[p].cur
             to == [poller[p] EXCEPT !.pc = "store", !.cur = NoItem, !.todo = @ \ {poller[p].cur}]
  <1>1. PollStep(p, "fill", to) /\ FillItem(i) /\ clock' = clock
    BY DEF FillStored, envVars
  <1>2. /\ poller[p] \in PollerShape /\ poller[p].pc = "fill" /\ PollerCovers(p)
        /\ poller' = [poller EXCEPT ![p] = to] /\ poller'[p] = to /\ published' = published
    BY <1>1, PollFrame
  <1>3. /\ DOMAIN items' = ItemIds /\ FilesAreKnown'
        /\ known' = known /\ checkpoint' = checkpoint
    BY <1>1, FillKeepsFiles
  <1>4. /\ to \in PollerShape /\ to.pc = "store" /\ to.oldEtag = poller[p].oldEtag
        /\ to.etag = poller[p].etag /\ to.todo = poller[p].todo \ {i}
    BY <1>2 DEF PollerShape
  <1>5. /\ Covered(poller[p].oldEtag) /\ i \in known
        /\ CoveredWith(poller[p].etag, poller[p].todo \ {i})
    BY <1>2 DEF PollerCovers, CoveredWith
  <1>6. clock' \in Clock /\ Covered(checkpoint)'
    BY <1>1, <1>2, <1>3, CoveredStays DEF IntakeInv, FeedShape
  <1> HIDE DEF to, i
  <1>7. PollerCovers(p)'
    BY <1>2, <1>3, <1>4, <1>5, CoveredStays DEF PollerCovers
  <1> QED BY <1>2, <1>3, <1>4, <1>6, <1>7, PollerMoves

(* With nothing left to store, the document is covered.                    *)
LEMMA StoreEndsKeep ==
  ASSUME IntakeInv, NEW p \in Pollers, StoredAll(p) \/ StoreFails(p)
  PROVE  IntakeInv'
PROOF
  <1>1. CASE StoredAll(p)
    <2> DEFINE to == [poller[p] EXCEPT !.pc = "checkpoint"]
    <2>1. /\ PollStep(p, "store", to) /\ UNCHANGED fileVars /\ UNCHANGED historyVars
          /\ clock' = clock /\ poller[p].todo = {}
      BY <1>1 DEF StoredAll, envVars
    <2>2. poller[p] \in PollerShape /\ poller[p].pc = "store" /\ PollerCovers(p)
      BY <2>1, PollFrame
    <2>3. Covered(poller[p].oldEtag) /\ Covered(poller[p].etag)
      BY <2>1, <2>2 DEF PollerCovers, Covered, CoveredWith
    <2>4. to \in PollerShape /\ to.pc = "checkpoint" /\ to.oldEtag = poller[p].oldEtag
          /\ to.etag = poller[p].etag
      BY <2>2 DEF PollerShape
    <2> HIDE DEF to
    <2> QED BY <2>1, <2>3, <2>4, QuietPoll
  <1>2. CASE StoreFails(p)
    <2> DEFINE to == [poller[p] EXCEPT !.pc = "fail", !.todo = {}]
    <2>1. /\ PollStep(p, "store", to) /\ UNCHANGED fileVars /\ UNCHANGED historyVars
          /\ clock' = clock
      BY <1>2 DEF StoreFails, Fails
    <2>2. poller[p] \in PollerShape /\ Covered(poller[p].oldEtag)
      BY <2>1, PollFrame DEF PollerCovers
    <2>3. to \in PollerShape /\ to.pc = "fail" /\ to.oldEtag = poller[p].oldEtag
      BY <2>2 DEF PollerShape
    <2> HIDE DEF to
    <2> QED BY <2>1, <2>2, <2>3, QuietPoll
  <1> QED BY <1>1, <1>2

(* What goes on file is an etag whose document is covered: the new one, or *)
(* the one that was read, which may be older than the one on file.         *)
LEMMA CheckpointKeeps ==
  ASSUME IntakeInv, NEW p \in Pollers, WriteCheckpoint(p) \/ WriteFailure(p)
  PROVE  IntakeInv'
PROOF
  <1>1. PICK from \in {"checkpoint", "fail"} :
          /\ PollStep(p, from, IdlePoller)
          /\ checkpoint' = IF from = "checkpoint" THEN poller[p].etag ELSE poller[p].oldEtag
    BY DEF WriteCheckpoint, WriteFailure
  <1>2. UNCHANGED <<clock, items, known>>
    BY DEF WriteCheckpoint, WriteFailure, envVars, historyVars
  <1>3. /\ poller' = [poller EXCEPT ![p] = IdlePoller] /\ poller'[p] = IdlePoller
        /\ published' = published /\ poller[p].pc = from /\ PollerCovers(p)
    BY <1>1, PollFrame
  <1>4. Covered(checkpoint)'
    <2>1. Covered(checkpoint')
      BY <1>1, <1>3 DEF PollerCovers
    <2> QED BY <2>1, <1>2, <1>3 DEF Covered, limitFeedItems
  <1>5. PollerCovers(p)'
    BY <1>3 DEF PollerCovers, IdlePoller
  <1>6. clock' \in Clock /\ DOMAIN items' = ItemIds /\ FilesAreKnown' /\ known \subseteq known'
    BY <1>2 DEF IntakeInv, FeedShape, FilesAreKnown
  <1> QED BY <1>3, <1>4, <1>5, <1>6, IdleHasShape, PollerMoves

LEMMA DeathKeeps == ASSUME IntakeInv, NEW p \in Pollers, PollerDies(p) PROVE IntakeInv'
PROOF
  <1>1. /\ PollStep(p, poller[p].pc, IdlePoller) /\ UNCHANGED fileVars /\ UNCHANGED historyVars
        /\ clock' = clock
    BY DEF PollerDies, Dies
  <1>2. IdlePoller.pc = "idle"
    BY DEF IdlePoller
  <1> QED BY <1>1, <1>2, IdleHasShape, QuietPoll

----------------------------------------------------------------------------
(* Appends create files as polls do.                                       *)
LEMMA AppendKeeps ==
  ASSUME IntakeInv, NEW a \in Appenders, AppendFeedItem(a) \/ FillAppended(a)
  PROVE  IntakeInv'
PROOF
  <1>1. clock' \in Clock
    BY DEF AppendFeedItem, FillAppended, envVars, IntakeInv, FeedShape
  <1>2. UNCHANGED <<poller, published>>
    BY DEF AppendFeedItem, FillAppended, AppendStep
  <1>3. CASE AppendFeedItem(a)
    <2>1. PICK i \in AppendItems : \E t \in Clock : CreateItem(i, t)
      BY <1>3 DEF AppendFeedItem
    <2>2. i \in ItemIds
      BY DEF ItemIds
    <2>3. DOMAIN items' = ItemIds /\ FilesAreKnown' /\ known \subseteq known' /\ checkpoint' = checkpoint
      BY <2>1, <2>2, CreateKeepsFiles
    <2> QED BY <1>1, <1>2, <2>3, OthersMove
  <1>4. CASE FillAppended(a)
    <2>1. FillItem(appender[a].cur)
      BY <1>4 DEF FillAppended
    <2>2. DOMAIN items' = ItemIds /\ FilesAreKnown' /\ known' = known /\ checkpoint' = checkpoint
      BY <2>1, FillKeepsFiles
    <2> QED BY <1>1, <1>2, <2>2, OthersMove
  <1> QED BY <1>3, <1>4

(* A step that leaves alone all the intake knows.                          *)
LEMMA QuietKeeps ==
  ASSUME IntakeInv, UNCHANGED <<poller, published, checkpoint, known, items>>, clock' \in Clock
  PROVE  IntakeInv'
PROOF
  <1>1. DOMAIN items' = ItemIds /\ FilesAreKnown' /\ known \subseteq known'
    BY DEF IntakeInv, FeedShape, FilesAreKnown
  <1> QED BY <1>1, OthersMove

LEMMA ConsumersKeep ==
  ASSUME IntakeInv, NEW c \in Consumers, ConsumerSteps(c) \/ ConsumerFault(c)
  PROVE  IntakeInv'
PROOF
  <1>1. UNCHANGED <<poller, published, checkpoint, known, items, clock>>
    BY DEF ConsumerSteps, ConsumerFault, ConsumerStep, ReadCursor, ReadDirectory, ListItems,
           ListItemsFails, AdvanceOnCollect, HandOver, DispatchDone, RunTarget, TargetSucceeds,
           ReadAcknowledged, WriteAcknowledged, TargetFails, ConsumerDies, Fails, Dies,
           envVars, fileVars, historyVars
  <1> QED BY <1>1, QuietKeeps DEF IntakeInv, FeedShape

(* A prune removes files, but the history keeps their ids.                 *)
LEMMA PrunesKeep ==
  ASSUME IntakeInv, NEW p \in Pruners, StartPrune(p) \/ RemoveItem(p) \/ PruneDone(p)
  PROVE  IntakeInv'
PROOF
  <1>1. UNCHANGED <<poller, published, checkpoint, known, clock>>
    BY DEF StartPrune, RemoveItem, PruneDone, PrunerStep, envVars, fileVars, historyVars
  <1>2. DOMAIN items' = ItemIds /\ FilesAreKnown'
    <2>1. CASE RemoveItem(p)
      <3>1. PICK i : items' = [items EXCEPT ![i] = NoFile]
        BY <2>1 DEF RemoveItem
      <3> QED BY <1>1, <3>1 DEF IntakeInv, FeedShape, FilesAreKnown, NoFile
    <2>2. CASE items' = items
      BY <1>1, <2>2 DEF IntakeInv, FeedShape, FilesAreKnown
    <2> QED BY <2>1, <2>2 DEF StartPrune, PruneDone, fileVars
  <1> QED BY <1>1, <1>2, OthersMove DEF IntakeInv, FeedShape

----------------------------------------------------------------------------
LEMMA IntakeStep == IntakeInv /\ [Next]_vars => IntakeInv'
PROOF
  <1> SUFFICES ASSUME IntakeInv, [Next]_vars PROVE IntakeInv'
    OBVIOUS
  <1>1. CASE Publish
    BY <1>1, PublishKeeps
  <1>2. ASSUME NEW p \in Pollers, StartPoll(p) \/ PollerStep(p) \/ PollerFault(p)
        PROVE  IntakeInv'
    BY <1>2, ReadsKeep, FetchKeeps, StoreItemKeeps, StoreDuplicateKeeps, FillStoredKeeps,
       StoreEndsKeep, CheckpointKeeps, DeathKeeps DEF PollerStep, PollerFault
  <1>3. ASSUME NEW a \in Appenders, AppendFeedItem(a) \/ FillAppended(a) PROVE IntakeInv'
    BY <1>3, AppendKeeps
  <1>4. ASSUME NEW c \in Consumers, ConsumerSteps(c) \/ ConsumerFault(c) PROVE IntakeInv'
    BY <1>4, ConsumersKeep
  <1>5. ASSUME NEW p \in Pruners, StartPrune(p) \/ RemoveItem(p) \/ PruneDone(p)
        PROVE  IntakeInv'
    BY <1>5, PrunesKeep
  <1>6. CASE TimePasses
    <2>1. clock' \in Clock
      BY <1>6, FeedConstants DEF TimePasses, Clock, IntakeInv, FeedShape
    <2>2. UNCHANGED <<poller, published, checkpoint, known, items>>
      BY <1>6 DEF TimePasses, fileVars, processVars, historyVars
    <2> QED BY <2>1, <2>2, QuietKeeps
  <1>7. CASE UNCHANGED vars
    <2>1. UNCHANGED <<poller, published, checkpoint, known, items, clock>>
      BY <1>7 DEF vars, envVars, fileVars, processVars, historyVars
    <2> QED BY <2>1, QuietKeeps DEF IntakeInv, FeedShape
  <1> QED BY <1>1, <1>2, <1>3, <1>4, <1>5, <1>6, <1>7 DEF Next

(***************************************************************************)
(* For any entries, polls, prunes, failures and deaths: an etag goes on    *)
(* file only when all the entries that its document keeps were taken in.   *)
(***************************************************************************)
THEOREM CheckpointCovers == Spec => []CheckpointCoversDocument
PROOF
  <1>1. IntakeInv => CheckpointCoversDocument
    BY DEF IntakeInv, Covered, CheckpointCoversDocument
  <1> QED BY IntakeInit, IntakeStep, <1>1, PTL DEF Spec
----------------------------------------------------------------------------
(***************************************************************************)
(* Delivery in order.  A prune may end a listing early, a consumer that    *)
(* asks for another source moves the cursor past items it did not want,    *)
(* and a collect that dies after it advanced has delivered nothing.  None  *)
(* of this happens here.                                                   *)
(***************************************************************************)
Undisturbed ==
  /\ Pruners = {}
  /\ \A f, g \in Filters : f = g
  /\ TRUE \notin Advances \/ MaxCrashes = 0

InOrder == (Consumed \ late) \cap Existing
Safe(i) == delivered[i] > 0 \/ InHand(i)

(* The place of an item that is there, or none.                            *)
KnownPlace(p) == p = NoPlace \/ \E j \in Existing : p = PlaceOf(j)

(* A cursor may stand at p.                                                *)
Cleared(p) == \A i \in InOrder : After(PlaceOf(i), p) \/ Safe(i)

(* What a consumer in state s knows: the cursor it has read is cleared...  *)
Started(s) ==
  s.pc # "idle" =>
    /\ s.filter \in Filters
    /\ s.advance => TRUE \in Advances
    /\ s.pc \in {"advance", "hand"} => s.advance
    /\ s.pc \in {"readdir", "list", "advance", "hand"} => s.cur = NoPlace
    /\ KnownPlace(s.snap) /\ Cleared(s.snap)

(* ... what came after it read the directory sorts behind it...            *)
Listing(s) ==
  s.pc = "list" =>
    /\ s.names \subseteq Existing
    /\ \A i \in InOrder \ s.names : \A j \in s.names : After(PlaceOf(i), PlaceOf(j))

(* ... up to each of its items, all are delivered or are its own...        *)
Load(s) == s.batch \cup {s.cur}
Loaded(s) ==
  s.pc \in {"advance", "run", "ack", "ackWrite"} =>
    /\ \A q \in Load(s) :
         /\ KnownPlace(q)
         /\ \A i \in InOrder : After(PlaceOf(i), q) \/ Safe(i) \/ PlaceOf(i) \in Load(s)
    /\ \A q \in s.batch : q # NoPlace /\ After(q, s.cur)

(* ... and it acknowledges what it has delivered.                          *)
Acked(s) == s.pc \in {"ack", "ackWrite"} => s.cur # NoPlace /\ delivered[s.cur.id] > 0

ConsumerOK(s) == Started(s) /\ Listing(s) /\ Loaded(s) /\ Acked(s)

DeliveryShape ==
  /\ crashes \in Nat
  /\ items \in [ItemIds -> Item]
  /\ delivered \in [ItemIds -> Nat]
  /\ consumer \in [Consumers -> ConsumerState]

(* The inductive invariant of the delivery.                                *)
DeliveryInv ==
  /\ DeliveryShape
  /\ KnownPlace(cursor) /\ Cleared(cursor)
  /\ \A c \in Consumers : ConsumerOK(consumer[c])

----------------------------------------------------------------------------
(* The order of collection.                                                *)
LEMMA PlacesAreOrdered ==
  ASSUME DeliveryShape, NEW i \in ItemIds, NEW j \in ItemIds, NEW k \in ItemIds
  PROVE  /\ PlaceOf(i) \in Place /\ PlaceOf(i) # NoPlace /\ PlaceOf(i).id = i
         /\ ~After(PlaceOf(i), PlaceOf(i))
         /\ i # j => After(PlaceOf(i), PlaceOf(j)) \/ After(PlaceOf(j), PlaceOf(i))
         /\ ~(After(PlaceOf(i), PlaceOf(j)) /\ After(PlaceOf(j), PlaceOf(i)))
         /\ After(PlaceOf(i), PlaceOf(j)) /\ After(PlaceOf(j), PlaceOf(k))
              => After(PlaceOf(i), PlaceOf(k))
PROOF
  <1>1. /\ i \in Nat /\ j \in Nat /\ k \in Nat
    BY FeedConstants DEF ItemIds
  <1>2. \A x \in ItemIds : items[x].observedAt \in Clock
    BY DEF DeliveryShape, Item
  <1>3. \A x \in ItemIds : items[x].observedAt \in Nat
    BY <1>2, FeedConstants DEF Clock
  <1>4. /\ PlaceOf(i) \in Place
        /\ PlaceOf(i).id = i /\ PlaceOf(j).id = j /\ PlaceOf(k).id = k
        /\ PlaceOf(i).observedAt = items[i].observedAt
        /\ PlaceOf(j).observedAt = items[j].observedAt
        /\ PlaceOf(k).observedAt = items[k].observedAt
    BY <1>2 DEF PlaceOf, Place
  <1>5. NoPlace.id = -1
    BY DEF NoPlace, NoItem
  <1>6. PlaceOf(i) # NoPlace /\ PlaceOf(j) # NoPlace /\ PlaceOf(k) # NoPlace
    BY <1>1, <1>4, <1>5
  <1> HIDE DEF PlaceOf
  <1> QED BY <1>1, <1>3, <1>4, <1>6 DEF After

(* Items at one place are one item.                                        *)
LEMMA PlacesDiffer ==
  ASSUME DeliveryShape, NEW i \in ItemIds, NEW j \in ItemIds, PlaceOf(i) = PlaceOf(j)
  PROVE  i = j
PROOF
  BY PlacesAreOrdered

(* Of the items of a batch, one is the last: a place that has a least      *)
(* number of others behind it has none.                                    *)
LEMMA LastExists ==
  ASSUME DeliveryShape, NEW batch, batch # {},
         \A q \in batch : \E j \in ItemIds : q = PlaceOf(j)
  PROVE  /\ LastPlace(batch) \in batch
         /\ \A q \in batch \ {LastPlace(batch)} : After(LastPlace(batch), q)
PROOF
  <1> DEFINE Behind(p) == {i \in ItemIds : PlaceOf(i) \in batch /\ After(PlaceOf(i), p)}
             Sizes == {n \in Nat : \E p \in batch : n = Cardinality(Behind(p))}
  <1>1. IsFiniteSet(ItemIds)
    <2>1. IsFiniteSet(FeedItems) /\ IsFiniteSet(AppendItems)
      BY FeedConstants
    <2> QED BY <2>1, FS_Union DEF ItemIds
  <1>2. \A p : IsFiniteSet(Behind(p)) /\ Cardinality(Behind(p)) \in Nat
    <2>1. \A p : Behind(p) \in SUBSET ItemIds
      OBVIOUS
    <2> HIDE DEF Behind
    <2>2. \A p : IsFiniteSet(Behind(p))
      BY <1>1, <2>1, FS_Subset
    <2> QED BY <2>2, FS_CardinalityType
  <1>3. Sizes \subseteq Nat /\ Sizes # {}
    <2>1. PICK p \in batch : TRUE
      OBVIOUS
    <2> HIDE DEF Behind
    <2> QED BY <1>2, <2>1
  <1>4. PICK n \in Sizes : \A m \in Sizes : ~(<<m, n>> \in OpToRel(<, Nat))
    <2> HIDE DEF Sizes
    <2> QED BY <1>3, WFMin, NatLessThanWellFounded, Zenon
  <1>5. PICK p \in batch : n = Cardinality(Behind(p))
    BY <1>4
  <1>6. ASSUME NEW q \in batch, q # p PROVE After(p, q)
    <2>1. SUFFICES ASSUME ~After(p, q) PROVE FALSE
      OBVIOUS
    <2>2. PICK i \in ItemIds : p = PlaceOf(i)
      OBVIOUS
    <2>3. PICK j \in ItemIds : q = PlaceOf(j)
      OBVIOUS
    <2>4. After(q, p)
      BY <1>6, <2>1, <2>2, <2>3, PlacesAreOrdered
    <2>5. Behind(q) \subseteq Behind(p)
      BY <2>2, <2>3, <2>4, PlacesAreOrdered
    <2>6. j \in Behind(p) /\ j \notin Behind(q)
      BY <2>3, <2>4, PlacesAreOrdered
    <2> DEFINE m == Cardinality(Behind(q))
    <2>7. m < n
      <3> HIDE DEF Behind
      <3>1. /\ Cardinality(Behind(q)) <= Cardinality(Behind(p))
            /\ Cardinality(Behind(p)) = Cardinality(Behind(q)) => Behind(p) = Behind(q)
        BY <1>2, <2>5, FS_Subset
      <3> QED BY <3>1, <2>6, <1>2, <1>5
    <2>8. m \in Sizes /\ n \in Nat /\ m \in Nat
      <3> HIDE DEF Behind
      <3> QED BY <1>2, <1>5
    <2>9. <<m, n>> \in OpToRel(<, Nat)
      BY <2>7, <2>8 DEF OpToRel
    <2> QED BY <2>8, <2>9, <1>4
  <1>7. \E x \in batch : \A q \in batch \ {x} : After(x, q)
    BY <1>6
  <1> QED BY <1>7 DEF LastPlace
----------------------------------------------------------------------------
(* Steps that take nothing away: items stay where they are, one that is    *)
(* created in order comes behind them all, and safe items stay safe.       *)
Steady ==
  /\ \A j \in Existing : j \in Existing' /\ PlaceOf(j)' = PlaceOf(j)
  /\ \A i \in InOrder' : i \in InOrder \/ (i \notin Existing /\ \A j \in Existing : After(PlaceOf(i)', PlaceOf(j)))
  /\ \A i \in InOrder : Safe(i) => (Safe(i))'
  /\ \A i \in ItemIds : delivered[i] > 0 => delivered'[i] > 0

LEMMA SteadyPlaces ==
  ASSUME Steady, NEW p, KnownPlace(p)
  PROVE  /\ (KnownPlace(p))'
         /\ Cleared(p) => (Cleared(p))'
         /\ \A i \in InOrder' : i \in InOrder \/ After(PlaceOf(i)', p)
PROOF
  <1>1. (KnownPlace(p))'
    <2>1. CASE p = NoPlace
      BY <2>1 DEF KnownPlace
    <2>2. CASE \E j \in Existing : p = PlaceOf(j)
      <3>1. PICK j \in Existing : p = PlaceOf(j)
        BY <2>2
      <3>2. j \in Existing' /\ PlaceOf(j)' = p
        BY <3>1 DEF Steady
      <3> HIDE DEF PlaceOf, Existing
      <3> QED BY <3>2 DEF KnownPlace
    <2> QED BY <2>1, <2>2 DEF KnownPlace
  <1>2. ASSUME NEW i \in InOrder' PROVE i \in InOrder \/ After(PlaceOf(i)', p)
    BY DEF Steady, KnownPlace, After
  <1>3. ASSUME Cleared(p), NEW i \in InOrder' PROVE After(PlaceOf(i)', p) \/ (Safe(i))'
    <2>1. CASE i \in InOrder
      <3>1. i \in Existing /\ PlaceOf(i)' = PlaceOf(i)
        BY <2>1 DEF Steady, InOrder
      <3>2. After(PlaceOf(i), p) \/ Safe(i)
        BY <1>3, <2>1 DEF Cleared
      <3>3. Safe(i) => (Safe(i))'
        BY <2>1 DEF Steady
      <3> QED BY <3>1, <3>2, <3>3
    <2> QED BY <1>2, <2>1
  <1>4. Cleared(p) => (Cleared(p))'
    <2> SUFFICES ASSUME Cleared(p), NEW i \in InOrder' PROVE (After(PlaceOf(i), p) \/ Safe(i))'
      BY DEF Cleared
    <2>1. After(PlaceOf(i)', p) \/ (Safe(i))'
      BY <1>3
    <2> QED BY <2>1 DEF After
  <1> QED BY <1>1, <1>2, <1>4

(* What a consumer knows stays true.                                       *)
LEMMA SteadyConsumers ==
  ASSUME Steady, NEW s, ConsumerOK(s)
  PROVE  (ConsumerOK(s))'
PROOF
  <1>1. (Started(s))'
    <2>1. s.pc # "idle" => (KnownPlace(s.snap))' /\ (Cleared(s.snap))'
      BY SteadyPlaces DEF ConsumerOK, Started
    <2> QED BY <2>1 DEF ConsumerOK, Started
  <1>2. (Listing(s))'
    <2> SUFFICES ASSUME s.pc = "list"
                 PROVE  (/\ s.names \subseteq Existing
                         /\ \A i \in InOrder \ s.names : \A j \in s.names : After(PlaceOf(i), PlaceOf(j)))'
      BY DEF Listing
    <2>1. /\ s.names \subseteq Existing
          /\ \A i \in InOrder \ s.names : \A j \in s.names : After(PlaceOf(i), PlaceOf(j))
      BY DEF ConsumerOK, Listing
    <2>2. s.names \subseteq Existing'
      BY <2>1 DEF Steady
    <2>3. ASSUME NEW i \in InOrder', i \notin s.names, NEW j \in s.names
          PROVE  (After(PlaceOf(i), PlaceOf(j)))'
      <3>1. j \in Existing /\ PlaceOf(j)' = PlaceOf(j)
        BY <2>1 DEF Steady
      <3>2. CASE i \in InOrder
        <4>1. i \in Existing /\ PlaceOf(i)' = PlaceOf(i)
          BY <3>2 DEF InOrder, Steady
        <4>2. After(PlaceOf(i), PlaceOf(j))
          BY <2>1, <2>3, <3>2
        <4> QED BY <3>1, <4>1, <4>2 DEF After
      <3>3. CASE i \notin InOrder
        <4>1. After(PlaceOf(i)', PlaceOf(j))
          BY <2>3, <3>1, <3>3 DEF Steady
        <4> QED BY <3>1, <4>1 DEF After
      <3> QED BY <3>2, <3>3
    <2> QED BY <2>2, <2>3
  <1>3. (Loaded(s))'
    <2> SUFFICES ASSUME s.pc \in {"advance", "run", "ack", "ackWrite"}
                 PROVE  /\ \A q \in Load(s) :
                             /\ (KnownPlace(q))'
                             /\ \A i \in InOrder' :
                                  (After(PlaceOf(i), q) \/ Safe(i) \/ PlaceOf(i) \in Load(s))'
                        /\ \A q \in s.batch : q # NoPlace /\ After(q, s.cur)
      BY DEF Loaded, Load, After, NoPlace
    <2>1. /\ \A q \in Load(s) :
               /\ KnownPlace(q)
               /\ \A i \in InOrder : After(PlaceOf(i), q) \/ Safe(i) \/ PlaceOf(i) \in Load(s)
          /\ \A q \in s.batch : q # NoPlace /\ After(q, s.cur)
      BY DEF ConsumerOK, Loaded
    <2>2. ASSUME NEW q \in Load(s), NEW i \in InOrder'
          PROVE  (After(PlaceOf(i), q) \/ Safe(i) \/ PlaceOf(i) \in Load(s))'
      <3>1. CASE i \in InOrder
        <4>1. i \in Existing /\ PlaceOf(i)' = PlaceOf(i)
          BY <3>1 DEF InOrder, Steady
        <4>2. After(PlaceOf(i), q) \/ Safe(i) \/ PlaceOf(i) \in Load(s)
          BY <2>1, <3>1
        <4>3. Safe(i) => (Safe(i))'
          BY <3>1 DEF Steady
        <4> QED BY <4>1, <4>2, <4>3 DEF Load, After
      <3>2. CASE i \notin InOrder
        <4>1. After(PlaceOf(i)', q)
          BY <2>1, <3>2, SteadyPlaces
        <4> QED BY <4>1 DEF After
      <3> QED BY <3>1, <3>2
    <2> QED BY <2>1, <2>2, SteadyPlaces
  <1>4. (Acked(s))'
    <2> SUFFICES ASSUME s.pc \in {"ack", "ackWrite"}
                 PROVE  s.cur # NoPlace /\ delivered'[s.cur.id] > 0
      BY DEF Acked, NoPlace
    <2>1. s.cur # NoPlace /\ delivered[s.cur.id] > 0 /\ KnownPlace(s.cur)
      BY DEF ConsumerOK, Acked, Loaded, Load
    <2>2. s.cur.id \in ItemIds
      <3>1. PICK j \in Existing : s.cur = PlaceOf(j)
        BY <2>1 DEF KnownPlace
      <3>2. PlaceOf(j).id = j /\ j \in ItemIds
        BY DEF PlaceOf, Existing
      <3> QED BY <3>1, <3>2
    <2> QED BY <2>1, <2>2 DEF Steady
  <1> QED BY <1>1, <1>2, <1>3, <1>4 DEF ConsumerOK
----------------------------------------------------------------------------
LEMMA DeliveryInit == Init => DeliveryInv
PROOF
  <1> SUFFICES ASSUME Init PROVE DeliveryInv
    OBVIOUS
  <1> USE DEF Init, InitStore, InitConsume
  <1>1. NoFile \in Item
    BY IdleHasShape DEF NoFile, Item
  <1>2. IdleConsumer \in ConsumerState
    BY DEF IdleConsumer, ConsumerState
  <1>3. DeliveryShape
    BY <1>1, <1>2 DEF DeliveryShape
  <1>4. Existing = {}
    BY DEF Existing, NoFile
  <1>5. KnownPlace(cursor) /\ Cleared(cursor)
    BY <1>4 DEF KnownPlace, Cleared, InOrder
  <1>6. \A c \in Consumers : ConsumerOK(consumer[c])
    BY DEF ConsumerOK, Started, Listing, Loaded, Acked, IdleConsumer
  <1> QED BY <1>3, <1>5, <1>6 DEF DeliveryInv

(* Steps of other processes.                                               *)
LEMMA SteadyStepKeeps ==
  ASSUME DeliveryInv, Steady, DeliveryShape', UNCHANGED <<cursor, consumer>>
  PROVE  DeliveryInv'
PROOF
  <1>1. (KnownPlace(cursor) /\ Cleared(cursor))'
    <2>1. PICK p : p = cursor
      OBVIOUS
    <2>2. (KnownPlace(p))' /\ (Cleared(p))'
      BY <2>1, SteadyPlaces DEF DeliveryInv
    <2> QED BY <2>1, <2>2 DEF KnownPlace, Cleared
  <1>2. ASSUME NEW c \in Consumers PROVE ConsumerOK(consumer[c])'
    <2> DEFINE s == consumer[c]
    <2>1. ConsumerOK(s) /\ consumer'[c] = consumer[c]
      BY DEF DeliveryInv
    <2> QED BY <2>1, SteadyConsumers
  <1> QED BY <1>1, <1>2 DEF DeliveryInv

(* Items that are where they were.                                         *)
LEMMA SameItemsSteady ==
  ASSUME Existing' = Existing, late' = late, \A j \in Existing : PlaceOf(j)' = PlaceOf(j),
         \A i \in InOrder : Safe(i) => (Safe(i))',
         \A i \in ItemIds : delivered[i] > 0 => delivered'[i] > 0
  PROVE  Steady
PROOF
  BY DEF Steady, InOrder

LEMMA SameHandSafe ==
  ASSUME \A j \in Existing : PlaceOf(j)' = PlaceOf(j), UNCHANGED <<delivered, consumer>>
  PROVE  \A i \in InOrder : Safe(i) => (Safe(i))'
PROOF
  BY DEF Safe, InHand, InOrder

LEMMA CreateSteady ==
  ASSUME DeliveryInv, NEW i \in ItemIds, NEW t \in Clock, CreateItem(i, t),
         UNCHANGED <<crashes, consumer>>
  PROVE  DeliveryInv'
PROOF
  <1> DEFINE file == [status |-> "torn", observedAt |-> t]
             place == [observedAt |-> t, id |-> i]
  <1>1. /\ items[i].status = "absent" /\ items' = [items EXCEPT ![i] = file]
        /\ items \in [ItemIds -> Item] /\ file \in Item
        /\ UNCHANGED <<cursor, delivered>>
        /\ late' = IF \E j \in Existing : After(PlaceOf(j), place) THEN late \cup {i} ELSE late
    BY DEF DeliveryInv, DeliveryShape, CreateItem, Item
  <1>2. DeliveryShape'
    BY <1>1 DEF DeliveryInv, DeliveryShape
  <1>3. /\ Existing' = Existing \cup {i} /\ i \notin Existing
        /\ PlaceOf(i)' = place
        /\ \A j \in Existing : PlaceOf(j)' = PlaceOf(j)
    BY <1>1 DEF Existing, PlaceOf
  <1>4. ASSUME NEW k \in InOrder'
        PROVE  k \in InOrder \/ (k \notin Existing /\ \A j \in Existing : After(PlaceOf(k)', PlaceOf(j)))
    <2>1. CASE k # i
      BY <2>1, <1>1, <1>3 DEF InOrder
    <2>2. CASE k = i
      <3>1. late' = late /\ \A j \in Existing : ~After(PlaceOf(j), place)
        BY <2>2, <1>1 DEF InOrder
      <3>2. ASSUME NEW j \in Existing PROVE After(place, PlaceOf(j))
        <4>1. j \in ItemIds /\ j # i /\ i \in Nat /\ j \in Nat
          BY <1>3, FeedConstants DEF Existing, ItemIds
        <4>2. PlaceOf(j).observedAt \in Nat /\ PlaceOf(j).id = j /\ t \in Nat
          BY <4>1, FeedConstants DEF DeliveryInv, DeliveryShape, Item, PlaceOf, Clock
        <4>3. ~After(PlaceOf(j), place)
          BY <3>1
        <4> HIDE DEF PlaceOf
        <4> QED BY <4>1, <4>2, <4>3 DEF After
      <3> QED BY <2>2, <3>2, <1>3
    <2> QED BY <2>1, <2>2
  <1>5. \A j \in InOrder : Safe(j) => (Safe(j))'
    BY <1>1, <1>3, SameHandSafe
  <1>6. Steady
    BY <1>1, <1>3, <1>4, <1>5 DEF Steady
  <1> QED BY <1>1, <1>2, <1>6, SteadyStepKeeps

LEMMA FillSteady ==
  ASSUME DeliveryInv, NEW i, FillItem(i), UNCHANGED <<crashes, consumer>>
  PROVE  DeliveryInv'
PROOF
  <1>1. /\ UNCHANGED <<cursor, delivered, late>>
        /\ items' = IF items[i].status = "torn" THEN [items EXCEPT ![i].status = "written"] ELSE items
        /\ items \in [ItemIds -> Item]
    BY DEF FillItem, historyVars, DeliveryInv, DeliveryShape
  <1>2. /\ items' \in [ItemIds -> Item]
        /\ \A j \in ItemIds : /\ items'[j].observedAt = items[j].observedAt
                              /\ items'[j].status = "absent" <=> items[j].status = "absent"
    <2>1. CASE i \in ItemIds /\ items[i].status = "torn"
      BY <1>1, <2>1 DEF Item
    <2>2. CASE i \notin ItemIds
      BY <1>1, <2>2
    <2>3. CASE items[i].status # "torn"
      BY <1>1, <2>3
    <2> QED BY <2>1, <2>2, <2>3
  <1>3. DeliveryShape'
    BY <1>1, <1>2 DEF DeliveryInv, DeliveryShape
  <1>4. Existing' = Existing /\ \A j \in Existing : PlaceOf(j)' = PlaceOf(j)
    BY <1>2 DEF Existing, PlaceOf
  <1>5. Steady
    BY <1>1, <1>4, SameHandSafe, SameItemsSteady
  <1> QED BY <1>1, <1>3, <1>5, SteadyStepKeeps

(* A step that touches neither items nor consumers.                        *)
LEMMA QuietSteady ==
  ASSUME DeliveryInv, UNCHANGED <<items, cursor, consumer, late, delivered>>, crashes' \in Nat
  PROVE  DeliveryInv'
PROOF
  <1>1. DeliveryShape'
    BY DEF DeliveryInv, DeliveryShape
  <1>2. Existing' = Existing /\ \A j \in Existing : PlaceOf(j)' = PlaceOf(j)
    BY DEF Existing, PlaceOf
  <1>3. Steady
    BY <1>2, SameHandSafe, SameItemsSteady
  <1> QED BY <1>1, <1>3, SteadyStepKeeps
----------------------------------------------------------------------------
(* The steps of a consumer.                                                *)
LEMMA ConsumerFrame ==
  ASSUME DeliveryInv, NEW c \in Consumers, NEW from, NEW to, ConsumerStep(c, from, to)
  PROVE  /\ consumer[c] \in ConsumerState /\ consumer[c].pc = from /\ ConsumerOK(consumer[c])
         /\ consumer' = [consumer EXCEPT ![c] = to] /\ consumer'[c] = to
PROOF
  BY DEF DeliveryInv, DeliveryShape, ConsumerStep

(* One consumer moves, and the others know what they knew.                 *)
LEMMA ConsumerMoves ==
  ASSUME DeliveryInv, NEW c \in Consumers, NEW to \in ConsumerState,
         consumer' = [consumer EXCEPT ![c] = to],
         items' = items, crashes' \in Nat, delivered' \in [ItemIds -> Nat], Steady,
         KnownPlace(cursor)', Cleared(cursor)', (ConsumerOK(to))'
  PROVE  DeliveryInv'
PROOF
  <1>1. DeliveryShape'
    BY DEF DeliveryInv, DeliveryShape
  <1>2. ASSUME NEW d \in Consumers PROVE ConsumerOK(consumer[d])'
    <2>1. PICK s : s = consumer'[d]
      OBVIOUS
    <2>2. (ConsumerOK(s))'
      <3>1. CASE d = c
        <4>1. s = to
          BY <2>1, <3>1 DEF DeliveryInv, DeliveryShape
        <4> QED BY <4>1
      <3>2. CASE d # c
        <4>1. s = consumer[d]
          BY <2>1, <3>2 DEF DeliveryInv, DeliveryShape
        <4>2. ConsumerOK(s)
          BY <4>1 DEF DeliveryInv
        <4> QED BY <4>2, SteadyConsumers
      <3> QED BY <3>1, <3>2
    <2> QED BY <2>1, <2>2
  <1> QED BY <1>1, <1>2 DEF DeliveryInv

(* Nothing leaves a hand.                                                  *)
LEMMA HandsStay ==
  ASSUME DeliveryInv, NEW c \in Consumers, NEW from, NEW to, ConsumerStep(c, from, to),
         UNCHANGED <<items, late>>, from # "hand",
         \A i \in ItemIds : delivered[i] > 0 => delivered'[i] > 0
  PROVE  Steady /\ \A p : KnownPlace(p) => (KnownPlace(p))'
PROOF
  <1>1. Existing' = Existing /\ \A j \in Existing : PlaceOf(j)' = PlaceOf(j)
    BY DEF Existing, PlaceOf
  <1>2. ASSUME NEW i \in InOrder, InHand(i) PROVE (InHand(i))'
    <2>2. PICK e \in Consumers : consumer[e].pc = "hand" /\ PlaceOf(i) \in consumer[e].batch
      BY <1>2 DEF InHand
    <2>3. e # c /\ consumer'[e] = consumer[e]
      BY <2>2, ConsumerFrame DEF DeliveryInv, DeliveryShape
    <2>4. PlaceOf(i)' = PlaceOf(i)
      BY <1>1 DEF InOrder
    <2> QED BY <2>2, <2>3, <2>4 DEF InHand
  <1>3. \A i \in InOrder : Safe(i) => (Safe(i))'
    BY <1>2 DEF Safe, InOrder, Existing
  <1>4. Steady
    BY <1>1, <1>3, SameItemsSteady
  <1> QED BY <1>4, SteadyPlaces

(* A step that only moves a consumer on.                                   *)
LEMMA QuietConsumer ==
  ASSUME DeliveryInv, NEW c \in Consumers, NEW from, NEW to \in ConsumerState,
         ConsumerStep(c, from, to), UNCHANGED fileVars, UNCHANGED historyVars, crashes' \in Nat,
         from # "hand", ConsumerOK(to)
  PROVE  DeliveryInv'
PROOF
  <1>1. UNCHANGED <<items, late, delivered, cursor>>
    BY DEF fileVars, historyVars
  <1>2. Steady
    BY <1>1, HandsStay
  <1>3. (ConsumerOK(to))'
    BY <1>2, SteadyConsumers
  <1>4. KnownPlace(cursor)' /\ Cleared(cursor)'
    <2>1. PICK p : p = cursor
      OBVIOUS
    <2>2. (KnownPlace(p))' /\ (Cleared(p))'
      BY <1>2, <2>1, SteadyPlaces DEF DeliveryInv
    <2> QED BY <1>1, <2>1, <2>2
  <1>5. consumer' = [consumer EXCEPT ![c] = to]
    BY ConsumerFrame
  <1>6. delivered' \in [ItemIds -> Nat]
    BY <1>1 DEF DeliveryInv, DeliveryShape
  <1> QED BY <1>1, <1>2, <1>3, <1>4, <1>5, <1>6, ConsumerMoves

LEMMA IdleKnowsNothing == IdleConsumer \in ConsumerState /\ ConsumerOK(IdleConsumer)
PROOF
  BY DEF IdleConsumer, ConsumerState, ConsumerOK, Started, Listing, Loaded, Acked

(* Whoever gives up, and is not handing over, forgets what it knew.        *)
LEMMA GivingUpKeeps ==
  ASSUME DeliveryInv, NEW c \in Consumers, NEW from, ConsumerStep(c, from, IdleConsumer),
         UNCHANGED fileVars, UNCHANGED historyVars, crashes' \in Nat, from # "hand"
  PROVE  DeliveryInv'
PROOF
  BY IdleKnowsNothing, QuietConsumer

LEMMA ReadCursorKeeps == ASSUME DeliveryInv, NEW c \in Consumers, ReadCursor(c) PROVE DeliveryInv'
PROOF
  <1>1. PICK filter \in Filters, advance \in Advances :
          ConsumerStep(c, "idle", [IdleConsumer EXCEPT !.pc = "readdir", !.advance = advance,
                                                       !.filter = filter, !.snap = cursor])
    BY DEF ReadCursor
  <1> DEFINE to == [IdleConsumer EXCEPT !.pc = "readdir", !.advance = advance,
                                        !.filter = filter, !.snap = cursor]
  <1>2. UNCHANGED fileVars /\ UNCHANGED historyVars /\ crashes' \in Nat
    BY DEF ReadCursor, envVars, DeliveryInv, DeliveryShape
  <1>3. cursor \in Place \cup {NoPlace}
    <2>1. \A j \in Existing : PlaceOf(j) \in Place
      BY PlacesAreOrdered DEF Existing, DeliveryInv
    <2> QED BY <2>1 DEF DeliveryInv, KnownPlace
  <1>4. filter \in SUBSET ItemIds /\ advance \in BOOLEAN
    BY FeedConstants DEF ItemIds
  <1>5. to \in ConsumerState
    BY <1>3, <1>4, IdleKnowsNothing DEF ConsumerState
  <1>6. /\ to.pc = "readdir" /\ to.filter = filter /\ to.advance = advance
        /\ to.cur = NoPlace /\ to.snap = cursor
    BY DEF IdleConsumer
  <1>7. ConsumerOK(to)
    <2> HIDE DEF to
    <2> QED BY <1>6 DEF ConsumerOK, Started, Listing, Loaded, Acked, DeliveryInv
  <1>8. ConsumerStep(c, "idle", to)
    BY <1>1
  <1> HIDE DEF to
  <1> QED BY <1>2, <1>5, <1>7, <1>8, QuietConsumer

LEMMA ReadDirectoryKeeps ==
  ASSUME DeliveryInv, NEW c \in Consumers, ReadDirectory(c) PROVE DeliveryInv'
PROOF
  <1> DEFINE to == [consumer[c] EXCEPT !.pc = "list", !.names = Existing]
  <1>1. /\ ConsumerStep(c, "readdir", to) /\ UNCHANGED fileVars /\ UNCHANGED historyVars
        /\ crashes' \in Nat
    BY DEF ReadDirectory, envVars, DeliveryInv, DeliveryShape
  <1>2. consumer[c] \in ConsumerState /\ consumer[c].pc = "readdir" /\ ConsumerOK(consumer[c])
    BY <1>1, ConsumerFrame
  <1>3. /\ to \in ConsumerState /\ to.pc = "list" /\ to.names = Existing
        /\ to.filter = consumer[c].filter /\ to.advance = consumer[c].advance
        /\ to.cur = consumer[c].cur /\ to.snap = consumer[c].snap
    BY <1>2 DEF ConsumerState, Existing
  <1>4. ConsumerOK(to)
    <2> HIDE DEF to
    <2>1. InOrder \subseteq Existing
      BY DEF InOrder
    <2> QED BY <1>2, <1>3, <2>1 DEF ConsumerOK, Started, Listing, Loaded, Acked
  <1> HIDE DEF to
  <1> QED BY <1>1, <1>3, <1>4, QuietConsumer
(* The listing: nothing before the last item of the batch is left out, as  *)
(* it was cleared before, or is in the batch.                              *)
LEMMA ListItemsKeeps ==
  ASSUME DeliveryInv, Undisturbed, NEW c \in Consumers, ListItems(c) PROVE DeliveryInv'
PROOF
  <1> DEFINE s == consumer[c]
             unseen(listed) == {p \in {PlaceOf(i) : i \in listed \cap s.filter} : After(p, s.snap)}
             pc == IF s.advance THEN "advance" ELSE "run"
             to(batch) == [s EXCEPT !.pc = pc, !.names = {}, !.batch = batch]
  <1>1. PICK listed \in SUBSET s.names, batch \in SUBSET {PlaceOf(i) : i \in Written} :
          /\ listFeedItems(s.names, listed)
          /\ FirstPlaces(unseen(listed), batch)
          /\ ConsumerStep(c, "list", to(batch))
    BY DEF ListItems
  <1>2. UNCHANGED fileVars /\ UNCHANGED historyVars /\ crashes' \in Nat
    BY DEF ListItems, envVars, DeliveryInv, DeliveryShape
  <1>3. s \in ConsumerState /\ s.pc = "list" /\ ConsumerOK(s)
    BY <1>1, ConsumerFrame
  <1>4. /\ s.names \subseteq Existing /\ listed = s.names
        /\ \A i \in InOrder \ s.names : \A j \in s.names : After(PlaceOf(i), PlaceOf(j))
    BY <1>1, <1>3 DEF ConsumerOK, Listing, listFeedItems
  <1>5. /\ s.filter \in Filters /\ s.cur = NoPlace /\ Cleared(s.snap) /\ KnownPlace(s.snap)
        /\ s.advance => TRUE \in Advances
    BY <1>3 DEF ConsumerOK, Started
  <1>6. s.filter = Consumed
    BY <1>5 DEF Undisturbed, Consumed
  <1>7. /\ batch \subseteq unseen(listed)
        /\ \A p \in batch, q \in unseen(listed) \ batch : After(q, p)
    BY <1>1 DEF FirstPlaces
  <1>8. \A q \in batch : \E j \in s.names : q = PlaceOf(j)
    BY <1>4, <1>7
  <1>9. \A q \in batch : q \in Place /\ q # NoPlace /\ KnownPlace(q)
    BY <1>4, <1>8, PlacesAreOrdered DEF KnownPlace, Existing, DeliveryInv
  <1>10. ASSUME NEW q \in batch, NEW i \in InOrder
         PROVE  After(PlaceOf(i), q) \/ Safe(i) \/ PlaceOf(i) \in batch
    <2>1. CASE i \notin s.names
      BY <2>1, <1>4, <1>8
    <2>2. CASE i \in s.names /\ ~After(PlaceOf(i), s.snap)
      BY <2>2, <1>5 DEF Cleared
    <2>3. CASE i \in s.names /\ After(PlaceOf(i), s.snap)
      <3>1. PlaceOf(i) \in unseen(listed)
        BY <2>3, <1>4, <1>6 DEF InOrder
      <3> QED BY <3>1, <1>7
    <2> QED BY <2>1, <2>2, <2>3
  <1>11. /\ to(batch) \in ConsumerState /\ to(batch).pc = pc /\ to(batch).batch = batch
         /\ to(batch).filter = s.filter /\ to(batch).advance = s.advance
         /\ to(batch).cur = NoPlace /\ to(batch).snap = s.snap
    BY <1>3, <1>5, <1>9 DEF ConsumerState
  <1>12. ConsumerOK(to(batch))
    <2>1. PICK t : t = to(batch)
      OBVIOUS
    <2> HIDE DEF to, s
    <2>2. Started(t) /\ Listing(t) /\ Acked(t)
      BY <2>1, <1>5, <1>11 DEF Started, Listing, Acked
    <2>3. Load(t) = batch \cup {NoPlace}
      BY <2>1, <1>11 DEF Load
    <2>4. \A q \in batch : After(q, NoPlace)
      BY DEF After
    <2>5. KnownPlace(NoPlace) /\ \A i \in InOrder : After(PlaceOf(i), NoPlace)
      BY DEF KnownPlace, After
    <2>6. Loaded(t)
      BY <2>1, <2>3, <2>4, <2>5, <1>9, <1>10, <1>11 DEF Loaded
    <2> QED BY <2>1, <2>2, <2>6 DEF ConsumerOK
  <1>13. PICK t : t = to(batch)
    OBVIOUS
  <1> HIDE DEF to, s
  <1> QED BY <1>1, <1>2, <1>11, <1>12, <1>13, QuietConsumer

LEMMA RunTargetKeeps == ASSUME DeliveryInv, NEW c \in Consumers, RunTarget(c) PROVE DeliveryInv'
PROOF
  <1>1. PICK p \in consumer[c].batch :
          /\ \A q \in consumer[c].batch \ {p} : After(q, p)
          /\ ConsumerStep(c, "run", [consumer[c] EXCEPT !.cur = p, !.batch = @ \ {p}])
    BY DEF RunTarget
  <1> DEFINE s == consumer[c]
             to == [s EXCEPT !.cur = p, !.batch = @ \ {p}]
  <1>2. UNCHANGED fileVars /\ UNCHANGED historyVars /\ crashes' \in Nat /\ s.cur = NoPlace
    BY DEF RunTarget, envVars, DeliveryInv, DeliveryShape
  <1>3. s \in ConsumerState /\ s.pc = "run" /\ ConsumerOK(s)
    BY <1>1, ConsumerFrame
  <1>4. /\ to \in ConsumerState /\ to.pc = "run" /\ to.batch = s.batch \ {p} /\ to.cur = p
        /\ to.filter = s.filter /\ to.advance = s.advance /\ to.snap = s.snap
    BY <1>3 DEF ConsumerState
  <1>5. ConsumerStep(c, "run", to)
    BY <1>1
  <1> HIDE DEF to
  <1>6. Started(to) /\ Listing(to) /\ Acked(to)
    BY <1>3, <1>4 DEF ConsumerOK, Started, Listing, Acked
  <1>7. Load(to) \cup {NoPlace} = Load(s)
    BY <1>2, <1>4 DEF Load
  <1>8. \A i \in InOrder : PlaceOf(i) # NoPlace
    BY PlacesAreOrdered DEF InOrder, Existing, DeliveryInv
  <1>9. Loaded(to)
    BY <1>1, <1>3, <1>4, <1>7, <1>8 DEF ConsumerOK, Loaded
  <1> QED BY <1>2, <1>4, <1>5, <1>6, <1>9, QuietConsumer DEF ConsumerOK

(* The item read again is the one that was delivered.                      *)
LEMMA ReadAcknowledgedKeeps ==
  ASSUME DeliveryInv, NEW c \in Consumers, ReadAcknowledged(c) PROVE DeliveryInv'
PROOF
  <1> DEFINE s == consumer[c]
             i == s.cur.id
             to == [s EXCEPT !.pc = "ackWrite", !.cur = PlaceOf(i)]
  <1>1. UNCHANGED fileVars /\ UNCHANGED historyVars /\ crashes' \in Nat
    BY DEF ReadAcknowledged, envVars, DeliveryInv, DeliveryShape
  <1>2. ConsumerStep(c, "ack", IF items[i].status = "written" THEN to ELSE IdleConsumer)
    BY DEF ReadAcknowledged
  <1>3. CASE items[i].status # "written"
    BY <1>1, <1>2, <1>3, GivingUpKeeps
  <1>4. CASE items[i].status = "written"
    <2>1. ConsumerStep(c, "ack", to)
      BY <1>2, <1>4
    <2>2. s \in ConsumerState /\ s.pc = "ack" /\ ConsumerOK(s)
      BY <2>1, ConsumerFrame
    <2>3. s.cur # NoPlace /\ KnownPlace(s.cur)
      BY <2>2 DEF ConsumerOK, Loaded, Acked, Load
    <2>4. PlaceOf(i) = s.cur
      BY <2>3, PlacesAreOrdered DEF KnownPlace, Existing, DeliveryInv
    <2>5. /\ to \in ConsumerState /\ to.pc = "ackWrite" /\ to.batch = s.batch /\ to.cur = s.cur
          /\ to.filter = s.filter /\ to.advance = s.advance /\ to.snap = s.snap
      BY <2>2, <2>4 DEF ConsumerState
    <2> HIDE DEF to, s
    <2>6. ConsumerOK(to)
      BY <2>2, <2>5 DEF ConsumerOK, Started, Listing, Acked, Loaded, Load
    <2> QED BY <1>1, <2>1, <2>5, <2>6, QuietConsumer
  <1> QED BY <1>3, <1>4
(* A collect advances over its batch and has it in hand in one step.       *)
LEMMA AdvanceKeeps == ASSUME DeliveryInv, NEW c \in Consumers, AdvanceOnCollect(c) PROVE DeliveryInv'
PROOF
  <1> DEFINE s == consumer[c]
             to == [s EXCEPT !.pc = "hand"]
  <1>1. /\ ConsumerStep(c, "advance", to) /\ UNCHANGED <<items, late, delivered>>
        /\ crashes' \in Nat
        /\ cursor' = IF s.batch = {} THEN s.snap ELSE LastPlace(s.batch)
    BY DEF AdvanceOnCollect, envVars, historyVars, DeliveryInv, DeliveryShape
  <1>2. /\ s \in ConsumerState /\ s.pc = "advance" /\ ConsumerOK(s)
        /\ consumer' = [consumer EXCEPT ![c] = to] /\ consumer'[c] = to
    BY <1>1, ConsumerFrame
  <1>3. Steady /\ \A p : KnownPlace(p) => (KnownPlace(p))'
    BY <1>1, HandsStay
  <1>4. s.cur = NoPlace /\ KnownPlace(s.snap) /\ Cleared(s.snap)
    BY <1>2 DEF ConsumerOK, Started
  <1>5. /\ to \in ConsumerState /\ to.pc = "hand" /\ to.batch = s.batch /\ to.cur = s.cur
        /\ to.filter = s.filter /\ to.advance = s.advance /\ to.snap = s.snap
    BY <1>2 DEF ConsumerState
  <1> HIDE DEF to, s
  <1>6. ConsumerOK(to)
    BY <1>2, <1>5 DEF ConsumerOK, Started, Listing, Acked, Loaded
  <1>7. PICK t : t = to
    OBVIOUS
  <1>8. (ConsumerOK(t))'
    BY <1>3, <1>6, <1>7, SteadyConsumers
  <1>9. /\ \A q \in s.batch : /\ q # NoPlace /\ KnownPlace(q)
                             /\ \A i \in InOrder : \/ After(PlaceOf(i), q) \/ Safe(i)
                                                   \/ PlaceOf(i) \in s.batch \cup {NoPlace}
    BY <1>2, <1>4 DEF ConsumerOK, Loaded, Load
  <1>10. (KnownPlace(cursor) /\ Cleared(cursor))'
    <2>1. PICK p : p = cursor'
      OBVIOUS
    <2>2. CASE s.batch = {}
      BY <1>1, <1>3, <1>4, <2>1, <2>2, SteadyPlaces
    <2>3. CASE s.batch # {}
      <3>1. \A q \in s.batch : \E j \in ItemIds : q = PlaceOf(j)
        BY <1>9 DEF KnownPlace, Existing
      <3>2. p \in s.batch
        BY <1>1, <2>1, <2>3, <3>1, LastExists DEF DeliveryInv
      <3>3. (KnownPlace(p))'
        BY <1>3, <1>9, <3>2
      <3>4. ASSUME NEW i \in InOrder' PROVE (After(PlaceOf(i), p) \/ Safe(i))'
        <4>1. i \in InOrder /\ PlaceOf(i)' = PlaceOf(i) /\ PlaceOf(i) # NoPlace
          BY <1>1, PlacesAreOrdered DEF InOrder, Existing, PlaceOf, DeliveryInv
        <4>2. After(PlaceOf(i), p) \/ Safe(i) \/ PlaceOf(i) \in s.batch
          BY <1>9, <3>2, <4>1
        <4>3. CASE PlaceOf(i) \in s.batch
          <5>1. (InHand(i))'
            BY <1>2, <1>5, <4>1, <4>3 DEF InHand
          <5> QED BY <5>1 DEF Safe
        <4>4. CASE Safe(i)
          BY <1>3, <4>1, <4>4 DEF Steady
        <4>5. CASE After(PlaceOf(i), p)
          BY <4>1, <4>5 DEF After
        <4> QED BY <4>2, <4>3, <4>4, <4>5
      <3>5. (Cleared(p))'
        BY <3>4 DEF Cleared
      <3> QED BY <2>1, <3>3, <3>5
    <2> QED BY <2>2, <2>3
  <1>11. delivered' \in [ItemIds -> Nat] /\ items' = items
    BY <1>1 DEF DeliveryInv, DeliveryShape
  <1> QED BY <1>1, <1>2, <1>3, <1>5, <1>7, <1>8, <1>10, <1>11, ConsumerMoves

(* Counting a success.                                                     *)
LEMMA OneMore == ASSUME NEW n \in Nat PROVE Min({n + 1, 2}) \in Nat /\ Min({n + 1, 2}) > 0
PROOF
  <1>1. \E x \in {n + 1, 2} : \A y \in {n + 1, 2} : x =< y
    <2>1. CASE n + 1 =< 2
      BY <2>1
    <2>2. CASE ~(n + 1 =< 2)
      BY <2>2
    <2> QED BY <2>1, <2>2
  <1>2. Min({n + 1, 2}) \in {n + 1, 2}
    BY <1>1 DEF Min
  <1> QED BY <1>2

(* What was in hand is delivered.                                          *)
LEMMA HandOverKeeps == ASSUME DeliveryInv, NEW c \in Consumers, HandOver(c) PROVE DeliveryInv'
PROOF
  <1> DEFINE batch == consumer[c].batch
  <1>1. /\ ConsumerStep(c, "hand", IdleConsumer) /\ UNCHANGED <<items, late, cursor>>
        /\ crashes' \in Nat
        /\ delivered' = [i \in ItemIds |-> IF \E p \in batch : p.id = i
                                           THEN Min({delivered[i] + 1, 2}) ELSE delivered[i]]
    BY DEF HandOver, envVars, fileVars, DeliveryInv, DeliveryShape
  <1>2. consumer' = [consumer EXCEPT ![c] = IdleConsumer] /\ DOMAIN consumer = Consumers
    BY <1>1, ConsumerFrame DEF DeliveryInv, DeliveryShape
  <1>3. delivered \in [ItemIds -> Nat]
    BY DEF DeliveryInv, DeliveryShape
  <1>4. /\ delivered' \in [ItemIds -> Nat]
        /\ \A i \in ItemIds : (\E p \in batch : p.id = i) \/ delivered[i] > 0 => delivered'[i] > 0
    BY <1>1, <1>3, OneMore
  <1>5. Existing' = Existing /\ \A j \in Existing : PlaceOf(j)' = PlaceOf(j)
    BY <1>1 DEF Existing, PlaceOf
  <1>6. ASSUME NEW i \in InOrder, Safe(i) PROVE (Safe(i))'
    <2>1. i \in ItemIds /\ PlaceOf(i)' = PlaceOf(i) /\ PlaceOf(i).id = i
      BY <1>5, PlacesAreOrdered DEF InOrder, Existing, DeliveryInv
    <2>2. CASE delivered[i] > 0
      BY <1>4, <2>1, <2>2 DEF Safe
    <2>3. CASE InHand(i)
      <3>1. PICK e \in Consumers : consumer[e].pc = "hand" /\ PlaceOf(i) \in consumer[e].batch
        BY <2>3 DEF InHand
      <3>2. CASE e = c
        BY <3>1, <3>2, <2>1, <1>4 DEF Safe
      <3>3. CASE e # c
        <4>1. consumer'[e] = consumer[e]
          BY <1>2, <3>3
        <4>2. (InHand(i))'
          BY <2>1, <3>1, <4>1 DEF InHand
        <4> QED BY <4>2 DEF Safe
      <3> QED BY <3>2, <3>3
    <2> QED BY <1>6, <2>2, <2>3 DEF Safe
  <1>7. \A i \in ItemIds : delivered[i] > 0 => delivered'[i] > 0
    BY <1>4
  <1>8. Steady
    BY <1>1, <1>5, <1>6, <1>7, SameItemsSteady
  <1>9. (KnownPlace(cursor) /\ Cleared(cursor))'
    <2>1. PICK p : p = cursor
      OBVIOUS
    <2>2. (KnownPlace(p))' /\ (Cleared(p))'
      BY <1>8, <2>1, SteadyPlaces DEF DeliveryInv
    <2> QED BY <1>1, <2>1, <2>2
  <1>10. (ConsumerOK(IdleConsumer))'
    BY <1>8, IdleKnowsNothing, SteadyConsumers
  <1> QED BY <1>1, <1>2, <1>4, <1>8, <1>9, <1>10, IdleKnowsNothing, ConsumerMoves
(* A success is counted before the cursor moves...                         *)
LEMMA TargetSucceedsKeeps ==
  ASSUME DeliveryInv, NEW c \in Consumers, TargetSucceeds(c) PROVE DeliveryInv'
PROOF
  <1> DEFINE s == consumer[c]
             i == s.cur.id
             to == [s EXCEPT !.pc = "ack"]
  <1>1. /\ ConsumerStep(c, "run", to) /\ UNCHANGED <<items, late, cursor>> /\ crashes' \in Nat
        /\ s.cur # NoPlace
        /\ delivered' = [delivered EXCEPT ![i] = Min({@ + 1, 2})]
    BY DEF TargetSucceeds, envVars, fileVars, DeliveryInv, DeliveryShape
  <1>2. /\ s \in ConsumerState /\ s.pc = "run" /\ ConsumerOK(s)
        /\ consumer' = [consumer EXCEPT ![c] = to] /\ consumer'[c] = to
    BY <1>1, ConsumerFrame
  <1>3. i \in ItemIds
    <2>1. KnownPlace(s.cur)
      BY <1>2 DEF ConsumerOK, Loaded, Load
    <2>2. PICK j \in Existing : s.cur = PlaceOf(j)
      BY <1>1, <2>1 DEF KnownPlace
    <2>3. PlaceOf(j).id = j /\ j \in ItemIds
      BY DEF PlaceOf, Existing
    <2> QED BY <2>2, <2>3
  <1>4. /\ delivered' \in [ItemIds -> Nat] /\ delivered'[i] > 0
        /\ \A j \in ItemIds : delivered[j] > 0 => delivered'[j] > 0
    <2>1. delivered \in [ItemIds -> Nat]
      BY DEF DeliveryInv, DeliveryShape
    <2> HIDE DEF i
    <2> QED BY <1>1, <1>3, <2>1, OneMore
  <1>5. Steady
    BY <1>1, <1>4, HandsStay
  <1>6. /\ to \in ConsumerState /\ to.pc = "ack" /\ to.batch = s.batch /\ to.cur = s.cur
        /\ to.filter = s.filter /\ to.advance = s.advance /\ to.snap = s.snap
    BY <1>2 DEF ConsumerState
  <1>7. PICK t : t = to
    OBVIOUS
  <1>8. PICK r : r = s
    OBVIOUS
  <1> HIDE DEF to, s, i
  <1>9. (ConsumerOK(r))'
    BY <1>2, <1>5, <1>8, SteadyConsumers
  <1>10. (ConsumerOK(t))'
    <2>1. /\ t.pc = "ack" /\ r.pc = "run" /\ t.batch = r.batch /\ t.cur = r.cur
          /\ t.filter = r.filter /\ t.advance = r.advance /\ t.snap = r.snap
      BY <1>2, <1>6, <1>7, <1>8
    <2>2. t.cur # NoPlace /\ delivered'[t.cur.id] > 0
      BY <1>1, <1>4, <1>6, <1>7 DEF i
    <2>3. (Started(t))' /\ (Listing(t))' /\ (Loaded(t))'
      BY <2>1, <1>9 DEF ConsumerOK, Started, Listing, Loaded, Load
    <2>4. (Acked(t))'
      BY <2>2 DEF Acked, NoPlace
    <2> QED BY <2>3, <2>4 DEF ConsumerOK
  <1>11. (KnownPlace(cursor) /\ Cleared(cursor))'
    <2>1. PICK p : p = cursor
      OBVIOUS
    <2>2. (KnownPlace(p))' /\ (Cleared(p))'
      BY <1>5, <2>1, SteadyPlaces DEF DeliveryInv
    <2> QED BY <1>1, <2>1, <2>2
  <1> QED BY <1>1, <1>2, <1>4, <1>5, <1>6, <1>7, <1>10, <1>11, ConsumerMoves

(* ... to the item delivered: what comes before it was delivered, too, as  *)
(* the rest of the batch comes after it.                                   *)
LEMMA WriteAcknowledgedKeeps ==
  ASSUME DeliveryInv, NEW c \in Consumers, WriteAcknowledged(c) PROVE DeliveryInv'
PROOF
  <1> DEFINE s == consumer[c]
             to == [s EXCEPT !.pc = "run", !.cur = NoPlace]
  <1>1. /\ ConsumerStep(c, "ackWrite", to) /\ UNCHANGED <<items, late, delivered>>
        /\ crashes' \in Nat /\ cursor' = s.cur
    BY DEF WriteAcknowledged, envVars, historyVars, DeliveryInv, DeliveryShape
  <1>2. /\ s \in ConsumerState /\ s.pc = "ackWrite" /\ ConsumerOK(s)
        /\ consumer' = [consumer EXCEPT ![c] = to] /\ consumer'[c] = to
    BY <1>1, ConsumerFrame
  <1>3. Steady
    BY <1>1, HandsStay
  <1>4. /\ to \in ConsumerState /\ to.pc = "run" /\ to.batch = s.batch /\ to.cur = NoPlace
        /\ to.filter = s.filter /\ to.advance = s.advance /\ to.snap = s.snap
    BY <1>2 DEF ConsumerState
  <1>5. /\ s.cur # NoPlace /\ delivered[s.cur.id] > 0
        /\ \A q \in Load(s) :
             /\ KnownPlace(q)
             /\ \A i \in InOrder : After(PlaceOf(i), q) \/ Safe(i) \/ PlaceOf(i) \in Load(s)
        /\ \A q \in s.batch : q # NoPlace /\ After(q, s.cur)
    BY <1>2 DEF ConsumerOK, Acked, Loaded
  <1>6. s.cur \in Load(s) /\ Load(s) = s.batch \cup {s.cur}
    BY DEF Load
  <1>7. \A i \in InOrder : PlaceOf(i) = s.cur => Safe(i)
    BY <1>5, PlacesAreOrdered DEF InOrder, Existing, Safe, DeliveryInv
  <1> HIDE DEF to, s
  <1>8. KnownPlace(s.cur) /\ Cleared(s.cur)
    BY <1>5, <1>6, <1>7 DEF Cleared
  <1>9. Loaded(to)
    <2>1. Load(to) = s.batch \cup {NoPlace}
      BY <1>4 DEF Load
    <2>2. KnownPlace(NoPlace) /\ \A q : After(q, NoPlace)
      BY DEF KnownPlace, After
    <2> QED BY <1>4, <1>5, <1>6, <1>7, <2>1, <2>2 DEF Loaded
  <1>10. ConsumerOK(to)
    BY <1>2, <1>4, <1>9 DEF ConsumerOK, Started, Listing, Acked
  <1>11. PICK t : t = to
    OBVIOUS
  <1>12. (ConsumerOK(t))'
    BY <1>3, <1>10, <1>11, SteadyConsumers
  <1>13. (KnownPlace(cursor) /\ Cleared(cursor))'
    <2>1. PICK p : p = s.cur
      OBVIOUS
    <2>2. (KnownPlace(p))' /\ (Cleared(p))'
      BY <1>3, <1>8, <2>1, SteadyPlaces
    <2> QED BY <1>1, <2>1, <2>2
  <1>14. delivered' \in [ItemIds -> Nat] /\ items' = items
    BY <1>1 DEF DeliveryInv, DeliveryShape
  <1> QED BY <1>1, <1>2, <1>3, <1>4, <1>11, <1>12, <1>13, <1>14, ConsumerMoves

(* A dispatch ends or gives up; a collect that has advanced does not die.  *)
LEMMA EndsKeep ==
  ASSUME DeliveryInv, Undisturbed, NEW c \in Consumers,
         ListItemsFails(c) \/ DispatchDone(c) \/ ConsumerFault(c)
  PROVE  DeliveryInv'
PROOF
  <1>1. CASE ListItemsFails(c)
    BY <1>1, GivingUpKeeps DEF ListItemsFails, envVars, DeliveryInv, DeliveryShape
  <1>2. CASE DispatchDone(c)
    BY <1>2, GivingUpKeeps DEF DispatchDone, envVars, DeliveryInv, DeliveryShape
  <1>3. CASE TargetFails(c)
    BY <1>3, GivingUpKeeps DEF TargetFails, Fails, DeliveryInv, DeliveryShape
  <1>4. CASE ConsumerDies(c)
    <2>1. /\ ConsumerStep(c, consumer[c].pc, IdleConsumer)
          /\ UNCHANGED fileVars /\ UNCHANGED historyVars
          /\ crashes' = crashes + 1 /\ crashes < MaxCrashes /\ crashes \in Nat
      BY <1>4 DEF ConsumerDies, Dies, DeliveryInv, DeliveryShape
    <2>2. MaxCrashes # 0
      BY <2>1
    <2>3. consumer[c].pc # "hand"
      BY <2>2 DEF Undisturbed, DeliveryInv, ConsumerOK, Started
    <2> QED BY <2>1, <2>3, GivingUpKeeps
  <1> QED BY <1>1, <1>2, <1>3, <1>4 DEF ConsumerFault

----------------------------------------------------------------------------
(* Polls and appends create and fill files.                                *)
LEMMA IntakeKeepsDelivery ==
  ASSUME DeliveryInv, IntakeInv, UNCHANGED <<consumer, cursor>>, crashes' \in Nat,
         \/ UNCHANGED <<items, late, delivered>>
         \/ crashes' = crashes /\ \E i \in ItemIds, t \in Clock : CreateItem(i, t)
         \/ crashes' = crashes /\ \E i : FillItem(i)
  PROVE  DeliveryInv'
PROOF
  BY QuietSteady, CreateSteady, FillSteady

LEMMA PollsKeepDelivery ==
  ASSUME DeliveryInv, IntakeInv, NEW p \in Pollers,
         StartPoll(p) \/ PollerStep(p) \/ PollerFault(p)
  PROVE  DeliveryInv'
PROOF
  <1>1. UNCHANGED <<consumer, cursor>> /\ crashes' \in Nat
    <2>1. UNCHANGED cursor
      BY DEF StartPoll, PollerStep, PollerFault, ReadCheckpoint, FetchNotModified, FetchDocument,
             FetchEmpty, FetchFails, StoreItem, StoreDuplicate, FillStored, StoredAll, StoreFails,
             WriteCheckpoint, WriteFailure, PollerDies, CreateItem, FillItem, fileVars
    <2>2. \E from, to : PollStep(p, from, to)
      BY DEF StartPoll, PollerStep, PollerFault, ReadCheckpoint, FetchNotModified, FetchDocument,
             FetchEmpty, FetchFails, StoreItem, StoreDuplicate, FillStored, StoredAll, StoreFails,
             WriteCheckpoint, WriteFailure, PollerDies
    <2>3. UNCHANGED crashes \/ crashes' = crashes + 1
      BY DEF StartPoll, PollerStep, PollerFault, ReadCheckpoint, FetchNotModified, FetchDocument,
             FetchEmpty, FetchFails, StoreItem, StoreDuplicate, FillStored, StoredAll, StoreFails,
             WriteCheckpoint, WriteFailure, PollerDies, Fails, Dies, envVars
    <2> QED BY <2>1, <2>2, <2>3 DEF PollStep, DeliveryInv, DeliveryShape
  <1>2. CASE StoreItem(p)
    <2>1. PICK i \in poller[p].todo : CreateItem(i, poller[p].startedAt)
      BY <1>2 DEF StoreItem
    <2>2. i \in ItemIds /\ poller[p].startedAt \in Clock /\ crashes' = crashes
      BY <1>2 DEF IntakeInv, FeedShape, PollerShape, ItemIds, StoreItem, envVars
    <2> QED BY <1>1, <2>1, <2>2, IntakeKeepsDelivery
  <1>3. CASE FillStored(p)
    BY <1>1, <1>3, IntakeKeepsDelivery DEF FillStored, envVars
  <1>4. CASE ~StoreItem(p) /\ ~FillStored(p)
    <2>1. UNCHANGED <<items, late, delivered>>
      BY <1>4
      DEF StartPoll, PollerStep, PollerFault, ReadCheckpoint, FetchNotModified, FetchDocument,
          FetchEmpty, FetchFails, StoreDuplicate, StoredAll, StoreFails, WriteCheckpoint,
          WriteFailure, PollerDies, fileVars, historyVars
    <2> QED BY <1>1, <2>1, IntakeKeepsDelivery
  <1> QED BY <1>2, <1>3, <1>4

LEMMA AppendsKeepDelivery ==
  ASSUME DeliveryInv, IntakeInv, NEW a \in Appenders, AppendFeedItem(a) \/ FillAppended(a)
  PROVE  DeliveryInv'
PROOF
  <1>1. UNCHANGED <<consumer, cursor, crashes>> /\ crashes \in Nat
    BY DEF AppendFeedItem, FillAppended, AppendStep, CreateItem, FillItem, envVars, DeliveryInv,
           DeliveryShape
  <1>2. (\E i \in ItemIds, t \in Clock : CreateItem(i, t)) \/ \E i : FillItem(i)
    BY DEF AppendFeedItem, FillAppended, ItemIds
  <1> QED BY <1>1, <1>2, IntakeKeepsDelivery

LEMMA DeliveryStep == DeliveryInv /\ IntakeInv /\ Undisturbed /\ [Next]_vars => DeliveryInv'
PROOF
  <1> SUFFICES ASSUME DeliveryInv, IntakeInv, Undisturbed, [Next]_vars PROVE DeliveryInv'
    OBVIOUS
  <1>1. CASE Publish \/ TimePasses \/ UNCHANGED vars
    BY <1>1, QuietSteady DEF Publish, TimePasses, vars, envVars, fileVars, processVars,
                             historyVars, DeliveryInv, DeliveryShape
  <1>2. ASSUME NEW p \in Pollers, StartPoll(p) \/ PollerStep(p) \/ PollerFault(p)
        PROVE  DeliveryInv'
    BY <1>2, PollsKeepDelivery
  <1>3. ASSUME NEW a \in Appenders, AppendFeedItem(a) \/ FillAppended(a) PROVE DeliveryInv'
    BY <1>3, AppendsKeepDelivery
  <1>4. ASSUME NEW c \in Consumers, ConsumerSteps(c) \/ ConsumerFault(c) PROVE DeliveryInv'
    BY <1>4, ReadCursorKeeps, ReadDirectoryKeeps, ListItemsKeeps, AdvanceKeeps, HandOverKeeps,
       RunTargetKeeps, TargetSucceedsKeeps, ReadAcknowledgedKeeps, WriteAcknowledgedKeeps,
       EndsKeep DEF ConsumerSteps
  <1>5. Pruners = {}
    BY DEF Undisturbed
  <1> QED BY <1>1, <1>2, <1>3, <1>4, <1>5 DEF Next

(***************************************************************************)
(* For any entries, polls, appends and overlapping consumers of one        *)
(* source, with failures and deaths: what the cursor has passed was        *)
(* delivered, unless a prune runs or a collect dies with advance.          *)
(***************************************************************************)
THEOREM InOrderIsDelivered == Undisturbed /\ Spec => []PassedInOrderIsDelivered
PROOF
  <1>1. DeliveryInv => PassedInOrderIsDelivered
    <2>1. Consumed \subseteq ItemIds
      BY FeedConstants DEF Consumed, ItemIds
    <2> QED BY <2>1 DEF DeliveryInv, Cleared, Safe, InOrder, Existing, Passed,
                        PassedInOrderIsDelivered
  <1>2. Undisturbed /\ Init /\ [][Next]_vars => [](DeliveryInv /\ IntakeInv)
    <2>1. Init => DeliveryInv /\ IntakeInv
      BY IntakeInit, DeliveryInit
    <2>2. CASE Undisturbed
      <3>1. (DeliveryInv /\ IntakeInv) /\ [Next]_vars => (DeliveryInv /\ IntakeInv)'
        BY <2>2, IntakeStep, DeliveryStep
      <3> QED BY <2>1, <3>1, PTL
    <2> QED BY <2>2
  <1> QED BY <1>1, <1>2, PTL DEF Spec
=============================================================================
