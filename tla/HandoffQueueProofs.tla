-------------------------- MODULE HandoffQueueProofs --------------------------
(***************************************************************************)
(* Proofs that handoffs are executed only by drains that suit them, and    *)
(* that what the collect cursor has passed was collected, but for what is  *)
(* excepted: for any intents, commands, collectors, retries and crashes.   *)
(***************************************************************************)
EXTENDS HandoffQueue, TLAPS

QueueShape ==
  /\ intentFile \in [IntentIds -> [status : {"absent", "pending", "running"} \cup Ended,
                                   source : Sources, updatedAt : Nat, expires : Nat]]
  /\ drain \in [Drains -> [pc : {"idle", "claim", "open", "run", "stamp", "write"}, now : Nat,
                           todo : SUBSET IntentIds, cur : IntentIds \cup {NoIntent},
                           status : Ended, at : Nat]]
  /\ asked \in [IntentIds -> Sources]
  /\ ranBy \in [IntentIds -> SUBSET Drains]
  /\ queueNow \in Nat

Present(i) == intentFile[i].status # "absent"
Suits(d, i) == Present(i) /\ Selects(ModeOf[d], intentFile[i].source)

(* The source of an intent never changes; so what a command has listed, is *)
(* running or has run still suits it.                                      *)
HandoffInv ==
  /\ QueueShape
  /\ \A i \in IntentIds : Present(i) => intentFile[i].source = asked[i]
  /\ \A d \in Drains, i \in IntentIds : i \in drain[d].todo => Suits(d, i)
  /\ \A d \in Drains : drain[d].pc \in {"open", "run", "stamp", "write"} =>
       drain[d].cur \in IntentIds /\ Suits(d, drain[d].cur)
  /\ \A d \in Drains, i \in IntentIds : d \in ranBy[i] => Suits(d, i)

----------------------------------------------------------------------------
(* A step that keeps every intent that is there, with its source.          *)
Keeps == \A i \in IntentIds : Present(i) =>
           /\ Present(i)' /\ intentFile'[i].source = intentFile[i].source /\ asked'[i] = asked[i]

LEMMA KeptStillSuits ==
  ASSUME Keeps, NEW d \in Drains, NEW i \in IntentIds, Suits(d, i)
  PROVE  Suits(d, i)'
BY DEF Keeps, Suits, Present, Selects, runDuePromptQueueIntents, drainLocalHandoffQueue,
   isPromptQueueIntent, isLocalHandoffIntent

(* The files of a step that creates an intent, or writes the status of one *)
(* that is there.                                                          *)
LEMMA CreateKeeps ==
  ASSUME HandoffInv, NEW i \in IntentIds, NEW source \in Sources, createQueueIntent(i, source, source)
  PROVE  /\ Keeps
         /\ \A j \in IntentIds : Present(j)' => intentFile'[j].source = asked'[j]
         /\ intentFile' \in [IntentIds -> [status : {"absent", "pending", "running"} \cup Ended,
                                           source : Sources, updatedAt : Nat, expires : Nat]]
         /\ asked' \in [IntentIds -> Sources]
BY DEF createQueueIntent, HandoffInv, QueueShape, Keeps, Present

LEMMA StatusKeeps ==
  ASSUME HandoffInv, NEW i \in IntentIds, Present(i), NEW status \in {"running"} \cup Ended,
         NEW at \in Nat, NEW expires \in Nat, UNCHANGED asked,
         \/ intentFile' = [intentFile EXCEPT ![i].status = status, ![i].updatedAt = at]
         \/ intentFile' = [intentFile EXCEPT ![i].status = status, ![i].updatedAt = at,
                                             ![i].expires = expires]
  PROVE  /\ Keeps
         /\ \A j \in IntentIds : Present(j)' => intentFile'[j].source = asked'[j]
         /\ intentFile' \in [IntentIds -> [status : {"absent", "pending", "running"} \cup Ended,
                                           source : Sources, updatedAt : Nat, expires : Nat]]
PROOF
  <1> DEFINE AnyIntent == [status : {"absent", "pending", "running"} \cup Ended,
                           source : Sources, updatedAt : Nat, expires : Nat]
  <1>1. intentFile \in [IntentIds -> AnyIntent] /\ intentFile[i] \in AnyIntent
    BY DEF HandoffInv, QueueShape
  <1>2. PICK entry \in AnyIntent : /\ entry.status # "absent"
                                   /\ entry.source = intentFile[i].source
                                   /\ intentFile' = [intentFile EXCEPT ![i] = entry]
    <2>1. CASE intentFile' = [intentFile EXCEPT ![i].status = status, ![i].updatedAt = at]
      <3> DEFINE entry == [intentFile[i] EXCEPT !.status = status, !.updatedAt = at]
      <3>1. entry \in AnyIntent /\ entry.status # "absent" /\ entry.source = intentFile[i].source
        BY <1>1 DEF Ended
      <3>2. intentFile' = [intentFile EXCEPT ![i] = entry]
        BY <1>1, <2>1
      <3> QED BY <3>1, <3>2
    <2>2. CASE intentFile' = [intentFile EXCEPT ![i].status = status, ![i].updatedAt = at,
                                                ![i].expires = expires]
      <3> DEFINE entry == [intentFile[i] EXCEPT !.status = status, !.updatedAt = at, !.expires = expires]
      <3>1. entry \in AnyIntent /\ entry.status # "absent" /\ entry.source = intentFile[i].source
        BY <1>1 DEF Ended
      <3>2. intentFile' = [intentFile EXCEPT ![i] = entry]
        BY <1>1, <2>2
      <3> QED BY <3>1, <3>2
    <2> QED BY <2>1, <2>2
  <1>3. intentFile' \in [IntentIds -> AnyIntent]
    BY <1>1, <1>2
  <1> HIDE DEF AnyIntent
  <1>4. \A j \in IntentIds : intentFile'[j] = IF j = i THEN entry ELSE intentFile[j]
    BY <1>1, <1>2
  <1> QED BY <1>2, <1>3, <1>4 DEF HandoffInv, Keeps, Present, AnyIntent

(* A step of one command, or of none, that keeps the intents.              *)
LEMMA StepKeepsInv ==
  ASSUME HandoffInv, Keeps,
         \A i \in IntentIds : Present(i)' => intentFile'[i].source = asked'[i],
         QueueShape',
         \A d \in Drains, i \in IntentIds : i \in drain'[d].todo => i \in drain[d].todo \/ Suits(d, i),
         \A d \in Drains : drain'[d].pc \in {"open", "run", "stamp", "write"} =>
           drain'[d].cur \in IntentIds /\ Suits(d, drain'[d].cur),
         \A d \in Drains, i \in IntentIds : d \in ranBy'[i] => d \in ranBy[i] \/ Suits(d, i)
  PROVE  HandoffInv'
PROOF
  <1>1. \A d \in Drains, i \in IntentIds : Suits(d, i) => Suits(d, i)'
    BY KeptStillSuits
  <1>2. \A d \in Drains, i \in IntentIds : i \in drain'[d].todo => Suits(d, i)'
    BY <1>1 DEF HandoffInv
  <1>3. \A d \in Drains, i \in IntentIds : d \in ranBy'[i] => Suits(d, i)'
    BY <1>1 DEF HandoffInv
  <1>4. ASSUME NEW d \in Drains, drain'[d].pc \in {"open", "run", "stamp", "write"}
        PROVE  drain'[d].cur \in IntentIds /\ Suits(d, drain[d].cur)'
    <2>1. PICK i \in IntentIds : i = drain'[d].cur /\ Suits(d, i)
      BY <1>4
    <2>2. Suits(d, i)'
      BY <2>1, <1>1
    <2> QED BY <2>1, <2>2 DEF Suits, Present
  <1> QED BY <1>2, <1>3, <1>4 DEF HandoffInv

(* A step that leaves the files alone.                                     *)
LEMMA DrainStepKeepsInv ==
  ASSUME HandoffInv, NEW d \in Drains,
         NEW to \in [pc : {"idle", "claim", "open", "run", "stamp", "write"}, now : Nat,
                     todo : SUBSET IntentIds, cur : IntentIds \cup {NoIntent},
                     status : Ended, at : Nat],
         NEW from, DrainStep(d, from, to), Keeps,
         \A i \in IntentIds : Present(i)' => intentFile'[i].source = asked'[i],
         intentFile' \in [IntentIds -> [status : {"absent", "pending", "running"} \cup Ended,
                                        source : Sources, updatedAt : Nat, expires : Nat]],
         asked' \in [IntentIds -> Sources],
         \A i \in to.todo : i \in drain[d].todo \/ Suits(d, i),
         to.pc \in {"open", "run", "stamp", "write"} => to.cur \in IntentIds /\ Suits(d, to.cur),
         \/ ranBy' = ranBy
         \/ Suits(d, drain[d].cur) /\ ranBy' = [ranBy EXCEPT ![drain[d].cur] = @ \cup {d}]
  PROVE  HandoffInv'
PROOF
  <1>1. /\ drain' = [drain EXCEPT ![d] = to] /\ queueNow' = queueNow
        /\ \A e \in Drains : drain'[e] = IF e = d THEN to ELSE drain[e]
    BY DEF DrainStep, HandoffInv, QueueShape
  <1>2. ranBy' \in [IntentIds -> SUBSET Drains]
    BY DEF HandoffInv, QueueShape
  <1>3. QueueShape'
    BY <1>1, <1>2 DEF HandoffInv, QueueShape
  <1>4. \A e \in Drains, i \in IntentIds : i \in drain'[e].todo => i \in drain[e].todo \/ Suits(e, i)
    BY <1>1
  <1>5. \A e \in Drains : drain'[e].pc \in {"open", "run", "stamp", "write"} =>
          drain'[e].cur \in IntentIds /\ Suits(e, drain'[e].cur)
    BY <1>1 DEF HandoffInv
  <1>6. \A e \in Drains, i \in IntentIds : e \in ranBy'[i] => e \in ranBy[i] \/ Suits(e, i)
    <2>1. CASE ranBy' = ranBy
      BY <2>1
    <2>2. CASE Suits(d, drain[d].cur) /\ ranBy' = [ranBy EXCEPT ![drain[d].cur] = @ \cup {d}]
      <3>1. ranBy \in [IntentIds -> SUBSET Drains]
        BY DEF HandoffInv, QueueShape
      <3>2. \A i \in IntentIds : ranBy'[i] = IF i = drain[d].cur THEN ranBy[i] \cup {d} ELSE ranBy[i]
        BY <2>2, <3>1
      <3> QED BY <2>2, <3>2
    <2> QED BY <2>1, <2>2
  <1> QED BY <1>3, <1>4, <1>5, <1>6, StepKeepsInv

LEMMA NothingWrittenKeeps ==
  ASSUME HandoffInv, UNCHANGED <<intentFile, asked>>
  PROVE  /\ Keeps
         /\ \A i \in IntentIds : Present(i)' => intentFile'[i].source = asked'[i]
         /\ intentFile' \in [IntentIds -> [status : {"absent", "pending", "running"} \cup Ended,
                                           source : Sources, updatedAt : Nat, expires : Nat]]
         /\ asked' \in [IntentIds -> Sources]
BY DEF HandoffInv, QueueShape, Keeps, Present

(* What a command may be, for the steps below.                             *)
AnyDrain == [pc : {"idle", "claim", "open", "run", "stamp", "write"}, now : Nat, todo : SUBSET IntentIds,
             cur : IntentIds \cup {NoIntent}, status : Ended, at : Nat]

LEMMA DrainIsAny ==
  ASSUME HandoffInv, NEW d \in Drains
  PROVE  drain[d] \in AnyDrain /\ IdleDrain \in AnyDrain /\ queueNow \in Nat
BY DEF HandoffInv, QueueShape, AnyDrain, IdleDrain, Ended

(* The steps that read: list, judge, skip, lose, stamp, finish and die.    *)
LEMMA ReadingStepKeepsInv ==
  ASSUME HandoffInv, NEW d \in Drains,
         \/ StartDrain(d) \/ JudgeIntent(d) \/ SkipIntent(d) \/ LoseClaim(d)
         \/ StampEnd(d) \/ FinishDrain(d) \/ DrainDies(d)
  PROVE  HandoffInv'
PROOF
  <1>1. UNCHANGED <<intentFile, asked, ranBy>>
    BY DEF StartDrain, JudgeIntent, SkipIntent, LoseClaim, StampEnd, FinishDrain, DrainDies, drainHistory
  <1>2. PICK to \in AnyDrain :
          /\ \E from : DrainStep(d, from, to)
          /\ \A i \in to.todo : i \in drain[d].todo \/ Suits(d, i)
          /\ to.pc \in {"open", "run", "stamp", "write"} => to.cur \in IntentIds /\ Suits(d, to.cur)
    <2>1. CASE StartDrain(d)
      <3>1. PICK due \in SUBSET {i \in IntentIds : IsDue(i, queueNow, IntentIds)} :
              DrainStep(d, "idle", [IdleDrain EXCEPT !.pc = "claim", !.now = queueNow,
                !.todo = {i \in due : Selects(ModeOf[d], intentFile[i].source)}])
        BY <2>1 DEF StartDrain
      <3> DEFINE listed == {i \in due : Selects(ModeOf[d], intentFile[i].source)}
                 to == [IdleDrain EXCEPT !.pc = "claim", !.now = queueNow, !.todo = listed]
      <3>2. \A i \in listed : Suits(d, i)
        BY DEF IsDue, Suits, Present
      <3>3. to \in AnyDrain /\ to.pc = "claim" /\ to.todo = listed
        BY DrainIsAny DEF IdleDrain, AnyDrain
      <3>4. DrainStep(d, "idle", to)
        BY <3>1
      <3> HIDE DEF to, listed
      <3> QED BY <3>2, <3>3, <3>4
    <2>2. CASE SkipIntent(d)
      <3>1. PICK i \in drain[d].todo : DrainStep(d, "claim", [drain[d] EXCEPT !.todo = @ \ {i}])
        BY <2>2 DEF SkipIntent
      <3> DEFINE to == [drain[d] EXCEPT !.todo = @ \ {i}]
      <3>2. /\ to \in AnyDrain /\ to.pc = drain[d].pc /\ to.cur = drain[d].cur
            /\ to.todo \subseteq drain[d].todo /\ drain[d].pc = "claim"
        BY <3>1, DrainIsAny DEF AnyDrain, DrainStep
      <3>3. DrainStep(d, "claim", to)
        BY <3>1
      <3> HIDE DEF to
      <3> QED BY <3>2, <3>3
    <2>3. CASE StampEnd(d)
      <3> DEFINE to == [drain[d] EXCEPT !.pc = "write", !.at = queueNow]
      <3>1. DrainStep(d, "stamp", to) /\ drain[d].pc = "stamp"
        BY <2>3 DEF StampEnd, DrainStep
      <3>2. to \in AnyDrain /\ to.cur = drain[d].cur /\ to.todo = drain[d].todo
        BY DrainIsAny DEF AnyDrain
      <3>3. drain[d].cur \in IntentIds /\ Suits(d, drain[d].cur)
        BY <3>1 DEF HandoffInv
      <3> HIDE DEF to
      <3> QED BY <3>1, <3>2, <3>3
    <2>4. CASE FinishDrain(d) \/ DrainDies(d)
      <3>1. PICK from : DrainStep(d, from, IdleDrain)
        BY <2>4 DEF FinishDrain, DrainDies
      <3>2. IdleDrain.pc = "idle" /\ IdleDrain.todo = {}
        BY DEF IdleDrain
      <3> QED BY <3>1, <3>2, DrainIsAny
    <2>5. CASE JudgeIntent(d)
      <3>1. PICK i \in drain[d].todo :
              DrainStep(d, "claim", [drain[d] EXCEPT !.pc = "open", !.cur = i, !.todo = @ \ {i}])
        BY <2>5 DEF JudgeIntent
      <3> DEFINE to == [drain[d] EXCEPT !.pc = "open", !.cur = i, !.todo = @ \ {i}]
      <3>2. i \in IntentIds /\ Suits(d, i)
        BY DrainIsAny DEF HandoffInv, AnyDrain
      <3>3. to \in AnyDrain /\ to.cur = i /\ to.todo \subseteq drain[d].todo
        BY <3>2, DrainIsAny DEF AnyDrain
      <3>4. DrainStep(d, "claim", to)
        BY <3>1
      <3> HIDE DEF to
      <3> QED BY <3>2, <3>3, <3>4
    <2>6. CASE LoseClaim(d)
      <3> DEFINE to == [drain[d] EXCEPT !.pc = "claim", !.cur = NoIntent]
      <3>1. DrainStep(d, "open", to)
        BY <2>6 DEF LoseClaim
      <3>2. to \in AnyDrain /\ to.pc = "claim" /\ to.todo = drain[d].todo
        BY DrainIsAny DEF AnyDrain
      <3> HIDE DEF to
      <3> QED BY <3>1, <3>2
    <2> QED BY <2>1, <2>2, <2>3, <2>4, <2>5, <2>6
  <1>3. PICK from : DrainStep(d, from, to)
    BY <1>2
  <1> QED BY <1>1, <1>2, <1>3, NothingWrittenKeeps, DrainStepKeepsInv DEF AnyDrain

LEMMA ClaimKeepsInv ==
  ASSUME HandoffInv, NEW d \in Drains, ClaimIntent(d)
  PROVE  HandoffInv'
PROOF
  <1> DEFINE to == [drain[d] EXCEPT !.pc = "run"]
             i == drain[d].cur
  <1>1. /\ DrainStep(d, "open", to) /\ drain[d].pc = "open"
        /\ intentFile' = [intentFile EXCEPT ![i].status = "running",
             ![i].updatedAt = drain[d].now, ![i].expires = drain[d].now + QueueLease]
        /\ asked' = asked /\ ranBy' = ranBy
    BY DEF ClaimIntent, DrainStep, drainHistory
  <1>2. i \in IntentIds /\ Suits(d, i)
    BY <1>1 DEF HandoffInv
  <1>3. to \in AnyDrain /\ to.cur = i /\ to.todo = drain[d].todo
    BY DrainIsAny DEF AnyDrain
  <1>4. drain[d].now \in Nat /\ drain[d].now + QueueLease \in Nat
    BY DrainIsAny, HandoffConstants DEF AnyDrain
  <1> HIDE DEF to, i
  <1>5. /\ Keeps
        /\ \A j \in IntentIds : Present(j)' => intentFile'[j].source = asked'[j]
        /\ intentFile' \in [IntentIds -> [status : {"absent", "pending", "running"} \cup Ended,
                                          source : Sources, updatedAt : Nat, expires : Nat]]
    BY <1>1, <1>2, <1>4, StatusKeeps DEF Suits
  <1>6. asked' \in [IntentIds -> Sources]
    BY <1>1 DEF HandoffInv, QueueShape
  <1> QED BY <1>1, <1>2, <1>3, <1>5, <1>6, DrainStepKeepsInv DEF AnyDrain

LEMMA ExecuteKeepsInv ==
  ASSUME HandoffInv, NEW d \in Drains, executeDispatchRunTarget(d)
  PROVE  HandoffInv'
PROOF
  <1>1. PICK status \in {"completed", "failed"} :
          DrainStep(d, "run", [drain[d] EXCEPT !.pc = "stamp", !.status = status])
    BY DEF executeDispatchRunTarget
  <1>2. /\ ranBy' = [ranBy EXCEPT ![drain[d].cur] = @ \cup {d}]
        /\ UNCHANGED <<intentFile, asked>>
    BY DEF executeDispatchRunTarget
  <1> DEFINE to == [drain[d] EXCEPT !.pc = "stamp", !.status = status]
  <1>3. DrainStep(d, "run", to) /\ drain[d].pc = "run"
    BY <1>1 DEF DrainStep
  <1>4. to \in AnyDrain /\ to.cur = drain[d].cur /\ to.todo = drain[d].todo
    BY DrainIsAny DEF AnyDrain, Ended
  <1>5. drain[d].cur \in IntentIds /\ Suits(d, drain[d].cur)
    BY <1>3 DEF HandoffInv
  <1> HIDE DEF to
  <1> QED BY <1>2, <1>3, <1>4, <1>5, NothingWrittenKeeps, DrainStepKeepsInv DEF AnyDrain

LEMMA MaterializeKeepsInv ==
  ASSUME HandoffInv, NEW d \in Drains, materializeLocalHandoffIntent(d)
  PROVE  HandoffInv'
PROOF
  <1> DEFINE to == [drain[d] EXCEPT !.pc = "stamp", !.status = "completed"]
  <1>1. /\ DrainStep(d, "run", to) /\ drain[d].pc = "run"
        /\ ranBy' = [ranBy EXCEPT ![drain[d].cur] = @ \cup {d}]
    BY DEF materializeLocalHandoffIntent, DrainStep
  <1>2. PICK i \in IntentIds, prompt \in Sources : createQueueIntent(i, prompt, prompt)
    BY DEF materializeLocalHandoffIntent
  <1>3. to \in AnyDrain /\ to.cur = drain[d].cur /\ to.todo = drain[d].todo
    BY DrainIsAny DEF AnyDrain, Ended
  <1>4. drain[d].cur \in IntentIds /\ Suits(d, drain[d].cur)
    BY <1>1 DEF HandoffInv
  <1> HIDE DEF to
  <1> QED BY <1>1, <1>2, <1>3, <1>4, CreateKeeps, DrainStepKeepsInv DEF AnyDrain

LEMMA WriteKeepsInv ==
  ASSUME HandoffInv, NEW d \in Drains, WriteEnd(d)
  PROVE  HandoffInv'
PROOF
  <1> DEFINE to == [drain[d] EXCEPT !.pc = "claim", !.cur = NoIntent]
  <1>1. /\ DrainStep(d, "write", to) /\ drain[d].pc = "write"
        /\ intentFile' = [intentFile EXCEPT ![drain[d].cur].status = drain[d].status,
                                            ![drain[d].cur].updatedAt = drain[d].at]
        /\ asked' = asked /\ ranBy' = ranBy
    BY DEF WriteEnd, DrainStep, PutEnd, drainHistory
  <1>2. to \in AnyDrain /\ to.pc = "claim" /\ to.todo = drain[d].todo
    BY DrainIsAny DEF AnyDrain
  <1>3. drain[d].cur \in IntentIds /\ Suits(d, drain[d].cur)
    BY <1>1 DEF HandoffInv
  <1>4. drain[d].status \in Ended /\ drain[d].at \in Nat /\ 0 \in Nat
    BY DrainIsAny DEF AnyDrain
  <1>5. /\ Keeps
        /\ \A j \in IntentIds : Present(j)' => intentFile'[j].source = asked'[j]
        /\ intentFile' \in [IntentIds -> [status : {"absent", "pending", "running"} \cup Ended,
                                          source : Sources, updatedAt : Nat, expires : Nat]]
    BY <1>1, <1>3, <1>4, StatusKeeps DEF Suits
  <1>6. asked' \in [IntentIds -> Sources]
    BY <1>1 DEF HandoffInv, QueueShape
  <1> HIDE DEF to
  <1> QED BY <1>1, <1>2, <1>5, <1>6, DrainStepKeepsInv DEF AnyDrain

----------------------------------------------------------------------------
(* The steps of no command: enqueue, cancel, retry, and the collectors.    *)
LEMMA FilesStepKeepsInv ==
  ASSUME HandoffInv, UNCHANGED <<drain, ranBy>>, queueNow' \in Nat, Keeps,
         \A i \in IntentIds : Present(i)' => intentFile'[i].source = asked'[i],
         intentFile' \in [IntentIds -> [status : {"absent", "pending", "running"} \cup Ended,
                                        source : Sources, updatedAt : Nat, expires : Nat]],
         asked' \in [IntentIds -> Sources]
  PROVE  HandoffInv'
PROOF
  <1>1. QueueShape'
    BY DEF HandoffInv, QueueShape
  <1> QED BY <1>1, StepKeepsInv DEF HandoffInv

LEMMA EnqueueKeepsInv ==
  ASSUME HandoffInv, NEW i \in IntentIds, NEW s \in Sources,
         enqueuePromptQueueIntent(i, s) \/ enqueueLocalHandoffIntent(i, s)
  PROVE  HandoffInv'
PROOF
  <1>1. createQueueIntent(i, s, s) /\ UNCHANGED <<drain, ranBy, queueNow>>
    BY DEF enqueuePromptQueueIntent, enqueueLocalHandoffIntent
  <1>2. queueNow' \in Nat
    BY <1>1 DEF HandoffInv, QueueShape
  <1> QED BY <1>1, <1>2, CreateKeeps, FilesStepKeepsInv

LEMMA RetryKeepsInv ==
  ASSUME HandoffInv, NEW i \in IntentIds, NEW j \in IntentIds, RetryIntent(i, j)
  PROVE  HandoffInv'
PROOF
  <1>1. intentFile[i].source = asked[i] /\ asked[i] \in Sources
    BY DEF RetryIntent, HasEnded, Ended, HandoffInv, QueueShape, Present
  <1>2. createQueueIntent(j, asked[i], asked[i]) /\ UNCHANGED <<drain, ranBy, queueNow>>
    BY <1>1 DEF RetryIntent, retryDispatchRunSource
  <1>3. queueNow' \in Nat
    BY <1>2 DEF HandoffInv, QueueShape
  <1> QED BY <1>1, <1>2, <1>3, CreateKeeps, FilesStepKeepsInv

LEMMA CancelKeepsInv ==
  ASSUME HandoffInv, NEW i \in IntentIds, CancelIntent(i)
  PROVE  HandoffInv'
PROOF
  <1>1. /\ Present(i) /\ UNCHANGED <<drain, ranBy, asked, queueNow>> /\ queueNow \in Nat
        /\ intentFile' = [intentFile EXCEPT ![i].status = "canceled", ![i].updatedAt = queueNow]
    BY DEF CancelIntent, PutEnd, drainHistory, Present, HandoffInv, QueueShape
  <1>2. /\ Keeps
        /\ \A j \in IntentIds : Present(j)' => intentFile'[j].source = asked'[j]
        /\ intentFile' \in [IntentIds -> [status : {"absent", "pending", "running"} \cup Ended,
                                          source : Sources, updatedAt : Nat, expires : Nat]]
    BY <1>1, StatusKeeps DEF Ended
  <1>3. asked' \in [IntentIds -> Sources]
    BY <1>1 DEF HandoffInv, QueueShape
  <1> QED BY <1>1, <1>2, <1>3, FilesStepKeepsInv

LEMMA CollectKeepsInv ==
  ASSUME HandoffInv,
         \/ \E c \in Collectors : CollectSteps(c) \/ CollectorDies(c)
         \/ QueueTimePasses
         \/ UNCHANGED queueVars
  PROVE  HandoffInv'
PROOF
  <1>1. UNCHANGED <<intentFile, asked, drain, ranBy>> /\ queueNow' \in {queueNow, queueNow + 1}
    <2>1. ASSUME NEW c \in Collectors, CollectSteps(c) \/ CollectorDies(c)
          PROVE  UNCHANGED <<intentFile, asked, drain, ranBy, queueNow>>
      BY <2>1 DEF CollectSteps, ReadCollectCursor, ListIntents, ReadIntent, WriteCollectCursor, ReturnCollected,
         CollectorDies, CollectStep, drainHistory
    <2>2. CASE QueueTimePasses
      BY <2>2 DEF QueueTimePasses, drainHistory
    <2>3. CASE UNCHANGED queueVars
      BY <2>3 DEF queueVars
    <2> QED BY <2>1, <2>2, <2>3
  <1>2. queueNow' \in Nat
    BY <1>1 DEF HandoffInv, QueueShape
  <1> QED BY <1>1, <1>2, NothingWrittenKeeps, FilesStepKeepsInv

LEMMA HandoffInvariance == QueueSpec => []HandoffInv
PROOF
  <1>1. QueueInit => HandoffInv
    <2> SUFFICES ASSUME QueueInit PROVE HandoffInv
      OBVIOUS
    <2>1. PICK s \in Sources :
            /\ intentFile = [i \in IntentIds |-> [status |-> "absent", source |-> s,
                                                  updatedAt |-> 0, expires |-> 0]]
            /\ asked = [i \in IntentIds |-> s]
      BY DEF QueueInit
    <2>2. /\ drain = [d \in Drains |-> IdleDrain] /\ queueNow = 0
          /\ ranBy = [i \in IntentIds |-> {}]
      BY DEF QueueInit
    <2>3. IdleDrain \in AnyDrain /\ IdleDrain.pc = "idle" /\ IdleDrain.todo = {}
      BY DEF IdleDrain, AnyDrain, Ended
    <2>4. QueueShape
      BY <2>1, <2>2, <2>3 DEF QueueShape, AnyDrain
    <2> QED BY <2>1, <2>2, <2>3, <2>4 DEF HandoffInv, Present
  <1>2. HandoffInv /\ [QueueNext]_queueVars => HandoffInv'
    <2> SUFFICES ASSUME HandoffInv, [QueueNext]_queueVars PROVE HandoffInv'
      OBVIOUS
    <2>1. ASSUME NEW d \in Drains, DrainSteps(d) \/ DrainDies(d) PROVE HandoffInv'
      BY <2>1, ReadingStepKeepsInv, ClaimKeepsInv, ExecuteKeepsInv, MaterializeKeepsInv, WriteKeepsInv
         DEF DrainSteps
    <2>2. ASSUME NEW i \in IntentIds, NEW s \in Sources,
                 enqueuePromptQueueIntent(i, s) \/ enqueueLocalHandoffIntent(i, s)
          PROVE  HandoffInv'
      BY <2>2, EnqueueKeepsInv
    <2>3. ASSUME NEW i \in IntentIds, CancelIntent(i) PROVE HandoffInv'
      BY <2>3, CancelKeepsInv
    <2>4. ASSUME NEW i \in IntentIds, NEW j \in IntentIds, RetryIntent(i, j) PROVE HandoffInv'
      BY <2>4, RetryKeepsInv
    <2> QED BY <2>1, <2>2, <2>3, <2>4, CollectKeepsInv DEF QueueNext
  <1> QED BY <1>1, <1>2, PTL DEF QueueSpec

(* A handoff, or a retry of one, is executed by a drain of its queue, for  *)
(* its host, with what it needs, and by nothing else.                      *)
THEOREM HandoffsFindTheirHost == QueueSpec => []HandoffsAwaitTheirHost
PROOF
  <1>1. HandoffInv => HandoffsAwaitTheirHost
    <2> SUFFICES ASSUME HandoffInv, NEW i \in IntentIds, asked[i].kind = "local-handoff", NEW d \in ranBy[i]
                 PROVE  isLocalHandoffIntent(asked[i], ModeOf[d])
      BY DEF HandoffsAwaitTheirHost
    <2>1. d \in Drains /\ Suits(d, i) /\ intentFile[i].source = asked[i]
      BY DEF HandoffInv, QueueShape, Suits
    <2> QED BY <2>1 DEF Suits, Selects, runDuePromptQueueIntents, drainLocalHandoffQueue, isPromptQueueIntent
  <1> QED BY <1>1, HandoffInvariance, PTL

-----------------------------------------------------------------------------
(***************************************************************************)
(* Collecting what has passed, for any cursors and any intents.            *)
(***************************************************************************)
(* Where the intents lie that the collect cursor is about, and whether     *)
(* someone has seen that they ended.                                       *)
EndedPlaces == {PlaceOfIntent(i) : i \in {j \in collectPromptQueueRuns : HasEnded(j)}}
Accounted(place) ==
  \/ place \in collected \cup overlooked
  \/ \E c \in Collectors : collector[c].pc = "return" /\ place \in collector[c].batch

CollectorShape ==
  /\ collector = [c \in Collectors |-> collector[c]] /\ unseen = [c \in Collectors |-> unseen[c]]
  /\ \A c \in Collectors :
       collector[c] = [pc |-> collector[c].pc, prev |-> collector[c].prev,
                       unread |-> collector[c].unread, batch |-> collector[c].batch]

(* What a collector at work will pass is accounted for, is in its batch, is *)
(* still to be read, or was written too late for it.                        *)
Follows(c, place) ==
  /\ collector[c].pc \in {"list", "read"} /\ ~isAfterDispatchRunCollectCursor(place, collector[c].prev)
     => Accounted(place) \/ place \in unseen[c]
  /\ collector[c].pc = "read" /\ isAfterDispatchRunCollectCursor(place, collector[c].prev)
     => place[2] \in collector[c].unread \/ place \in collector[c].batch \cup unseen[c]

CollectInv ==
  /\ CollectorShape
  /\ \A place \in EndedPlaces :
       /\ ~isAfterDispatchRunCollectCursor(place, collectCursor) => Accounted(place)
       /\ \A c \in Collectors : Follows(c, place)

----------------------------------------------------------------------------
(* A step that ends no intent, or ends one with PutEnd, or no file changes.*)
LEMMA NoEndKeepsPlaces ==
  ASSUME \A i \in IntentIds : HasEnded(i)' => HasEnded(i) /\ intentFile'[i] = intentFile[i]
  PROVE  EndedPlaces' \subseteq EndedPlaces
  <1> SUFFICES ASSUME NEW i \in IntentIds, HasEnded(i)', isPromptQueueIntent(intentFile'[i].source, CollectQueue)
               PROVE  PlaceOfIntent(i)' \in EndedPlaces
    BY DEF EndedPlaces, collectPromptQueueRuns
  <1>1. HasEnded(i) /\ intentFile'[i] = intentFile[i]
    OBVIOUS
  <1>2. i \in collectPromptQueueRuns /\ PlaceOfIntent(i)' = PlaceOfIntent(i)
    BY <1>1 DEF collectPromptQueueRuns, PlaceOfIntent
  <1> QED BY <1>1, <1>2 DEF EndedPlaces

LEMMA CreateEndsNothing ==
  ASSUME HandoffInv, NEW i \in IntentIds, NEW source, NEW origin, createQueueIntent(i, source, origin)
  PROVE  EndedPlaces' \subseteq EndedPlaces
  <1>1. \A j \in IntentIds : HasEnded(j)' => HasEnded(j) /\ intentFile'[j] = intentFile[j]
    BY DEF HandoffInv, QueueShape, createQueueIntent, HasEnded, Ended
  <1> QED BY <1>1, NoEndKeepsPlaces

LEMMA ClaimEndsNothing ==
  ASSUME HandoffInv, NEW d \in Drains, ClaimIntent(d)
  PROVE  EndedPlaces' \subseteq EndedPlaces
  <1> DEFINE i == drain[d].cur
  <1>1. intentFile' = [intentFile EXCEPT ![i].status = "running",
               ![i].updatedAt = drain[d].now, ![i].expires = drain[d].now + QueueLease]
    BY DEF ClaimIntent
  <1>2. \A j \in IntentIds \ {i} : intentFile'[j] = intentFile[j]
    BY <1>1 DEF HandoffInv, QueueShape
  <1>3. i \in IntentIds => intentFile'[i].status = "running"
    BY <1>1 DEF HandoffInv, QueueShape
  <1> HIDE DEF i
  <1>4. \A j \in IntentIds : HasEnded(j)' => HasEnded(j) /\ intentFile'[j] = intentFile[j]
    BY <1>2, <1>3 DEF HasEnded, Ended
  <1> QED BY <1>4, NoEndKeepsPlaces

(* An end that the cursor is past counts as overlooked, and one that a     *)
(* collector misses as unseen by it.                                       *)
Told(place) ==
  /\ ~isAfterDispatchRunCollectCursor(place, collectCursor) => place \in overlooked'
  /\ \A c \in Collectors : Misses(c, place[2], place) => place \in unseen'[c]

LEMMA EndIsSeen ==
  ASSUME HandoffInv, CollectInv, NEW i \in IntentIds, NEW status, NEW at, PutEnd(i, status, at)
  PROVE  /\ overlooked \subseteq overlooked'
         /\ unseen' = [c \in Collectors |-> unseen'[c]]
         /\ \A c \in Collectors : unseen[c] \subseteq unseen'[c]
         /\ \A place \in EndedPlaces' : place \in EndedPlaces \/ Told(place)
  <1>1. intentFile' = [intentFile EXCEPT ![i].status = status, ![i].updatedAt = at]
    BY DEF PutEnd
  <1>2. /\ overlooked' = IF isAfterDispatchRunCollectCursor(<<at, i>>, collectCursor) THEN overlooked
                         ELSE overlooked \cup {<<at, i>>}
        /\ \A c \in Collectors : unseen'[c] = IF Misses(c, i, <<at, i>>) THEN unseen[c] \cup {<<at, i>>}
                                              ELSE unseen[c]
        /\ unseen' = [c \in Collectors |-> unseen'[c]]
    BY DEF PutEnd
  <1>3. \A j \in IntentIds \ {i} : intentFile'[j] = intentFile[j]
    BY <1>1 DEF HandoffInv, QueueShape
  <1>4. intentFile'[i].updatedAt = at
    BY <1>1 DEF HandoffInv, QueueShape
  <1>5. ASSUME NEW place \in EndedPlaces'
        PROVE  place \in EndedPlaces \/ place = <<at, i>>
    <2>1. PICK j \in IntentIds : /\ HasEnded(j)' /\ place = PlaceOfIntent(j)'
                                 /\ isPromptQueueIntent(intentFile'[j].source, CollectQueue)
      BY <1>5 DEF EndedPlaces, collectPromptQueueRuns
    <2>2. CASE j = i
      BY <1>4, <2>1, <2>2 DEF PlaceOfIntent
    <2>3. CASE j # i
      <3>1. intentFile'[j] = intentFile[j]
        BY <1>3, <2>3
      <3>2. HasEnded(j) /\ place = PlaceOfIntent(j) /\ j \in collectPromptQueueRuns
        BY <2>1, <3>1 DEF HasEnded, PlaceOfIntent, collectPromptQueueRuns
      <3> QED BY <3>2 DEF EndedPlaces
    <2> QED BY <2>2, <2>3
  <1>6. Told(<<at, i>>)
    BY <1>2 DEF Told
  <1> QED BY <1>2, <1>5, <1>6

(* A step of a command, or of a user.                                      *)
LEMMA EndKeepsCollect ==
  ASSUME CollectInv, UNCHANGED <<collector, collectCursor, collected>>, overlooked \subseteq overlooked',
         unseen' = [c \in Collectors |-> unseen'[c]], \A c \in Collectors : unseen[c] \subseteq unseen'[c],
         \A place \in EndedPlaces' : place \in EndedPlaces \/ Told(place)
  PROVE  CollectInv'
  <1>1. CollectorShape'
    BY DEF CollectInv, CollectorShape
  <1>2. \A place : Accounted(place) \/ place \in overlooked' => Accounted(place)'
    BY DEF Accounted
  <1>3. ASSUME NEW place \in EndedPlaces'
        PROVE  /\ ~isAfterDispatchRunCollectCursor(place, collectCursor) => Accounted(place)'
               /\ \A c \in Collectors : Follows(c, place)'
    <2>1. CASE place \in EndedPlaces
      BY <1>2, <2>1 DEF CollectInv, Follows, isAfterDispatchRunCollectCursor
    <2>2. CASE Told(place)
      BY <1>2, <2>2 DEF Told, Misses, Follows, isAfterDispatchRunCollectCursor
    <2> QED BY <2>1, <2>2
  <1> QED BY <1>1, <1>3 DEF CollectInv, isAfterDispatchRunCollectCursor

----------------------------------------------------------------------------
LEMMA CollectorStep ==
  ASSUME CollectInv, NEW c \in Collectors, NEW from, NEW to, CollectStep(c, from, to),
         to = [pc |-> to.pc, prev |-> to.prev, unread |-> to.unread, batch |-> to.batch],
         unseen' \in {unseen, [unseen EXCEPT ![c] = {}]}
  PROVE  /\ CollectorShape' /\ collector'[c] = to /\ collector[c].pc = from
         /\ \A b \in Collectors \ {c} : collector'[b] = collector[b] /\ unseen'[b] = unseen[b]
         /\ EndedPlaces' = EndedPlaces
  <1>1. /\ collector' = [b \in Collectors |-> IF b = c THEN to ELSE collector[b]]
        /\ intentFile' = intentFile /\ collector[c].pc = from
    BY DEF CollectInv, CollectorShape, CollectStep
  <1>2. CollectorShape' /\ \A b \in Collectors \ {c} : unseen'[b] = unseen[b]
    BY <1>1 DEF CollectInv, CollectorShape
  <1>3. EndedPlaces' = EndedPlaces
    BY <1>1 DEF EndedPlaces, collectPromptQueueRuns, HasEnded, PlaceOfIntent
  <1> QED BY <1>1, <1>2, <1>3

(* Of a step of one collector that does not move the cursor only that one  *)
(* needs a look.                                                           *)
LEMMA OneFollows ==
  ASSUME CollectInv, NEW c \in Collectors, CollectorShape', EndedPlaces' = EndedPlaces,
         \A b \in Collectors \ {c} : collector'[b] = collector[b] /\ unseen'[b] = unseen[b],
         \A place : Accounted(place) => Accounted(place)',
         \A place \in EndedPlaces :
           /\ ~isAfterDispatchRunCollectCursor(place, collectCursor') => Accounted(place)'
           /\ Follows(c, place)'
  PROVE  CollectInv'
  <1>1. ASSUME NEW place \in EndedPlaces, NEW b \in Collectors PROVE Follows(b, place)'
    <2>1. CASE b = c
      BY <2>1
    <2>2. CASE b # c
      <3>1. Follows(b, place) /\ collector'[b] = collector[b] /\ unseen'[b] = unseen[b]
        BY <2>2 DEF CollectInv
      <3> QED BY <3>1 DEF Follows, isAfterDispatchRunCollectCursor
    <2> QED BY <2>1, <2>2
  <1> QED BY <1>1 DEF CollectInv, isAfterDispatchRunCollectCursor

(* A collector that reads the cursor passes no more than the cursor does.  *)
LEMMA ReadCursorKeepsCollect ==
  ASSUME CollectInv, NEW c \in Collectors, ReadCollectCursor(c)
  PROVE  CollectInv'
  <1>1. PICK to : to = [IdleCollector EXCEPT !.pc = "list", !.prev = collectCursor]
    OBVIOUS
  <1>2. /\ to.pc = "list" /\ to.prev = collectCursor /\ to.batch = {}
        /\ to = [pc |-> to.pc, prev |-> to.prev, unread |-> to.unread, batch |-> to.batch]
    BY <1>1 DEF IdleCollector
  <1>3. CollectStep(c, "idle", to) /\ UNCHANGED <<collectCursor, collected, overlooked, unseen>>
    BY <1>1 DEF ReadCollectCursor, collectHistory
  <1>4. /\ CollectorShape' /\ collector'[c] = to /\ collector[c].pc = "idle"
        /\ \A b \in Collectors \ {c} : collector'[b] = collector[b] /\ unseen'[b] = unseen[b]
        /\ EndedPlaces' = EndedPlaces
    BY <1>2, <1>3, CollectorStep
  <1>5. \A place : Accounted(place) => Accounted(place)'
    BY <1>3, <1>4 DEF Accounted
  <1>6. ASSUME NEW place \in EndedPlaces
        PROVE  /\ ~isAfterDispatchRunCollectCursor(place, collectCursor') => Accounted(place)'
               /\ Follows(c, place)'
    BY <1>2, <1>3, <1>4, <1>5 DEF CollectInv, Follows, isAfterDispatchRunCollectCursor
  <1> QED BY <1>4, <1>5, <1>6, OneFollows

(* What has ended is in the directory that is listed.                      *)
LEMMA ListKeepsCollect ==
  ASSUME CollectInv, NEW c \in Collectors, ListIntents(c)
  PROVE  CollectInv'
  <1>1. PICK present : present = {i \in IntentIds : intentFile[i].status # "absent"}
    OBVIOUS
  <1>2. PICK to : to = [collector[c] EXCEPT !.pc = "read", !.unread = present]
    OBVIOUS
  <1>3. /\ to.pc = "read" /\ to.prev = collector[c].prev /\ to.unread = present
        /\ to = [pc |-> to.pc, prev |-> to.prev, unread |-> to.unread, batch |-> to.batch]
    <2>1. collector[c] = [pc |-> collector[c].pc, prev |-> collector[c].prev,
                          unread |-> collector[c].unread, batch |-> collector[c].batch]
      BY DEF CollectInv, CollectorShape
    <2> QED BY ONLY <1>2, <2>1
  <1>4. CollectStep(c, "list", to) /\ UNCHANGED <<collectCursor, collected, overlooked, unseen>>
    BY <1>1, <1>2 DEF ListIntents, collectHistory
  <1>5. /\ CollectorShape' /\ collector'[c] = to /\ collector[c].pc = "list"
        /\ \A b \in Collectors \ {c} : collector'[b] = collector[b] /\ unseen'[b] = unseen[b]
        /\ EndedPlaces' = EndedPlaces
    BY <1>3, <1>4, CollectorStep
  <1>6. \A place : Accounted(place) => Accounted(place)'
    BY <1>4, <1>5 DEF Accounted
  <1>7. ASSUME NEW place \in EndedPlaces
        PROVE  /\ ~isAfterDispatchRunCollectCursor(place, collectCursor') => Accounted(place)'
               /\ Follows(c, place)'
    <2>1. place[2] \in present
      BY <1>1 DEF EndedPlaces, HasEnded, Ended, PlaceOfIntent, collectPromptQueueRuns
    <2> QED BY <1>3, <1>4, <1>5, <1>6, <2>1 DEF CollectInv, Follows, isAfterDispatchRunCollectCursor
  <1> QED BY <1>5, <1>6, <1>7, OneFollows

(* A file that is read is collected if it has ended after the cursor.      *)
LEMMA ReadKeepsCollect ==
  ASSUME CollectInv, NEW c \in Collectors, ReadIntent(c)
  PROVE  CollectInv'
  <1>1. PICK i \in collector[c].unread :
          CollectStep(c, "read", [collector[c] EXCEPT !.unread = @ \ {i},
            !.batch = @ \cup {PlaceOfIntent(j) : j \in {k \in {i} : Collects(c, k)}}])
    BY DEF ReadIntent
  <1>2. PICK batch : batch = collector[c].batch \cup {PlaceOfIntent(j) : j \in {k \in {i} : Collects(c, k)}}
    OBVIOUS
  <1>3. PICK to : to = [collector[c] EXCEPT !.unread = collector[c].unread \ {i}, !.batch = batch]
    OBVIOUS
  <1>4. collector[c] = [pc |-> collector[c].pc, prev |-> collector[c].prev,
                        unread |-> collector[c].unread, batch |-> collector[c].batch]
    BY DEF CollectInv, CollectorShape
  <1>5. /\ to.pc = collector[c].pc /\ to.prev = collector[c].prev
        /\ to.unread = collector[c].unread \ {i} /\ to.batch = batch
        /\ to = [pc |-> to.pc, prev |-> to.prev, unread |-> to.unread, batch |-> to.batch]
    BY ONLY <1>3, <1>4
  <1>6. CollectStep(c, "read", to) /\ UNCHANGED <<collectCursor, collected, overlooked, unseen>>
    BY <1>1, <1>2, <1>3 DEF ReadIntent, collectHistory
  <1>7. /\ CollectorShape' /\ collector'[c] = to /\ collector[c].pc = "read"
        /\ \A b \in Collectors \ {c} : collector'[b] = collector[b] /\ unseen'[b] = unseen[b]
        /\ EndedPlaces' = EndedPlaces
    BY <1>5, <1>6, CollectorStep
  <1>8. \A place : Accounted(place) => Accounted(place)'
    BY <1>5, <1>6, <1>7 DEF Accounted
  <1>9. ASSUME NEW place \in EndedPlaces
        PROVE  /\ ~isAfterDispatchRunCollectCursor(place, collectCursor') => Accounted(place)'
               /\ Follows(c, place)'
    <2>1. PICK j \in collectPromptQueueRuns : HasEnded(j) /\ place = PlaceOfIntent(j) /\ place[2] = j
      BY DEF EndedPlaces, PlaceOfIntent
    <2>2. j = i /\ isAfterDispatchRunCollectCursor(place, collector[c].prev) => place \in batch
      BY <1>2, <2>1 DEF Collects
    <2>3. collector[c].batch \subseteq batch
      BY <1>2
    <2> QED BY <1>5, <1>6, <1>7, <1>8, <2>1, <2>2, <2>3
            DEF CollectInv, Follows, isAfterDispatchRunCollectCursor
  <1> QED BY <1>7, <1>8, <1>9, OneFollows

(* With nothing left to read, what the new cursor passes is in the batch,  *)
(* or was written too late.                                                *)
LEMMA WriteKeepsCollect ==
  ASSUME CollectInv, NEW c \in Collectors, WriteCollectCursor(c)
  PROVE  CollectInv'
  <1>1. PICK to : to = [collector[c] EXCEPT !.pc = "return"]
    OBVIOUS
  <1>2. /\ to.pc = "return" /\ to.batch = collector[c].batch
        /\ to = [pc |-> to.pc, prev |-> to.prev, unread |-> to.unread, batch |-> to.batch]
    BY <1>1 DEF CollectInv, CollectorShape
  <1>3. /\ CollectStep(c, "read", to) /\ collectCursor' = LastPlace(c) /\ collector[c].unread = {}
        /\ collected' = collected /\ unseen' = [unseen EXCEPT ![c] = {}] /\ overlooked \subseteq overlooked'
        /\ \A p \in unseen[c] : ~isAfterDispatchRunCollectCursor(p, LastPlace(c)) => p \in overlooked'
    BY <1>1 DEF WriteCollectCursor, PassTo
  <1>4. /\ CollectorShape' /\ collector'[c] = to /\ collector[c].pc = "read"
        /\ \A b \in Collectors \ {c} : collector'[b] = collector[b] /\ unseen'[b] = unseen[b]
        /\ EndedPlaces' = EndedPlaces
    BY <1>2, <1>3, CollectorStep
  <1>5. \A place : Accounted(place) \/ place \in collector[c].batch \/ place \in overlooked' => Accounted(place)'
    BY <1>2, <1>3, <1>4 DEF Accounted
  <1>6. ASSUME NEW place \in EndedPlaces
        PROVE  /\ ~isAfterDispatchRunCollectCursor(place, collectCursor') => Accounted(place)'
               /\ Follows(c, place)'
    <2>1. Accounted(place) \/ place \in collector[c].batch \cup unseen[c]
      BY <1>3, <1>4 DEF CollectInv, Follows
    <2> QED BY <1>2, <1>3, <1>4, <1>5, <2>1 DEF Follows
  <1> QED BY <1>4, <1>5, <1>6, OneFollows

LEMMA LeaveKeepsCollect ==
  ASSUME CollectInv, NEW c \in Collectors, ReturnCollected(c) \/ CollectorDies(c)
  PROVE  CollectInv'
  <1>1. /\ IdleCollector.pc = "idle"
        /\ IdleCollector = [pc |-> IdleCollector.pc, prev |-> IdleCollector.prev,
                            unread |-> IdleCollector.unread, batch |-> IdleCollector.batch]
    BY DEF IdleCollector
  <1>2. /\ CollectStep(c, collector[c].pc, IdleCollector) /\ collectCursor' = collectCursor
        /\ collected \cup overlooked \subseteq collected' \cup overlooked'
        /\ collector[c].pc = "return" => collector[c].batch \subseteq collected' \cup overlooked'
        /\ unseen' \in {unseen, [unseen EXCEPT ![c] = {}]}
    <2>1. CASE ReturnCollected(c)
      BY <2>1 DEF ReturnCollected, CollectStep, missHistory
    <2>2. CASE CollectorDies(c)
      BY <2>2 DEF CollectorDies
    <2> QED BY <2>1, <2>2
  <1>3. /\ CollectorShape' /\ collector'[c] = IdleCollector
        /\ \A b \in Collectors \ {c} : collector'[b] = collector[b] /\ unseen'[b] = unseen[b]
        /\ EndedPlaces' = EndedPlaces
    BY <1>1, <1>2, CollectorStep
  <1>4. \A place : Accounted(place) => Accounted(place)'
    BY <1>2, <1>3 DEF Accounted
  <1>5. ASSUME NEW place \in EndedPlaces
        PROVE  /\ ~isAfterDispatchRunCollectCursor(place, collectCursor') => Accounted(place)'
               /\ Follows(c, place)'
    BY <1>1, <1>2, <1>3, <1>4 DEF CollectInv, Follows
  <1> QED BY <1>3, <1>4, <1>5, OneFollows

(* The commands and the users, who do not touch the cursor.                *)
LEMMA OthersKeepCollect ==
  ASSUME HandoffInv, CollectInv,
         \/ \E i \in IntentIds, s \in Sources :
              enqueuePromptQueueIntent(i, s) \/ enqueueLocalHandoffIntent(i, s)
         \/ \E i \in IntentIds : CancelIntent(i)
         \/ \E i, j \in IntentIds : RetryIntent(i, j)
         \/ \E d \in Drains : DrainSteps(d) \/ DrainDies(d)
         \/ QueueTimePasses \/ UNCHANGED queueVars
  PROVE  CollectInv'
  <1>1. ASSUME EndedPlaces' \subseteq EndedPlaces, UNCHANGED <<collector, collectCursor, collectHistory>>
        PROVE  CollectInv'
    <2>1. unseen' = [c \in Collectors |-> unseen'[c]]
      BY <1>1 DEF collectHistory, CollectInv, CollectorShape
    <2> QED BY <1>1, <2>1, EndKeepsCollect DEF collectHistory
  <1>2. ASSUME UNCHANGED intentFile, UNCHANGED <<collector, collectCursor, collectHistory>>
        PROVE  CollectInv'
    <2>1. EndedPlaces' \subseteq EndedPlaces
      BY <1>2 DEF EndedPlaces, collectPromptQueueRuns, HasEnded, PlaceOfIntent
    <2> QED BY <1>1, <1>2, <2>1
  <1>3. ASSUME NEW i \in IntentIds, NEW s \in Sources,
               enqueuePromptQueueIntent(i, s) \/ enqueueLocalHandoffIntent(i, s)
        PROVE  CollectInv'
    <2>1. createQueueIntent(i, s, s) /\ UNCHANGED <<collector, collectCursor, collectHistory>>
      BY <1>3 DEF enqueuePromptQueueIntent, enqueueLocalHandoffIntent, collectHistory
    <2> QED BY <1>1, <2>1, CreateEndsNothing
  <1>4. ASSUME NEW i \in IntentIds, NEW j \in IntentIds, RetryIntent(i, j)
        PROVE  CollectInv'
    <2>1. /\ createQueueIntent(j, retryDispatchRunSource(intentFile[i].source), asked[i])
          /\ UNCHANGED <<collector, collectCursor, collectHistory>>
      BY <1>4 DEF RetryIntent, collectHistory
    <2>2. EndedPlaces' \subseteq EndedPlaces
      BY <2>1, CreateEndsNothing
    <2> QED BY <1>1, <2>1, <2>2
  <1>5. ASSUME NEW i \in IntentIds, CancelIntent(i)
        PROVE  CollectInv'
    <2>1. PutEnd(i, "canceled", queueNow) /\ UNCHANGED <<collector, collectCursor, collected>>
      BY <1>5 DEF CancelIntent
    <2> QED BY <2>1, EndIsSeen, EndKeepsCollect
  <1>6. ASSUME NEW d \in Drains, WriteEnd(d)
        PROVE  CollectInv'
    <2>1. /\ PutEnd(drain[d].cur, drain[d].status, drain[d].at) /\ drain[d].pc = "write"
          /\ UNCHANGED <<collector, collectCursor, collected>>
      BY <1>6 DEF WriteEnd, DrainStep
    <2>2. drain[d].cur \in IntentIds
      BY <2>1 DEF HandoffInv
    <2> QED BY <2>1, <2>2, EndIsSeen, EndKeepsCollect
  <1>7. ASSUME NEW d \in Drains, ClaimIntent(d)
        PROVE  CollectInv'
    <2>1. UNCHANGED <<collector, collectCursor, collectHistory>>
      BY <1>7 DEF ClaimIntent, DrainStep, missHistory, collectHistory
    <2> QED BY <1>1, <1>7, <2>1, ClaimEndsNothing
  <1>8. ASSUME NEW d \in Drains, materializeLocalHandoffIntent(d)
        PROVE  CollectInv'
    <2>1. PICK i \in IntentIds, prompt \in Sources : createQueueIntent(i, prompt, prompt)
      BY <1>8 DEF materializeLocalHandoffIntent
    <2>2. UNCHANGED <<collector, collectCursor, collectHistory>>
      BY <1>8 DEF materializeLocalHandoffIntent, DrainStep, missHistory, collectHistory
    <2> QED BY <1>1, <2>1, <2>2, CreateEndsNothing
  <1>9. ASSUME NEW d \in Drains,
               \/ StartDrain(d) \/ JudgeIntent(d) \/ SkipIntent(d) \/ LoseClaim(d)
               \/ executeDispatchRunTarget(d) \/ StampEnd(d) \/ FinishDrain(d) \/ DrainDies(d)
        PROVE  CollectInv'
    <2>1. UNCHANGED intentFile /\ UNCHANGED <<collector, collectCursor, collectHistory>>
      BY <1>9 DEF StartDrain, JudgeIntent, SkipIntent, LoseClaim, executeDispatchRunTarget, StampEnd, FinishDrain,
         DrainDies, DrainStep, missHistory, collectHistory
    <2> QED BY <1>2, <2>1
  <1>10. CASE QueueTimePasses \/ UNCHANGED queueVars
    BY <1>2, <1>10 DEF QueueTimePasses, queueVars, collectHistory
  <1> QED BY <1>3, <1>4, <1>5, <1>6, <1>7, <1>8, <1>9, <1>10 DEF DrainSteps

(* For any intents and collectors (collectDispatchRuns, which reads the    *)
(* cursor, lists, reads file by file and writes the cursor): the cursor    *)
(* moves over an end only if a collector had it in its batch, or the end   *)
(* was written behind the cursor, or to a file that the one collector that *)
(* moved the cursor had read by then.                                      *)
THEOREM PassedIsSeen == QueueSpec => []PassedIsCollected
  <1>1. QueueInit => CollectInv
    <2> SUFFICES ASSUME QueueInit PROVE CollectInv
      OBVIOUS
    <2>1. CollectorShape /\ \A c \in Collectors : collector[c].pc = "idle"
      BY DEF QueueInit, IdleCollector, CollectorShape
    <2>2. EndedPlaces = {}
      BY DEF QueueInit, EndedPlaces, collectPromptQueueRuns, HasEnded, Ended
    <2> QED BY <2>1, <2>2 DEF CollectInv, Follows
  <1>2. HandoffInv /\ CollectInv /\ [QueueNext]_queueVars => CollectInv'
    BY OthersKeepCollect, ReadCursorKeepsCollect, ListKeepsCollect, ReadKeepsCollect, WriteKeepsCollect, LeaveKeepsCollect
       DEF QueueNext, CollectSteps
  <1>3. CollectInv => PassedIsCollected
    BY DEF CollectInv, EndedPlaces, Accounted, PassedIsCollected
  <1> QED BY <1>1, <1>2, <1>3, HandoffInvariance, PTL DEF QueueSpec
=============================================================================
