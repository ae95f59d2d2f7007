-------------------------- MODULE WorkbenchProofs --------------------------
(***************************************************************************)
(* Proofs about what the workbench runs and is asked to run: the scheduled *)
(* job, the functions of a repository, the tasks with their records and    *)
(* the health summary, and the requests for turns.                         *)
(***************************************************************************)
EXTENDS ActionsJob, FunctionsRuntime, WorkbenchTasks, TurnRequest, FiniteSetTheorems, TLAPS

-----------------------------------------------------------------------------
(***************************************************************************)
(* The scheduled job, for any number of overlapping runs, any work and any *)
(* number of failing steps.                                                *)
(***************************************************************************)
AnyJob == [pc : {"new", "auth", "run", "cleanup", "commit", "push", "done"}, base : Nat,
           done : SUBSET Work, files : SUBSET Kinds,
           outcome : {"none", "pushed", "rejected", "aborted"}]

JobShape ==
  /\ job \in [Jobs -> AnyJob]
  /\ upstream \in [head : Nat, done : SUBSET Work, files : SUBSET Kinds]
  /\ gitignore \subseteq Kinds

(* What a job takes to the push and what only cleanup keeps back.          *)
CommitIsClean ==
  /\ Private \cup Databases \subseteq gitignore
  /\ \A j \in Jobs : job[j].pc = "push" =>
       job[j].files \cap Private = {} /\ job[j].files \cap Databases \subseteq {"sessionDb"}
  /\ \A j \in Jobs : job[j].pc \in {"commit", "push"} /\ "sessionDb" \in job[j].files => cleanupFailed

(* Who can still push has all that is upstream; who has executed nothing   *)
(* has nothing else; and what was pushed is there.                         *)
JobUnderWay == {"auth", "run", "cleanup", "commit", "push"}
WorkIsKept ==
  \A j \in Jobs :
    /\ job[j].base <= upstream.head
    /\ job[j].pc \in JobUnderWay /\ job[j].base = upstream.head => upstream.done \subseteq job[j].done
    /\ job[j].pc \in JobUnderWay \ {"push"} /\ "state" \notin job[j].files
         => job[j].done \subseteq upstream.done
    /\ job[j].pc = "done" =>
         \/ job[j].done \subseteq upstream.done
         \/ job[j].outcome = "rejected"
         \/ "memories" \notin job[j].files

JobInv == JobShape /\ CommitIsClean /\ WorkIsKept /\ NothingPrivatePushed

----------------------------------------------------------------------------
(* What git adds is nothing private, and no database but that of sessions. *)
LEMMA AddedIsClean ==
  ASSUME NEW files \in SUBSET Kinds, Private \cup Databases \subseteq gitignore
  PROVE  /\ Added(files) \subseteq files
         /\ Added(files) \cap Private = {}
         /\ Added(files) \cap Databases \subseteq {"sessionDb"}
BY DEF Added, Private, Databases

(* A step of one job that leaves the branch alone.                         *)
LEMMA JobStepKeepsInv ==
  ASSUME JobInv, NEW j \in Jobs, NEW to, NEW from, JobStep(j, from, to),
         to \in AnyJob,
         UNCHANGED upstream, cleanupFailed => cleanupFailed',
         to.pc = "push" => to.files \cap Private = {} /\ to.files \cap Databases \subseteq {"sessionDb"},
         to.pc \in {"commit", "push"} /\ "sessionDb" \in to.files => cleanupFailed',
         to.base <= upstream.head,
         to.pc \in JobUnderWay /\ to.base = upstream.head => upstream.done \subseteq to.done,
         to.pc \in JobUnderWay \ {"push"} /\ "state" \notin to.files => to.done \subseteq upstream.done,
         to.pc = "done" => \/ to.done \subseteq upstream.done
                           \/ to.outcome = "rejected"
                           \/ "memories" \notin to.files
  PROVE  JobInv'
PROOF
  <1>1. /\ \A k \in Jobs : job'[k] = IF k = j THEN to ELSE job[k]
        /\ UNCHANGED <<upstream, gitignore>>
    BY DEF JobStep, JobInv, JobShape, AnyJob
  <1>2. JobShape'
    BY <1>1 DEF JobStep, JobInv, JobShape, AnyJob
  <1>3. CommitIsClean'
    BY <1>1 DEF JobInv, CommitIsClean
  <1>4. WorkIsKept'
    BY <1>1 DEF JobInv, WorkIsKept
  <1>5. NothingPrivatePushed'
    BY <1>1 DEF JobInv, NothingPrivatePushed
  <1> QED BY <1>2, <1>3, <1>4, <1>5 DEF JobInv

LEMMA CheckoutKeepsInv ==
  ASSUME JobInv, NEW j \in Jobs, Checkout(j)
  PROVE  JobInv'
PROOF
  <1> DEFINE to == [job[j] EXCEPT !.pc = "auth", !.base = upstream.head,
                                  !.done = upstream.done, !.files = upstream.files]
  <1>1. JobStep(j, "new", to) /\ UNCHANGED <<upstream, jobFaults, cleanupFailed>>
    BY DEF Checkout
  <1>2. /\ to \in AnyJob
        /\ to.pc = "auth" /\ to.base = upstream.head /\ to.done = upstream.done
        /\ upstream.head \in Nat
    BY DEF JobInv, JobShape, AnyJob
  <1> HIDE DEF to
  <1> QED BY <1>1, <1>2, JobStepKeepsInv

(* A step before the commit, which may add to the work and to the files.   *)
LEMMA EarlyStepKeepsInv ==
  ASSUME JobInv, NEW j \in Jobs, NEW from \in {"auth", "run", "cleanup"},
         NEW next \in {"run", "cleanup", "commit"},
         NEW done \in SUBSET Work, NEW files \in SUBSET Kinds,
         JobStep(j, from, [job[j] EXCEPT !.pc = next, !.done = done, !.files = files]),
         UNCHANGED upstream, cleanupFailed => cleanupFailed',
         job[j].done \subseteq done,
         "state" \notin files => done = job[j].done /\ "state" \notin job[j].files,
         next = "commit" /\ "sessionDb" \in files => cleanupFailed'
  PROVE  JobInv'
PROOF
  <1> DEFINE to == [job[j] EXCEPT !.pc = next, !.done = done, !.files = files]
  <1>1. JobStep(j, from, to)
    OBVIOUS
  <1>2. /\ to \in AnyJob
        /\ to.pc = next /\ to.base = job[j].base /\ to.done = done /\ to.files = files
    BY DEF JobInv, JobShape, AnyJob
  <1>3. job[j].pc = from
    BY DEF JobStep
  <1> HIDE DEF to
  <1>4. to.base <= upstream.head
    BY <1>2 DEF JobInv, WorkIsKept
  <1>5. to.base = upstream.head => upstream.done \subseteq to.done
    BY <1>2, <1>3 DEF JobInv, WorkIsKept, JobUnderWay
  <1>6. "state" \notin to.files => to.done \subseteq upstream.done
    BY <1>2, <1>3 DEF JobInv, WorkIsKept, JobUnderWay
  <1> QED BY <1>1, <1>2, <1>4, <1>5, <1>6, JobStepKeepsInv

LEMMA AuthKeepsInv ==
  ASSUME JobInv, NEW j \in Jobs, prepareActionsCodexAuth(j) \/ AuthFails(j)
  PROVE  JobInv'
PROOF
  <1>1. job[j].done \in SUBSET Work /\ job[j].files \in SUBSET Kinds
    BY DEF JobInv, JobShape, AnyJob
  <1>2. CASE prepareActionsCodexAuth(j)
    <2>1. PICK written \in {{}, {"auth"}} :
            JobStep(j, "auth", [job[j] EXCEPT !.pc = "run", !.files = @ \cup written])
      BY <1>2 DEF prepareActionsCodexAuth
    <2> DEFINE files == job[j].files \cup written
    <2>2. files \in SUBSET Kinds /\ ("state" \notin files => "state" \notin job[j].files)
      BY <1>1 DEF Kinds, Private
    <2>3. [job[j] EXCEPT !.pc = "run", !.files = @ \cup written]
            = [job[j] EXCEPT !.pc = "run", !.done = job[j].done, !.files = files]
      BY DEF JobInv, JobShape, AnyJob
    <2>4. upstream' = upstream /\ cleanupFailed' = cleanupFailed
      BY <1>2 DEF prepareActionsCodexAuth
    <2>5. JobStep(j, "auth", [job[j] EXCEPT !.pc = "run", !.done = job[j].done, !.files = files])
      BY <2>1, <2>3
    <2> HIDE DEF files
    <2> QED BY <1>1, <2>2, <2>4, <2>5, EarlyStepKeepsInv
  <1>3. CASE AuthFails(j)
    <2>1. JobStep(j, "auth", [job[j] EXCEPT !.pc = "cleanup"]) /\ UNCHANGED <<upstream, cleanupFailed>>
      BY <1>3 DEF AuthFails
    <2>2. [job[j] EXCEPT !.pc = "cleanup"]
            = [job[j] EXCEPT !.pc = "cleanup", !.done = job[j].done, !.files = job[j].files]
      BY DEF JobInv, JobShape, AnyJob
    <2> QED BY <1>1, <2>1, <2>2, EarlyStepKeepsInv
  <1> QED BY <1>2, <1>3

LEMMA RunKeepsInv ==
  ASSUME JobInv, NEW j \in Jobs, RunDue(j) \/ RunFails(j)
  PROVE  JobInv'
PROOF
  <1>1. job[j].done \in SUBSET Work /\ job[j].files \in SUBSET Kinds
    BY DEF JobInv, JobShape, AnyJob
  <1>2. CASE RunDue(j)
    <2>1. PICK written \in {{}, Kinds \ {"memories", "auth", "localState"}, Kinds \ {"auth", "localState"}} :
            JobStep(j, "run", [job[j] EXCEPT !.pc = "cleanup", !.done = Work,
                                 !.files = @ \cup {"state"} \cup written])
      BY <1>2 DEF RunDue
    <2> DEFINE files == job[j].files \cup {"state"} \cup written
    <2>2. files \in SUBSET Kinds /\ "state" \in files
      <3>1. written \subseteq Kinds
        OBVIOUS
      <3>2. "state" \in Kinds
        BY DEF Kinds, Durable
      <3> QED BY <1>1, <3>1, <3>2
    <2>3. [job[j] EXCEPT !.pc = "cleanup", !.done = Work, !.files = @ \cup {"state"} \cup written]
            = [job[j] EXCEPT !.pc = "cleanup", !.done = Work, !.files = files]
      BY DEF JobInv, JobShape, AnyJob
    <2>4. UNCHANGED <<upstream, cleanupFailed>>
      BY <1>2 DEF RunDue
    <2> HIDE DEF files
    <2> QED BY <1>1, <2>1, <2>2, <2>3, <2>4, EarlyStepKeepsInv
  <1>3. CASE RunFails(j)
    <2>1. PICK some \in SUBSET Work :
            JobStep(j, "run", [job[j] EXCEPT !.pc = "cleanup", !.done = @ \cup some,
                                 !.files = @ \cup {"state", "sessions", "sessionDb"}])
      BY <1>3 DEF RunFails
    <2> DEFINE files == job[j].files \cup {"state", "sessions", "sessionDb"}
               done == job[j].done \cup some
    <2>2. /\ files \in SUBSET Kinds /\ "state" \in files
          /\ done \in SUBSET Work /\ job[j].done \subseteq done
      BY <1>1 DEF Kinds, Durable, Databases
    <2>3. [job[j] EXCEPT !.pc = "cleanup", !.done = @ \cup some,
                         !.files = @ \cup {"state", "sessions", "sessionDb"}]
            = [job[j] EXCEPT !.pc = "cleanup", !.done = done, !.files = files]
      BY DEF JobInv, JobShape, AnyJob
    <2>4. UNCHANGED <<upstream, cleanupFailed>>
      BY <1>3 DEF RunFails
    <2> HIDE DEF files, done
    <2> QED BY <2>1, <2>2, <2>3, <2>4, EarlyStepKeepsInv
  <1> QED BY <1>2, <1>3

LEMMA CleanupKeepsInv ==
  ASSUME JobInv, NEW j \in Jobs, cleanupActionsCodexHome(j) \/ CleanupFails(j)
  PROVE  JobInv'
PROOF
  <1>1. job[j].done \in SUBSET Work /\ job[j].files \in SUBSET Kinds
    BY DEF JobInv, JobShape, AnyJob
  <1>2. CASE cleanupActionsCodexHome(j)
    <2> DEFINE files == job[j].files \ Removed
    <2>1. /\ JobStep(j, "cleanup", [job[j] EXCEPT !.pc = "commit", !.files = @ \ Removed])
          /\ UNCHANGED <<upstream, cleanupFailed>>
      BY <1>2 DEF cleanupActionsCodexHome
    <2>2. "state" \notin Removed /\ "sessionDb" \in Removed
      BY DEF Removed, Private, Databases
    <2>3. /\ files \in SUBSET Kinds /\ "sessionDb" \notin files
          /\ "state" \notin files => "state" \notin job[j].files
      BY <1>1, <2>2
    <2>4. [job[j] EXCEPT !.pc = "commit", !.files = @ \ Removed]
            = [job[j] EXCEPT !.pc = "commit", !.done = job[j].done, !.files = files]
      BY DEF JobInv, JobShape, AnyJob
    <2> HIDE DEF files
    <2> QED BY <1>1, <2>1, <2>3, <2>4, EarlyStepKeepsInv
  <1>3. CASE CleanupFails(j)
    <2>1. /\ JobStep(j, "cleanup", [job[j] EXCEPT !.pc = "commit"])
          /\ UNCHANGED upstream /\ cleanupFailed'
      BY <1>3 DEF CleanupFails
    <2>2. [job[j] EXCEPT !.pc = "commit"]
            = [job[j] EXCEPT !.pc = "commit", !.done = job[j].done, !.files = job[j].files]
      BY DEF JobInv, JobShape, AnyJob
    <2> QED BY <1>1, <2>1, <2>2, EarlyStepKeepsInv
  <1> QED BY <1>2, <1>3

LEMMA CommitKeepsInv ==
  ASSUME JobInv, NEW j \in Jobs, AddFails(j) \/ CommitState(j)
  PROVE  JobInv'
PROOF
  <1>1. /\ job[j].done \in SUBSET Work /\ job[j].files \in SUBSET Kinds
        /\ job[j].base \in Nat /\ job[j].base <= upstream.head
    BY DEF JobInv, JobShape, AnyJob, WorkIsKept
  <1>2. CASE AddFails(j)
    <2> DEFINE to == [job[j] EXCEPT !.pc = "done", !.outcome = "aborted"]
    <2>1. /\ JobStep(j, "commit", to) /\ UNCHANGED <<upstream, cleanupFailed>>
          /\ job[j].pc = "commit" /\ ~({"memories", "state"} \subseteq job[j].files)
      BY <1>2 DEF AddFails, JobStep
    <2>2. /\ to \in AnyJob
          /\ to.pc = "done" /\ to.base = job[j].base /\ to.done = job[j].done
          /\ to.files = job[j].files
      BY DEF JobInv, JobShape, AnyJob
    <2>3. to.done \subseteq upstream.done \/ "memories" \notin to.files
      BY <2>1, <2>2 DEF JobInv, WorkIsKept, JobUnderWay
    <2> HIDE DEF to
    <2> QED BY <1>1, <2>1, <2>2, <2>3, JobStepKeepsInv DEF JobUnderWay
  <1>3. CASE CommitState(j)
    <2> DEFINE to == [job[j] EXCEPT !.pc = "push", !.files = Added(job[j].files)]
    <2>1. /\ JobStep(j, "commit", to) /\ UNCHANGED <<upstream, cleanupFailed>>
          /\ job[j].pc = "commit"
      BY <1>3 DEF CommitState, JobStep
    <2>2. /\ Added(job[j].files) \subseteq job[j].files
          /\ Added(job[j].files) \cap Private = {}
          /\ Added(job[j].files) \cap Databases \subseteq {"sessionDb"}
      BY <1>1, AddedIsClean DEF JobInv, CommitIsClean
    <2>3. /\ to \in AnyJob
          /\ to.pc = "push" /\ to.base = job[j].base /\ to.done = job[j].done
          /\ to.files = Added(job[j].files)
      BY <1>1, <2>2 DEF JobInv, JobShape, AnyJob
    <2>4. "sessionDb" \in to.files => cleanupFailed
      BY <2>1, <2>2, <2>3 DEF JobInv, CommitIsClean
    <2>5. to.base = upstream.head => upstream.done \subseteq to.done
      BY <2>1, <2>3 DEF JobInv, WorkIsKept, JobUnderWay
    <2> HIDE DEF to
    <2> QED BY <1>1, <2>1, <2>2, <2>3, <2>4, <2>5, JobStepKeepsInv
  <1> QED BY <1>2, <1>3

LEMMA PushKeepsInv ==
  ASSUME JobInv, NEW j \in Jobs, Push(j)
  PROVE  JobInv'
PROOF
  <1> DEFINE to == [job[j] EXCEPT !.pc = "done", !.outcome = "pushed"]
  <1>1. /\ job[j].pc = "push" /\ job[j].base = upstream.head
        /\ job' = [job EXCEPT ![j] = to] /\ UNCHANGED <<gitignore, cleanupFailed>>
        /\ upstream' = [head |-> upstream.head + 1, done |-> job[j].done,
                        files |-> upstream.files \cup job[j].files]
    BY DEF Push, JobStep
  <1>2. /\ to \in AnyJob
        /\ to.pc = "done" /\ to.base = job[j].base /\ to.done = job[j].done
        /\ job[j].done \in SUBSET Work /\ job[j].files \in SUBSET Kinds
    BY DEF JobInv, JobShape, AnyJob
  <1> HIDE DEF to
  <1>3. \A k \in Jobs : job'[k] = IF k = j THEN to ELSE job[k]
    BY <1>1 DEF JobInv, JobShape, AnyJob
  <1>4. JobShape'
    BY <1>1, <1>2 DEF JobInv, JobShape, AnyJob
  <1>5. CommitIsClean'
    BY <1>1, <1>2, <1>3 DEF JobInv, CommitIsClean
  <1>6. NothingPrivatePushed'
    <2>1. /\ job[j].files \cap Private = {} /\ job[j].files \cap Databases \subseteq {"sessionDb"}
          /\ "sessionDb" \in job[j].files => cleanupFailed
      BY <1>1 DEF JobInv, CommitIsClean
    <2> QED BY <1>1, <2>1 DEF JobInv, NothingPrivatePushed
  <1>7. WorkIsKept'
    <2>1. /\ upstream'.head = upstream.head + 1 /\ upstream'.done = job[j].done
          /\ upstream.head \in Nat
      BY <1>1 DEF JobInv, JobShape, AnyJob
    <2>2. upstream.done \subseteq upstream'.done
      BY <1>1, <2>1 DEF JobInv, WorkIsKept, JobUnderWay
    <2>3. \A k \in Jobs : job[k].base \in Nat /\ job[k].base <= upstream.head
      BY DEF JobInv, JobShape, AnyJob, WorkIsKept
    <2> SUFFICES ASSUME NEW k \in Jobs
        PROVE /\ job'[k].base <= upstream'.head
              /\ job'[k].pc \in JobUnderWay /\ job'[k].base = upstream'.head
                   => upstream'.done \subseteq job'[k].done
              /\ job'[k].pc \in JobUnderWay \ {"push"} /\ "state" \notin job'[k].files
                   => job'[k].done \subseteq upstream'.done
              /\ job'[k].pc = "done" => \/ job'[k].done \subseteq upstream'.done
                                        \/ job'[k].outcome = "rejected"
                                        \/ "memories" \notin job'[k].files
      BY DEF WorkIsKept
    <2>4. CASE k = j
      BY <1>1, <1>2, <1>3, <2>1, <2>3, <2>4 DEF JobUnderWay
    <2>5. CASE k # j
      <3>1. job'[k] = job[k]
        BY <2>5, <1>3
      <3>2. job[k].base <= upstream'.head /\ job[k].base # upstream'.head
        BY <2>1, <2>3
      <3>3. /\ job[k].pc \in JobUnderWay \ {"push"} /\ "state" \notin job[k].files
                 => job[k].done \subseteq upstream.done
            /\ job[k].pc = "done" => \/ job[k].done \subseteq upstream.done
                                     \/ job[k].outcome = "rejected"
                                     \/ "memories" \notin job[k].files
        BY DEF JobInv, WorkIsKept
      <3> QED BY <3>1, <3>2, <3>3, <2>2
    <2> QED BY <2>4, <2>5
  <1> QED BY <1>4, <1>5, <1>6, <1>7 DEF JobInv

LEMMA PushRejectedKeepsInv ==
  ASSUME JobInv, NEW j \in Jobs, PushRejected(j)
  PROVE  JobInv'
PROOF
  <1> DEFINE to == [job[j] EXCEPT !.pc = "done", !.outcome = "rejected"]
  <1>1. JobStep(j, "push", to) /\ UNCHANGED <<upstream, cleanupFailed>>
    BY DEF PushRejected
  <1>2. /\ to \in AnyJob
        /\ to.pc = "done" /\ to.base = job[j].base /\ to.outcome = "rejected"
        /\ job[j].base <= upstream.head
    BY DEF JobInv, JobShape, AnyJob, WorkIsKept
  <1> HIDE DEF to
  <1> QED BY <1>1, <1>2, JobStepKeepsInv DEF JobUnderWay

----------------------------------------------------------------------------
LEMMA JobInvariance == JobSpec => []JobInv
PROOF
  <1>1. JobInit => JobInv
    <2> SUFFICES ASSUME JobInit PROVE JobInv
      OBVIOUS
    <2>1. PICK files \in {{}, {"memories"}, {"memories", "sessions"}} :
            upstream = [head |-> 0, done |-> {}, files |-> files]
      BY DEF JobInit
    <2>2. PICK entries \in {{}, {"sessions", "sessionDb"}, {"auth"}} :
            gitignore = appendGitignoreEntries(entries)
      BY DEF JobInit
    <2>3. gitignore \subseteq Kinds /\ Private \cup Databases \subseteq gitignore
      BY <2>2 DEF appendGitignoreEntries, actionsGitignoreEntries, Kinds, Private, Databases, Durable
    <2>4. /\ files \subseteq Kinds /\ files \cap Private = {}
          /\ files \cap Databases = {} /\ "sessionDb" \notin files
      BY <2>1 DEF Kinds, Private, Databases, Durable
    <2>5. job = [j \in Jobs |-> [pc |-> "new", base |-> 0, done |-> {}, files |-> {},
                                 outcome |-> "none"]]
      BY DEF JobInit
    <2>6. JobShape
      BY <2>1, <2>3, <2>4, <2>5 DEF JobShape, AnyJob
    <2>7. CommitIsClean
      BY <2>3, <2>5 DEF CommitIsClean
    <2>8. WorkIsKept
      BY <2>1, <2>5 DEF WorkIsKept, JobUnderWay
    <2>9. NothingPrivatePushed
      BY <2>1, <2>4 DEF NothingPrivatePushed
    <2> QED BY <2>6, <2>7, <2>8, <2>9 DEF JobInv
  <1>2. JobInv /\ [JobNext]_jobVars => JobInv'
    <2> SUFFICES ASSUME JobInv, [JobNext]_jobVars PROVE JobInv'
      OBVIOUS
    <2>1. ASSUME NEW j \in Jobs, Checkout(j) PROVE JobInv'
      BY <2>1, CheckoutKeepsInv
    <2>2. ASSUME NEW j \in Jobs, prepareActionsCodexAuth(j) \/ AuthFails(j) PROVE JobInv'
      BY <2>2, AuthKeepsInv
    <2>3. ASSUME NEW j \in Jobs, RunDue(j) \/ RunFails(j) PROVE JobInv'
      BY <2>3, RunKeepsInv
    <2>4. ASSUME NEW j \in Jobs, cleanupActionsCodexHome(j) \/ CleanupFails(j) PROVE JobInv'
      BY <2>4, CleanupKeepsInv
    <2>5. ASSUME NEW j \in Jobs, AddFails(j) \/ CommitState(j) PROVE JobInv'
      BY <2>5, CommitKeepsInv
    <2>6. ASSUME NEW j \in Jobs, Push(j) PROVE JobInv'
      BY <2>6, PushKeepsInv
    <2>7. ASSUME NEW j \in Jobs, PushRejected(j) PROVE JobInv'
      BY <2>7, PushRejectedKeepsInv
    <2>8. CASE UNCHANGED jobVars
      BY <2>8 DEF jobVars, JobInv, JobShape, CommitIsClean, WorkIsKept, NothingPrivatePushed
    <2> QED BY <2>1, <2>2, <2>3, <2>4, <2>5, <2>6, <2>7, <2>8 DEF JobNext
  <1> QED BY <1>1, <1>2, PTL DEF JobSpec

(* No job pushes what is private, whatever fails and however jobs overlap. *)
THEOREM JobsKeepPrivate == JobSpec => []NothingPrivatePushed
PROOF
  <1>1. JobInv => NothingPrivatePushed
    BY DEF JobInv
  <1> QED BY <1>1, JobInvariance, PTL

(* What a job has executed is upstream, unless its push was rejected or    *)
(* there was no memories directory to add.                                 *)
THEOREM JobsPushTheirWork == JobSpec => []ExecutedIsPushed
PROOF
  <1>1. JobInv => ExecutedIsPushed
    BY DEF JobInv, WorkIsKept, ExecutedIsPushed
  <1> QED BY <1>1, JobInvariance, PTL

-----------------------------------------------------------------------------
(***************************************************************************)
(* Calls of functions, for any number of them, of edits and ticks of the   *)
(* clock.                                                                  *)
(***************************************************************************)
AnyCall == [step : {"idle", "find", "stat", "import", "loaded", "done", "failed"},
            method : {"list", "describe", "call"}, file : 0..3, mtime : 0..MaxMtime,
            module : Nat, seen : SUBSET ((1..3) \X Nat)]

FunctionsShape ==
  /\ functionFiles \in [1..3 -> [version : Nat, mtime : 0..MaxMtime]]
  /\ moduleCache \in [1..3 -> [0..MaxMtime -> Nat]]
  /\ functionCall \in [FunctionCalls -> AnyCall]
  /\ manifestEdits \in Nat

CallUnderWay == {"find", "stat", "import", "loaded"}

(* The history knows what is there, and that versions are new ones.        *)
HistoryIsComplete ==
  /\ \A e \in 1..3 : Written(e) => <<e, functionFiles[e].version, functionFiles[e].mtime>> \in mtimesOf
  /\ \A e \in 1..3 : \A v, t : <<e, v, t>> \in mtimesOf => v \in Nat /\ v <= manifestEdits
  /\ \A e \in 1..3, c \in FunctionCalls :
       Written(e) /\ functionCall[c].step \in CallUnderWay
         => <<e, functionFiles[e].version>> \in functionCall[c].seen

(* A module is cached under a time that a version of its file had; under   *)
(* the time of the current version it is the current version.              *)
CacheIsOfFile ==
  /\ \A e \in 1..3, t \in 0..MaxMtime :
       moduleCache[e][t] # NotLoaded => \E v \in Nat : <<e, v, t>> \in mtimesOf
  /\ \A e \in 1..3 :
       Written(e) /\ TimeIsUnique(e) /\ moduleCache[e][functionFiles[e].mtime] # NotLoaded
         => moduleCache[e][functionFiles[e].mtime] = functionFiles[e].version

(* What a call is about to be served, or was, was there during the call.   *)
Served(c) ==
  LET call == functionCall[c]
  IN /\ call.step \in {"idle", "find"} => call.file = 0
     /\ call.step \in {"stat", "import"} => call.file \in 1..3
     /\ call.step = "import" => \E v \in Nat : <<call.file, v, call.mtime>> \in mtimesOf
     /\ call.step = "import" /\ TimeIsUnique(call.file)
           /\ moduleCache[call.file][call.mtime] # NotLoaded
          => <<call.file, moduleCache[call.file][call.mtime]>> \in call.seen
     /\ call.step \in {"loaded", "done"} /\ call.file # 0 /\ TimeIsUnique(call.file)
          => <<call.file, call.module>> \in call.seen

CallsAreServed == \A c \in FunctionCalls : Served(c)

FunctionsInv == FunctionsShape /\ HistoryIsComplete /\ CacheIsOfFile /\ CallsAreServed

----------------------------------------------------------------------------
LEMMA FoundIsFile == findFunctionsManifest \in 0..3
PROOF
  <1>1. CASE \E e \in 1..3 : Written(e)
    <2>1. \E e \in 1..3 : Written(e) /\ \A x \in 1..e - 1 : ~Written(x)
      <3>1. CASE Written(1)
        <4>1. \A x \in 1..1 - 1 : FALSE
          OBVIOUS
        <4> QED BY <3>1, <4>1
      <3>2. CASE ~Written(1) /\ Written(2)
        <4>1. \A x \in 1..2 - 1 : x = 1
          OBVIOUS
        <4> QED BY <3>2, <4>1
      <3>3. CASE ~Written(1) /\ ~Written(2) /\ Written(3)
        <4>1. \A x \in 1..3 - 1 : x = 1 \/ x = 2
          OBVIOUS
        <4> QED BY <3>3, <4>1
      <3>4. \A e \in 1..3 : e = 1 \/ e = 2 \/ e = 3
        OBVIOUS
      <3> QED BY <1>1, <3>1, <3>2, <3>3, <3>4
    <2> DEFINE found == CHOOSE e \in 1..3 : Written(e) /\ \A x \in 1..e - 1 : ~Written(x)
    <2>2. found \in 1..3
      BY <2>1
    <2>3. findFunctionsManifest = found
      BY <1>1 DEF findFunctionsManifest
    <2> HIDE DEF found
    <2> QED BY <2>2, <2>3
  <1>2. CASE ~\E e \in 1..3 : Written(e)
    BY <1>2 DEF findFunctionsManifest
  <1> QED BY <1>1, <1>2

(* A step of a call that leaves files and cache alone.                     *)
LEMMA CallStepKeepsInv ==
  ASSUME FunctionsInv, NEW c \in FunctionCalls, NEW to \in AnyCall, CallIs(c, to),
         UNCHANGED moduleCache, FunctionFilesKept,
         to.step \in CallUnderWay => \/ to.seen = CurrentFunctions
                                     \/ functionCall[c].step \in CallUnderWay /\ to.seen = functionCall[c].seen,
         to.step \in {"idle", "find"} => to.file = 0,
         to.step \in {"stat", "import"} => to.file \in 1..3,
         to.step = "import" => \E v \in Nat : <<to.file, v, to.mtime>> \in mtimesOf,
         to.step = "import" /\ TimeIsUnique(to.file) /\ moduleCache[to.file][to.mtime] # NotLoaded
           => <<to.file, moduleCache[to.file][to.mtime]>> \in to.seen,
         to.step \in {"loaded", "done"} /\ to.file # 0 /\ TimeIsUnique(to.file)
           => <<to.file, to.module>> \in to.seen
  PROVE  FunctionsInv'
PROOF
  <1>1. /\ \A d \in FunctionCalls : functionCall'[d] = IF d = c THEN to ELSE functionCall[d]
        /\ UNCHANGED <<functionFiles, moduleCache, manifestEdits, mtimesOf>>
    BY DEF CallIs, FunctionFilesKept, FunctionsInv, FunctionsShape
  <1>2. FunctionsShape'
    BY <1>1 DEF CallIs, FunctionsInv, FunctionsShape
  <1>3. (\A e \in 1..3 : Written(e)' = Written(e)) /\ (\A e : TimeIsUnique(e)' = TimeIsUnique(e))
    BY <1>1 DEF Written, TimeIsUnique
  <1>4. HistoryIsComplete'
    <2>1. \A e \in 1..3 : Written(e) => <<e, functionFiles[e].version>> \in CurrentFunctions
      BY DEF CurrentFunctions
    <2> QED BY <1>1, <1>3, <2>1 DEF FunctionsInv, HistoryIsComplete
  <1>5. CacheIsOfFile'
    BY <1>1, <1>3 DEF FunctionsInv, CacheIsOfFile
  <1>6. CallsAreServed'
    BY <1>1, <1>3 DEF FunctionsInv, CallsAreServed, Served
  <1> QED BY <1>2, <1>4, <1>5, <1>6 DEF FunctionsInv

LEMMA CallFailsKeepsInv ==
  ASSUME FunctionsInv, NEW c \in FunctionCalls, CallFails(c),
         UNCHANGED moduleCache, FunctionFilesKept
  PROVE  FunctionsInv'
PROOF
  <1> DEFINE to == [IdleCall EXCEPT !.step = "failed"]
  <1>1. CallIs(c, to) /\ to.step = "failed" /\ to \in AnyCall
    BY FunctionsConstants DEF CallFails, IdleCall, AnyCall, NotLoaded
  <1> HIDE DEF to
  <1> QED BY <1>1, CallStepKeepsInv DEF CallUnderWay

LEMMA AskKeepsInv ==
  ASSUME FunctionsInv, NEW c \in FunctionCalls, AskFunctions(c)
  PROVE  FunctionsInv'
PROOF
  <1>1. PICK method \in {"list", "describe", "call"} :
          CallIs(c, [functionCall[c] EXCEPT !.step = "find", !.method = method, !.seen = CurrentFunctions])
    BY DEF AskFunctions
  <1> DEFINE to == [functionCall[c] EXCEPT !.step = "find", !.method = method, !.seen = CurrentFunctions]
  <1>2. CurrentFunctions \subseteq (1..3) \X Nat
    BY SMTT(20) DEF CurrentFunctions, FunctionsInv, FunctionsShape
  <1>3. to \in AnyCall /\ to.step = "find" /\ to.seen = CurrentFunctions /\ to.file = 0
    BY <1>2 DEF AskFunctions, FunctionsInv, FunctionsShape, AnyCall, CallsAreServed, Served
  <1>4. CallIs(c, to) /\ UNCHANGED moduleCache /\ FunctionFilesKept
    BY <1>1 DEF AskFunctions
  <1> HIDE DEF to
  <1> QED BY <1>3, <1>4, CallStepKeepsInv

LEMMA FindKeepsInv ==
  ASSUME FunctionsInv, NEW c \in FunctionCalls, FindManifest(c)
  PROVE  FunctionsInv'
PROOF
  <1>1. functionCall[c] \in AnyCall /\ functionCall[c].step = "find" /\ functionCall[c].file = 0
    BY DEF FindManifest, FunctionsInv, FunctionsShape, CallsAreServed, Served
  <1>2. UNCHANGED moduleCache /\ FunctionFilesKept
    BY DEF FindManifest
  <1>3. CASE findFunctionsManifest = 0
    <2> DEFINE to == [functionCall[c] EXCEPT !.step = "loaded"]
    <2>1. CallIs(c, to)
      BY <1>3 DEF FindManifest
    <2>2. /\ to \in AnyCall /\ to.step = "loaded" /\ to.seen = functionCall[c].seen
          /\ to.file = 0
      BY <1>1 DEF AnyCall
    <2> HIDE DEF to
    <2> QED BY <1>1, <1>2, <2>1, <2>2, CallStepKeepsInv DEF CallUnderWay
  <1>4. CASE findFunctionsManifest # 0
    <2>1. PICK found \in 1..3 : found = findFunctionsManifest
      BY <1>4, FoundIsFile
    <2> DEFINE to == [functionCall[c] EXCEPT !.step = "stat", !.file = found]
    <2>2. CallIs(c, to)
      BY <1>4, <2>1 DEF FindManifest
    <2>3. /\ to \in AnyCall /\ to.step = "stat" /\ to.seen = functionCall[c].seen
          /\ to.file \in 1..3
      <3>1. found \in 0..3
        OBVIOUS
      <3> QED BY <1>1, <3>1 DEF AnyCall
    <2> HIDE DEF to
    <2> QED BY <1>1, <1>2, <2>2, <2>3, CallStepKeepsInv DEF CallUnderWay
  <1> QED BY <1>3, <1>4

(* The time that is read is that of a version which is there now.          *)
LEMMA StatKeepsInv ==
  ASSUME FunctionsInv, NEW c \in FunctionCalls, StatManifest(c)
  PROVE  FunctionsInv'
PROOF
  <1> DEFINE file == functionCall[c].file
             version == functionFiles[file].version
             mtime == functionFiles[file].mtime
  <1>1. functionCall[c] \in AnyCall /\ functionCall[c].step = "stat" /\ file \in 1..3
    BY DEF StatManifest, FunctionsInv, FunctionsShape, CallsAreServed, Served
  <1>2. UNCHANGED moduleCache /\ FunctionFilesKept
    BY DEF StatManifest
  <1>3. CASE ~Written(file)
    BY <1>2, <1>3, CallFailsKeepsInv DEF StatManifest
  <1>4. CASE Written(file)
    <2> DEFINE to == [functionCall[c] EXCEPT !.step = "import", !.mtime = mtime]
    <2>1. CallIs(c, to)
      BY <1>4 DEF StatManifest, versionOf
    <2>2. version \in Nat /\ mtime \in 0..MaxMtime
      BY <1>1 DEF FunctionsInv, FunctionsShape
    <2>3. /\ to \in AnyCall /\ to.step = "import" /\ to.seen = functionCall[c].seen
          /\ to.file = file /\ to.mtime = mtime
      BY <1>1, <2>2 DEF AnyCall
    <2>4. /\ <<file, version, mtime>> \in mtimesOf
          /\ <<file, version>> \in functionCall[c].seen
      BY <1>1, <1>4 DEF FunctionsInv, HistoryIsComplete, CallUnderWay
    <2>5. TimeIsUnique(file) /\ moduleCache[file][mtime] # NotLoaded
            => moduleCache[file][mtime] = version
      BY <1>1, <1>4 DEF FunctionsInv, CacheIsOfFile
    <2> HIDE DEF to, file, version, mtime
    <2> QED BY <1>1, <1>2, <2>1, <2>2, <2>3, <2>4, <2>5, CallStepKeepsInv DEF CallUnderWay, file
  <1> QED BY <1>3, <1>4

(* Another call may write the module under a time that this one has read:  *)
(* what is written is what is there, which both see.                       *)
LEMMA ImportKeepsInv ==
  ASSUME FunctionsInv, NEW c \in FunctionCalls, importFunctionsModule(c)
  PROVE  FunctionsInv'
PROOF
  <1> DEFINE file == functionCall[c].file
             mtime == functionCall[c].mtime
             cached == moduleCache[file][mtime]
             version == functionFiles[file].version
  <1>1. /\ functionCall[c] \in AnyCall /\ functionCall[c].step = "import"
        /\ file \in 1..3 /\ mtime \in 0..MaxMtime
    BY DEF importFunctionsModule, FunctionsInv, FunctionsShape, CallsAreServed, Served, AnyCall
  <1>2. cached \in Nat /\ version \in Nat
    BY <1>1 DEF FunctionsInv, FunctionsShape
  <1>3. FunctionFilesKept
    BY DEF importFunctionsModule
  <1>4. CASE /\ cached # NotLoaded /\ UNCHANGED moduleCache
             /\ CallIs(c, [functionCall[c] EXCEPT !.step = "loaded", !.module = cached])
    <2> DEFINE to == [functionCall[c] EXCEPT !.step = "loaded", !.module = cached]
    <2>1. /\ to \in AnyCall /\ to.step = "loaded" /\ to.seen = functionCall[c].seen
          /\ to.file = file /\ to.module = cached
      BY <1>1, <1>2 DEF AnyCall
    <2>2. TimeIsUnique(file) => <<file, cached>> \in functionCall[c].seen
      BY <1>1, <1>4 DEF FunctionsInv, CallsAreServed, Served
    <2>3. CallIs(c, to)
      BY <1>4
    <2> HIDE DEF to, cached
    <2> QED BY <1>1, <1>3, <1>4, <2>1, <2>2, <2>3, CallStepKeepsInv DEF CallUnderWay
  <1>5. CASE /\ Written(file)
             /\ CallIs(c, [functionCall[c] EXCEPT !.step = "loaded", !.module = version])
             /\ moduleCache' = [moduleCache EXCEPT ![file][mtime] = version]
    <2> DEFINE to == [functionCall[c] EXCEPT !.step = "loaded", !.module = version]
    <2>1. /\ to \in AnyCall /\ to.step = "loaded" /\ to.seen = functionCall[c].seen
          /\ to.file = file /\ to.module = version
      BY <1>1, <1>2 DEF AnyCall
    <2>2. /\ \A d \in FunctionCalls : functionCall'[d] = IF d = c THEN to ELSE functionCall[d]
          /\ UNCHANGED <<functionFiles, manifestEdits, mtimesOf>>
      BY <1>3, <1>5 DEF CallIs, FunctionFilesKept, FunctionsInv, FunctionsShape
    <2>3. \A e \in 1..3, t \in 0..MaxMtime :
            moduleCache'[e][t] = IF e = file /\ t = mtime THEN version ELSE moduleCache[e][t]
      BY <1>1, <1>5 DEF FunctionsInv, FunctionsShape
    <2>4. functionCall' = [functionCall EXCEPT ![c] = to]
      BY <1>5 DEF CallIs
    <2> HIDE DEF to
    <2>5. FunctionsShape'
      BY <1>1, <1>2, <1>5, <2>1, <2>2, <2>4 DEF FunctionsInv, FunctionsShape
    <2>6. (\A e \in 1..3 : Written(e)' = Written(e)) /\ (\A e : TimeIsUnique(e)' = TimeIsUnique(e))
      BY <2>2 DEF Written, TimeIsUnique
    <2>7. HistoryIsComplete'
      BY <1>1, <2>1, <2>2, <2>6 DEF FunctionsInv, HistoryIsComplete, CallUnderWay
    <2>8. CacheIsOfFile'
      <3>1. \E v \in Nat : <<file, v, mtime>> \in mtimesOf
        BY <1>1 DEF FunctionsInv, CallsAreServed, Served
      <3>2. \A e \in 1..3 : functionFiles[e].mtime \in 0..MaxMtime
        BY DEF FunctionsInv, FunctionsShape
      <3>3. ASSUME NEW e \in 1..3, NEW t \in 0..MaxMtime, moduleCache'[e][t] # NotLoaded
            PROVE  \E v \in Nat : <<e, v, t>> \in mtimesOf'
        BY <3>1, <3>3, <2>2, <2>3 DEF FunctionsInv, CacheIsOfFile
      <3>4. ASSUME NEW e \in 1..3, Written(e), TimeIsUnique(e),
                   moduleCache'[e][functionFiles[e].mtime] # NotLoaded
            PROVE  moduleCache'[e][functionFiles[e].mtime] = functionFiles[e].version
        BY <3>2, <3>4, <2>3 DEF FunctionsInv, CacheIsOfFile
      <3> QED BY <3>3, <3>4, <2>2, <2>6 DEF CacheIsOfFile
    <2>9. CallsAreServed'
      <3> SUFFICES ASSUME NEW d \in FunctionCalls PROVE Served(d)'
        BY DEF CallsAreServed
      <3>1. \A x \in FunctionCalls : functionCall[x].step \in CallUnderWay => <<file, version>> \in functionCall[x].seen
        BY <1>1, <1>5 DEF FunctionsInv, HistoryIsComplete
      <3>2. CASE d = c
        BY <3>1, <3>2, <1>1, <2>1, <2>2 DEF CallUnderWay, Served
      <3>3. CASE d # c
        <4>1. functionCall'[d] = functionCall[d] /\ functionCall[d].mtime \in 0..MaxMtime
          BY <3>3, <2>2 DEF FunctionsInv, FunctionsShape, AnyCall
        <4>2. /\ functionCall[d].step = "import" => functionCall[d].file \in 1..3
              /\ functionCall[d].step = "import" => <<file, version>> \in functionCall[d].seen
          BY <3>1 DEF FunctionsInv, CallsAreServed, Served, CallUnderWay
        <4>3. functionCall[d].step = "import" /\ TimeIsUnique(functionCall[d].file)
                 /\ moduleCache'[functionCall[d].file][functionCall[d].mtime] # NotLoaded
              => <<functionCall[d].file, moduleCache'[functionCall[d].file][functionCall[d].mtime]>>
                   \in functionCall[d].seen
          BY <4>1, <4>2, <2>3 DEF FunctionsInv, CallsAreServed, Served
        <4>4. TimeIsUnique(functionCall[d].file)' = TimeIsUnique(functionCall[d].file)
          BY <4>1, <2>2 DEF TimeIsUnique
        <4> QED BY <4>1, <4>3, <4>4, <2>2 DEF FunctionsInv, CallsAreServed, Served
      <3> QED BY <3>2, <3>3
    <2> QED BY <2>5, <2>7, <2>8, <2>9 DEF FunctionsInv
  <1>6. CASE CallFails(c) /\ UNCHANGED moduleCache
    BY <1>3, <1>6, CallFailsKeepsInv
  <1> QED BY <1>4, <1>5, <1>6 DEF importFunctionsModule

LEMMA ValidateKeepsInv ==
  ASSUME FunctionsInv, NEW c \in FunctionCalls, validateFunctionsManifest(c)
  PROVE  FunctionsInv'
PROOF
  <1>1. functionCall[c] \in AnyCall /\ functionCall[c].step = "loaded"
    BY DEF validateFunctionsManifest, FunctionsInv, FunctionsShape
  <1>2. UNCHANGED moduleCache /\ FunctionFilesKept
    BY DEF validateFunctionsManifest
  <1>3. CASE CallIs(c, [functionCall[c] EXCEPT !.step = "done"])
    <2> DEFINE to == [functionCall[c] EXCEPT !.step = "done"]
    <2>1. /\ to \in AnyCall /\ to.step = "done" /\ to.seen = functionCall[c].seen
          /\ to.file = functionCall[c].file /\ to.module = functionCall[c].module
      BY <1>1 DEF AnyCall
    <2>2. CallIs(c, to)
      BY <1>3
    <2>3. functionCall[c].file # 0 /\ TimeIsUnique(functionCall[c].file)
            => <<functionCall[c].file, functionCall[c].module>> \in functionCall[c].seen
      BY <1>1 DEF FunctionsInv, CallsAreServed, Served
    <2> HIDE DEF to
    <2> QED BY <1>2, <2>1, <2>2, <2>3, CallStepKeepsInv DEF CallUnderWay
  <1>4. CASE CallFails(c)
    BY <1>2, <1>4, CallFailsKeepsInv
  <1> QED BY <1>3, <1>4 DEF validateFunctionsManifest

----------------------------------------------------------------------------
(* A version that is written is a new one, which calls under way have seen *)
(* from then on; nothing is cached under its time, or the time is not its  *)
(* own.                                                                    *)
LEMMA WriteKeepsInv ==
  ASSUME FunctionsInv, NEW e \in 1..3, WriteFunctions(e)
  PROVE  FunctionsInv'
PROOF
  <1> DEFINE version == manifestEdits + 1
  <1>1. PICK mtime \in 1..MaxMtime :
          /\ functionFiles' = [functionFiles EXCEPT ![e] = [version |-> manifestEdits', mtime |-> mtime]]
          /\ mtimesOf' = mtimesOf \cup {<<e, manifestEdits', mtime>>}
    BY DEF WriteFunctions
  <1>2. /\ manifestEdits' = version /\ version \in Nat /\ version # 0 /\ manifestEdits \in Nat
        /\ functionCall' = SeenByCalls /\ UNCHANGED moduleCache
    BY DEF WriteFunctions, FunctionEdit, FunctionsInv, FunctionsShape
  <1>3. \A x \in 1..3 : functionFiles'[x] = IF x = e THEN [version |-> version, mtime |-> mtime]
                                            ELSE functionFiles[x]
    BY <1>1, <1>2 DEF FunctionsInv, FunctionsShape
  <1>4. functionFiles' \in [1..3 -> [version : Nat, mtime : 0..MaxMtime]]
    <2>1. [version |-> version, mtime |-> mtime] \in [version : Nat, mtime : 0..MaxMtime]
      BY <1>2, FunctionsConstants
    <2> QED BY <1>1, <1>2, <2>1 DEF FunctionsInv, FunctionsShape
  <1> DEFINE now == {<<x, functionFiles'[x].version>> : x \in {y \in 1..3 : functionFiles'[y].version # 0}}
  <1>5. now \subseteq (1..3) \X Nat
    BY <1>4
  <1>6. \A c \in FunctionCalls :
          /\ functionCall'[c].step = functionCall[c].step
          /\ functionCall'[c].file = functionCall[c].file
          /\ functionCall'[c].mtime = functionCall[c].mtime
          /\ functionCall'[c].module = functionCall[c].module
          /\ functionCall[c].seen \subseteq functionCall'[c].seen
          /\ functionCall[c].step \in CallUnderWay => now \subseteq functionCall'[c].seen
          /\ functionCall'[c] \in AnyCall
    <2> SUFFICES ASSUME NEW c \in FunctionCalls
          PROVE /\ functionCall'[c].step = functionCall[c].step
                /\ functionCall'[c].file = functionCall[c].file
                /\ functionCall'[c].mtime = functionCall[c].mtime
                /\ functionCall'[c].module = functionCall[c].module
                /\ functionCall[c].seen \subseteq functionCall'[c].seen
                /\ functionCall[c].step \in CallUnderWay => now \subseteq functionCall'[c].seen
                /\ functionCall'[c] \in AnyCall
      OBVIOUS
    <2>1. functionCall[c] \in AnyCall
      BY DEF FunctionsInv, FunctionsShape
    <2>2. functionCall'[c] = IF functionCall[c].step \in {"idle", "done", "failed"} THEN functionCall[c]
                             ELSE [functionCall[c] EXCEPT !.seen = @ \cup now]
      BY <1>2 DEF SeenByCalls
    <2> HIDE DEF now
    <2>3. CASE functionCall[c].step \in {"idle", "done", "failed"}
      BY <2>1, <2>2, <2>3 DEF CallUnderWay
    <2>4. CASE functionCall[c].step \notin {"idle", "done", "failed"}
      <3>1. functionCall'[c] = [functionCall[c] EXCEPT !.seen = @ \cup now]
        BY <2>2, <2>4
      <3>2. functionCall[c].seen \cup now \in SUBSET ((1..3) \X Nat)
        BY <2>1, <1>5 DEF AnyCall
      <3> QED BY <3>1, <3>2, <2>1 DEF AnyCall
    <2> QED BY <2>3, <2>4
  <1>7. FunctionsShape'
    BY <1>2, <1>4, <1>6 DEF FunctionsInv, FunctionsShape, SeenByCalls
  <1>8. \A x \in 1..3 : Written(x)' => <<x, functionFiles'[x].version>> \in now
    BY DEF Written
  <1>9. \A x : TimeIsUnique(x)' => TimeIsUnique(x)
    BY <1>1 DEF TimeIsUnique
  <1>10. \A x \in 1..3 : \A v, t : <<x, v, t>> \in mtimesOf'
           <=> <<x, v, t>> \in mtimesOf \/ (x = e /\ v = version /\ t = mtime)
    BY <1>1, <1>2
  <1> HIDE DEF now, version
  <1>11. HistoryIsComplete'
    <2>1. \A x \in 1..3 : Written(x)' =>
            <<x, functionFiles'[x].version, functionFiles'[x].mtime>> \in mtimesOf'
      BY <1>3, <1>10 DEF Written, FunctionsInv, HistoryIsComplete
    <2>2. \A x \in 1..3 : \A v, t : <<x, v, t>> \in mtimesOf' => v \in Nat /\ v <= manifestEdits'
      BY <1>2, <1>10 DEF version, FunctionsInv, HistoryIsComplete
    <2>3. \A x \in 1..3, c \in FunctionCalls : Written(x)' /\ functionCall'[c].step \in CallUnderWay
            => <<x, functionFiles'[x].version>> \in functionCall'[c].seen
      BY <1>6, <1>8
    <2> QED BY <2>1, <2>2, <2>3 DEF HistoryIsComplete
  <1>12. CacheIsOfFile'
    <2>1. \A x \in 1..3, t \in 0..MaxMtime :
            moduleCache'[x][t] # NotLoaded => \E v \in Nat : <<x, v, t>> \in mtimesOf'
      BY <1>2, <1>10 DEF FunctionsInv, CacheIsOfFile
    <2>2. ASSUME NEW x \in 1..3, Written(x)', TimeIsUnique(x)',
                 moduleCache'[x][functionFiles'[x].mtime] # NotLoaded
          PROVE  moduleCache'[x][functionFiles'[x].mtime] = functionFiles'[x].version
      <3>1. CASE x = e
        <4>1. functionFiles'[x].mtime = mtime /\ mtime \in 0..MaxMtime
          BY <3>1, <1>3
        <4>2. PICK v \in Nat : <<e, v, mtime>> \in mtimesOf
          BY <3>1, <4>1, <2>2, <1>2 DEF FunctionsInv, CacheIsOfFile
        <4>3. v <= manifestEdits
          BY <4>2 DEF FunctionsInv, HistoryIsComplete
        <4>4. <<e, v, mtime>> \in mtimesOf' /\ <<e, version, mtime>> \in mtimesOf'
          BY <4>2, <1>10
        <4>5. <<e, v, mtime>> = <<e, version, mtime>>
          BY <4>4, <3>1, <2>2 DEF TimeIsUnique
        <4> QED BY <4>3, <4>5, <1>2 DEF version
      <3>2. CASE x # e
        BY <3>2, <2>2, <1>2, <1>3, <1>9 DEF Written, FunctionsInv, CacheIsOfFile
      <3> QED BY <3>1, <3>2
    <2> QED BY <2>1, <2>2 DEF CacheIsOfFile
  <1>13. CallsAreServed'
    <2> SUFFICES ASSUME NEW c \in FunctionCalls PROVE Served(c)'
    BY DEF CallsAreServed
    <2>1. /\ functionCall'[c].step = functionCall[c].step
          /\ functionCall'[c].file = functionCall[c].file
          /\ functionCall'[c].mtime = functionCall[c].mtime
          /\ functionCall'[c].module = functionCall[c].module
          /\ functionCall[c].seen \subseteq functionCall'[c].seen
      BY <1>6
    <2>2. mtimesOf \subseteq mtimesOf'
      BY <1>1
    <2>3. TimeIsUnique(functionCall[c].file)' => TimeIsUnique(functionCall[c].file)
      BY <2>1, <2>2 DEF TimeIsUnique
    <2> QED BY <2>1, <2>2, <2>3, <1>2 DEF FunctionsInv, CallsAreServed, Served
  <1> QED BY <1>7, <1>11, <1>12, <1>13 DEF FunctionsInv

LEMMA RemoveKeepsInv ==
  ASSUME FunctionsInv, NEW e \in 1..3, RemoveFunctions(e)
  PROVE  FunctionsInv'
PROOF
  <1>1. /\ functionFiles' = [functionFiles EXCEPT ![e] = NoManifest]
        /\ UNCHANGED <<moduleCache, functionCall, manifestEdits, mtimesOf>>
    BY DEF RemoveFunctions
  <1>2. FunctionsShape'
    <2>1. NoManifest \in [version : Nat, mtime : 0..MaxMtime]
      BY FunctionsConstants DEF NoManifest
    <2> QED BY <1>1, <2>1 DEF FunctionsInv, FunctionsShape
  <1>3. \A x \in 1..3 : Written(x)' => functionFiles'[x] = functionFiles[x] /\ Written(x)
    BY <1>1 DEF Written, NoManifest, FunctionsInv, FunctionsShape
  <1>4. \A x : TimeIsUnique(x)' = TimeIsUnique(x)
    BY <1>1 DEF TimeIsUnique
  <1>5. HistoryIsComplete'
    BY <1>1, <1>3 DEF FunctionsInv, HistoryIsComplete
  <1>6. CacheIsOfFile'
    BY <1>1, <1>3, <1>4 DEF FunctionsInv, CacheIsOfFile
  <1>7. CallsAreServed'
    BY <1>1, <1>4 DEF FunctionsInv, CallsAreServed, Served
  <1> QED BY <1>2, <1>5, <1>6, <1>7 DEF FunctionsInv

LEMMA FunctionsInvariance == FunctionsSpec => []FunctionsInv
PROOF
  <1>1. FunctionsInit => FunctionsInv
    BY FunctionsConstants DEF FunctionsInit, FunctionsInv, FunctionsShape, HistoryIsComplete, CacheIsOfFile,
       CallsAreServed, Served, AnyCall, IdleCall, NoManifest, NotLoaded, Written, CallUnderWay
  <1>2. FunctionsInv /\ [FunctionsNext]_functionsVars => FunctionsInv'
    <2> SUFFICES ASSUME FunctionsInv, [FunctionsNext]_functionsVars PROVE FunctionsInv'
      OBVIOUS
    <2>1. ASSUME NEW c \in FunctionCalls,
                 \/ AskFunctions(c) \/ FindManifest(c) \/ StatManifest(c) \/ importFunctionsModule(c)
                 \/ validateFunctionsManifest(c)
          PROVE  FunctionsInv'
      BY <2>1, AskKeepsInv, FindKeepsInv, StatKeepsInv, ImportKeepsInv, ValidateKeepsInv
    <2>2. ASSUME NEW e \in FunctionFiles, WriteFunctions(e) \/ RemoveFunctions(e) PROVE FunctionsInv'
      BY <2>2, FunctionsConstants, WriteKeepsInv, RemoveKeepsInv
    <2>3. CASE UNCHANGED functionsVars
      BY <2>3 DEF functionsVars, FunctionsInv, FunctionsShape, HistoryIsComplete, CacheIsOfFile,
         CallsAreServed, Served, Written, TimeIsUnique
    <2> QED BY <2>1, <2>2, <2>3 DEF FunctionsNext
  <1> QED BY <1>1, <1>2, PTL DEF FunctionsSpec

(* A call runs a manifest that was there during the call, unless two       *)
(* versions of it had the same time.                                       *)
THEOREM CallsRunTheirManifest == FunctionsSpec => []CallsRunTheCurrentManifest
PROOF
  <1>1. FunctionsInv => CallsRunTheCurrentManifest
    BY DEF FunctionsInv, CallsAreServed, Served, CallsRunTheCurrentManifest
  <1> QED BY <1>1, FunctionsInvariance, PTL

-----------------------------------------------------------------------------
(***************************************************************************)
(* Runs of tasks, for any finite number of them that write their records   *)
(* and the summary at once.                                                *)
(***************************************************************************)
(* A record lies at the path of its run, whatever it tells of it: so there *)
(* is at most one of every run.                                            *)
PathOf(x) == IF x.task \in LatestTasks THEN x.task ELSE x.run
Placed ==
  \A p \in RunPaths : runFile[p] \in Record =>
    p = PathOf(runFile[p]) /\ taskRun[runFile[p].run].task = runFile[p].task

TaskShape ==
  /\ taskRun \in [TaskRuns -> TaskRunState]
  /\ runFile \in [RunPaths -> Record \cup {NoRecord, TornRecord}]
  /\ taskNow \in 0 .. TaskClock /\ healthRaced \in BOOLEAN
  /\ Placed

Summed(health) == health \in HealthSummary /\ health.failing = FailingTasks(readRuns)
BeforeSummary(r) == taskRun[r].pc \in {"fill", "read", "health", "fillHealth"}

TaskInv ==
  /\ TaskShape
  /\ \/ healthRaced
     \/ /\ \A r \in TaskRuns :
             /\ taskRun[r].pc = "read" => runFile[RunPath(r)] = runRecord(r)
             /\ taskRun[r].pc \in {"health", "fillHealth"} => Summed(taskRun[r].health)
        /\ \/ healthFile = NoRecord \/ Summed(healthFile)
           \/ \E r \in TaskRuns : BeforeSummary(r)

LEMMA RecordsOf ==
  ASSUME TaskShape
  PROVE  /\ readRuns \subseteq Record
         /\ \A x, y \in readRuns : x.run = y.run => x = y
         /\ \A x \in readRuns : x.run \in TaskRuns /\ runFile[RunPath(x.run)] = x
         /\ \A r \in TaskRuns : RunPath(r) \in RunPaths /\ runRecord(r) \in Record /\ runRecord(r).run = r
  <1>1. \A r \in TaskRuns : RunPath(r) \in RunPaths /\ runRecord(r) \in Record /\ runRecord(r).run = r
    BY TaskConstants DEF TaskShape, RunPath, RunPaths, runRecord, Record, TaskRunState, RunStatuses
  <1>2. ASSUME NEW x \in readRuns
        PROVE  x \in Record /\ x.run \in TaskRuns /\ runFile[RunPath(x.run)] = x
    <2>1. PICK p \in RunPaths : x = runFile[p] /\ x \in Record
      BY DEF readRuns, TaskShape
    <2>2. p = PathOf(x) /\ taskRun[x.run].task = x.task
      BY <2>1 DEF TaskShape, Placed
    <2> QED BY <2>1, <2>2 DEF RunPath, PathOf, Record
  <1> QED BY <1>1, <1>2

(* No task has failed more often than it was run.                          *)
LEMMA FailuresAreBounded ==
  ASSUME NEW records, records \subseteq Record,
         \A x, y \in records : x.run = y.run => x = y
  PROVE  FailingTasks(records) \in [Tasks -> 0 .. Cardinality(TaskRuns)]
  <1> SUFFICES ASSUME NEW t \in Tasks
               PROVE  consecutiveFailures(t, records) \in 0 .. Cardinality(TaskRuns)
    BY DEF FailingTasks
  <1>1. PICK S \in SUBSET records : consecutiveFailures(t, records) = Cardinality(S)
    BY DEF consecutiveFailures
  <1> DEFINE run == [x \in S |-> x.run]
  <1>2. run \in Injection(S, TaskRuns)
    BY DEF Injection, IsInjective, Record
  <1>3. IsFiniteSet(S) /\ Cardinality(S) <= Cardinality(TaskRuns)
    BY <1>2, TaskConstants, FS_Injection
  <1>4. Cardinality(S) \in Nat /\ Cardinality(TaskRuns) \in Nat
    BY <1>3, TaskConstants, FS_CardinalityType
  <1> QED BY <1>1, <1>3, <1>4

(* The summary of a run rests on the records on disk, and on its own.      *)
LEMMA SummaryOf ==
  ASSUME TaskShape, NEW r \in TaskRuns
  PROVE  LET records == {x \in readRuns : x.run # r} \cup {runRecord(r)}
         IN /\ FailingTasks(records) \in [Tasks -> 0 .. Cardinality(TaskRuns)]
            /\ runFile[RunPath(r)] = runRecord(r) => records = readRuns
  <1> DEFINE records == {x \in readRuns : x.run # r} \cup {runRecord(r)}
  <1>1. records \subseteq Record /\ \A x, y \in records : x.run = y.run => x = y
    BY RecordsOf
  <1>2. ASSUME runFile[RunPath(r)] = runRecord(r)
        PROVE  records = readRuns
    <2>1. runRecord(r) \in readRuns
      BY <1>2, RecordsOf, NoneIsARecord DEF readRuns
    <2> QED BY <2>1, RecordsOf
  <1> QED BY <1>1, <1>2, FailuresAreBounded

LEMMA TasksStart == TaskInit => TaskInv
  <1> SUFFICES ASSUME TaskInit PROVE TaskInv
    OBVIOUS
  <1>1. \A r \in TaskRuns : NoFailures(r) \in HealthSummary
    BY TaskConstants, FS_CardinalityType DEF NoFailures, HealthSummary
  <1>2. \A r \in TaskRuns : taskRun[r] \in TaskRunState /\ taskRun[r].pc = "new"
    BY <1>1, TaskConstants DEF TaskInit, TaskRunState, RunStatuses
  <1>3. taskRun \in [TaskRuns -> TaskRunState]
    BY <1>2 DEF TaskInit
  <1>4. Placed /\ runFile \in [RunPaths -> Record \cup {NoRecord, TornRecord}]
    BY NoneIsARecord DEF TaskInit, Placed
  <1>5. TaskShape
    <2>1. taskNow = 0 /\ 0 \in 0 .. TaskClock
      BY TaskConstants DEF TaskInit
    <2>2. healthRaced \in BOOLEAN
      BY Zenon DEF TaskInit
    <2> QED BY <1>3, <1>4, <2>1, <2>2 DEF TaskShape
  <1>6. healthFile = NoRecord
    BY DEF TaskInit
  <1> QED BY <1>2, <1>5, <1>6 DEF TaskInv

LEMMA RunStep ==
  ASSUME TaskShape, NEW r \in TaskRuns, NEW from, NEW to, TaskStep(r, from, to),
         to \in TaskRunState, to.task = taskRun[r].task
  PROVE  /\ taskRun' \in [TaskRuns -> TaskRunState] /\ taskRun'[r] = to /\ taskRun[r].pc = from
         /\ \A q \in TaskRuns \ {r} : taskRun'[q] = taskRun[q]
         /\ \A q \in TaskRuns : taskRun'[q].task = taskRun[q].task /\ RunPath(q)' = RunPath(q)
         /\ \A q \in TaskRuns \ {r} : runRecord(q)' = runRecord(q)
         /\ taskNow' = taskNow
  BY DEF TaskShape, TaskStep, RunPath, runRecord

(* Steps that write no record.                                             *)
LEMMA QuietShape ==
  ASSUME TaskShape, NEW r \in TaskRuns, NEW from, NEW to, TaskStep(r, from, to),
         to \in TaskRunState, to.task = taskRun[r].task, UNCHANGED runFile, healthRaced' \in BOOLEAN
  PROVE  TaskShape' /\ readRuns' = readRuns
  <1>1. Placed'
    <2> SUFFICES ASSUME NEW p \in RunPaths, runFile[p] \in Record
                 PROVE  p = PathOf(runFile[p]) /\ taskRun'[runFile[p].run].task = runFile[p].task
      BY DEF Placed
    <2> QED BY RunStep DEF TaskShape, Placed, Record
  <1> QED BY <1>1, RunStep DEF TaskShape, readRuns

LEMMA QuietKeeps ==
  ASSUME TaskInv, NEW r \in TaskRuns, NEW from, NEW to, TaskStep(r, from, to),
         to \in TaskRunState, to.task = taskRun[r].task, UNCHANGED <<runFile, healthRaced>>,
         \/ from \in {"new", "execute"} /\ to.pc \in {"execute", "record"} /\ UNCHANGED healthFile
         \/ from = "read" /\ to.pc = "health" /\ UNCHANGED healthFile
            /\ (runFile[RunPath(r)] = runRecord(r) => Summed(to.health))
         \/ from = "health" /\ to.pc = "fillHealth" /\ to.health = taskRun[r].health
         \/ from = "fillHealth" /\ to.pc = "done" /\ healthFile' = taskRun[r].health
  PROVE  TaskInv'
  <1>1. TaskShape /\ TaskShape' /\ readRuns' = readRuns
    BY QuietShape DEF TaskInv, TaskShape
  <1>2. CASE healthRaced
    BY <1>1, <1>2 DEF TaskInv
  <1>3. CASE ~healthRaced
    <2>1. /\ taskRun'[r] = to /\ taskRun[r].pc = from
          /\ \A q \in TaskRuns \ {r} : taskRun'[q] = taskRun[q]
          /\ \A q \in TaskRuns : RunPath(q)' = RunPath(q)
          /\ \A q \in TaskRuns \ {r} : runRecord(q)' = runRecord(q)
      BY <1>1, RunStep
    <2>2. /\ \A q \in TaskRuns :
               /\ taskRun[q].pc = "read" => runFile[RunPath(q)] = runRecord(q)
               /\ taskRun[q].pc \in {"health", "fillHealth"} => Summed(taskRun[q].health)
          /\ healthFile = NoRecord \/ Summed(healthFile) \/ \E q \in TaskRuns : BeforeSummary(q)
      BY <1>3 DEF TaskInv
    <2>3. /\ to.pc # "read"
          /\ to.pc \in {"health", "fillHealth"} => Summed(to.health)
          /\ from = "fillHealth" => Summed(healthFile')
      BY <2>1, <2>2
    <2>4. ASSUME NEW q \in TaskRuns
          PROVE  /\ taskRun'[q].pc = "read" => runFile'[RunPath(q)'] = runRecord(q)'
                 /\ taskRun'[q].pc \in {"health", "fillHealth"} => Summed(taskRun[q].health)'
      <3>1. CASE q = r
        BY <1>1, <2>1, <2>3, <3>1 DEF Summed
      <3>2. CASE q # r
        BY <1>1, <2>1, <2>2, <3>2 DEF Summed
      <3> QED BY <3>1, <3>2
    <2>5. (healthFile = NoRecord)' \/ Summed(healthFile)' \/ (\E q \in TaskRuns : BeforeSummary(q))'
      <3>1. CASE \E q \in TaskRuns \ {r} : BeforeSummary(q)
        BY <2>1, <3>1 DEF BeforeSummary
      <3>2. CASE to.pc \in {"health", "fillHealth"}
        BY <2>1, <3>2 DEF BeforeSummary
      <3>3. CASE from = "fillHealth"
        BY <1>1, <2>3, <3>3 DEF Summed
      <3>4. CASE from \in {"new", "execute"} /\ UNCHANGED healthFile /\ ~\E q \in TaskRuns \ {r} : BeforeSummary(q)
        BY <1>1, <2>1, <2>2, <3>4 DEF BeforeSummary, Summed
      <3> QED BY <3>1, <3>2, <3>3, <3>4
    <2> QED BY <1>1, <2>4, <2>5 DEF TaskInv
  <1> QED BY <1>2, <1>3 DEF TaskInv, TaskShape

(* A record is written, torn or whole: nobody who counts it wrongly writes *)
(* a summary.                                                              *)
LEMMA WriteKeeps ==
  ASSUME TaskInv, NEW r \in TaskRuns, NEW from, NEW pc, NEW file,
         \/ from = "record" /\ pc = "fill" /\ file = TornRecord
         \/ from = "fill" /\ pc = "read" /\ file = runRecord(r),
         TaskStep(r, from, [taskRun[r] EXCEPT !.pc = pc]),
         runFile' = [runFile EXCEPT ![RunPath(r)] = file],
         healthRaced' = (healthRaced \/ Races(r)), UNCHANGED healthFile
  PROVE  TaskInv'
  <1>1. PICK to : to = [taskRun[r] EXCEPT !.pc = pc] /\ TaskStep(r, from, to)
    OBVIOUS
  <1>2. TaskShape /\ taskRun[r] \in TaskRunState
    BY DEF TaskInv, TaskShape
  <1>3. /\ to \in TaskRunState /\ to.task = taskRun[r].task /\ to.status = taskRun[r].status
        /\ to.startedAt = taskRun[r].startedAt /\ to.pc = pc
    BY <1>1, <1>2 DEF TaskRunState
  <1>4. /\ taskRun' \in [TaskRuns -> TaskRunState] /\ taskRun'[r] = to /\ taskRun[r].pc = from
        /\ \A q \in TaskRuns \ {r} : taskRun'[q] = taskRun[q]
        /\ \A q \in TaskRuns : taskRun'[q].task = taskRun[q].task /\ RunPath(q)' = RunPath(q)
        /\ \A q \in TaskRuns \ {r} : runRecord(q)' = runRecord(q)
        /\ taskNow' = taskNow
    BY <1>1, <1>2, <1>3 DEF TaskShape, TaskStep, RunPath, runRecord
  <1>5. /\ RunPath(r) \in RunPaths /\ file \in Record \cup {TornRecord} /\ runRecord(r) \in Record
        /\ runRecord(r)' = runRecord(r)
    BY <1>1, <1>2, <1>3, <1>4, RecordsOf DEF runRecord
  <1>6. /\ runFile' \in [RunPaths -> Record \cup {NoRecord, TornRecord}] /\ runFile'[RunPath(r)] = file
        /\ \A p \in RunPaths \ {RunPath(r)} : runFile'[p] = runFile[p]
    BY <1>1, <1>2, <1>5 DEF TaskShape
  <1>7. Placed'
    <2> SUFFICES ASSUME NEW p \in RunPaths, runFile'[p] \in Record
                 PROVE  p = PathOf(runFile'[p]) /\ taskRun'[runFile'[p].run].task = runFile'[p].task
      BY DEF Placed
    <2>1. CASE p = RunPath(r)
      <3>1. runFile'[p] = runRecord(r)
        BY <1>1, <1>6, <2>1, NoneIsARecord
      <3> QED BY <1>4, <2>1, <3>1 DEF runRecord, RunPath, PathOf
    <2>2. CASE p # RunPath(r)
      BY <1>2, <1>4, <1>6, <2>2 DEF TaskShape, Placed, Record
    <2> QED BY <2>1, <2>2
  <1>8. TaskShape'
    BY <1>1, <1>2, <1>4, <1>6, <1>7 DEF TaskShape
  <1>9. CASE healthRaced'
    BY <1>8, <1>9 DEF TaskInv
  <1>10. CASE ~healthRaced'
    <2>1. ~healthRaced /\ ~Races(r)
      BY <1>1, <1>10
    <2>2. ASSUME NEW q \in TaskRuns
          PROVE  /\ taskRun'[q].pc = "read" => runFile'[RunPath(q)'] = runRecord(q)'
                 /\ taskRun'[q].pc \notin {"health", "fillHealth"}
      <3>1. CASE q = r
        BY <1>1, <1>3, <1>4, <1>5, <1>6, <3>1
      <3>2. CASE q # r
        <4>1. /\ taskRun[q].pc = "read" => runFile[RunPath(q)] = runRecord(q)
              /\ taskRun[q].pc \notin {"health", "fillHealth"}
              /\ taskRun[q].pc = "read" => RunPath(q) # RunPath(r)
          BY <2>1, <3>2 DEF TaskInv, Races
        <4>2. RunPath(q) \in RunPaths
          BY <1>2, RecordsOf
        <4> QED BY <1>4, <1>6, <3>2, <4>1, <4>2
      <3> QED BY <3>1, <3>2
    <2>3. BeforeSummary(r)'
      BY <1>3, <1>4 DEF BeforeSummary
    <2> QED BY <1>8, <2>2, <2>3 DEF TaskInv
  <1> QED BY <1>9, <1>10

LEMMA TasksStep == TaskInv /\ [TaskNext]_taskVars => TaskInv'
  <1> SUFFICES ASSUME TaskInv, [TaskNext]_taskVars PROVE TaskInv'
    OBVIOUS
  <1>s. TaskShape /\ \A r \in TaskRuns : taskRun[r] \in TaskRunState
    BY DEF TaskInv, TaskShape
  <1>1. ASSUME NEW r \in TaskRuns, StartTask(r) PROVE TaskInv'
    <2>1. PICK to : to = [taskRun[r] EXCEPT !.pc = "execute", !.startedAt = taskNow]
      OBVIOUS
    <2>2. to \in TaskRunState /\ to.task = taskRun[r].task /\ to.pc = "execute"
      BY <1>s, <2>1 DEF TaskShape, TaskRunState
    <2> QED BY <1>1, <2>1, <2>2, QuietKeeps DEF StartTask
  <1>2. ASSUME NEW r \in TaskRuns, ExecuteTask(r) PROVE TaskInv'
    <2>1. PICK status \in RunStatuses :
            TaskStep(r, "execute", [taskRun[r] EXCEPT !.pc = "record", !.status = status])
      BY <1>2 DEF ExecuteTask, RunStatuses
    <2>2. PICK to : to = [taskRun[r] EXCEPT !.pc = "record", !.status = status]
      OBVIOUS
    <2>3. to \in TaskRunState /\ to.task = taskRun[r].task /\ to.pc = "record"
      BY <1>s, <2>2 DEF TaskRunState, RunStatuses
    <2> QED BY <1>2, <2>1, <2>2, <2>3, QuietKeeps DEF ExecuteTask
  <1>3. ASSUME NEW r \in TaskRuns, ReadRecords(r) PROVE TaskInv'
    <2>1. PICK records : records = {x \in readRuns : x.run # r} \cup {runRecord(r)}
      OBVIOUS
    <2>2. PICK health : health = [latest |-> r, failing |-> FailingTasks(records)]
      OBVIOUS
    <2>3. PICK to : to = [taskRun[r] EXCEPT !.pc = "health", !.health = health]
      OBVIOUS
    <2>4. health \in HealthSummary /\ (runFile[RunPath(r)] = runRecord(r) => Summed(health))
      BY <1>s, <2>1, <2>2, SummaryOf DEF HealthSummary, Summed
    <2>5. to \in TaskRunState /\ to.task = taskRun[r].task /\ to.pc = "health" /\ to.health = health
      BY <1>s, <2>3, <2>4 DEF TaskRunState
    <2>6. TaskStep(r, "read", to) /\ UNCHANGED <<runFile, healthFile, healthRaced>>
      BY <1>3, <2>1, <2>2, <2>3 DEF ReadRecords
    <2> QED BY <2>4, <2>5, <2>6, QuietKeeps
  <1>4. ASSUME NEW r \in TaskRuns, OpenHealth(r) PROVE TaskInv'
    <2>1. PICK to : to = [taskRun[r] EXCEPT !.pc = "fillHealth"]
      OBVIOUS
    <2>2. to \in TaskRunState /\ to.task = taskRun[r].task /\ to.pc = "fillHealth" /\ to.health = taskRun[r].health
      BY <1>s, <2>1 DEF TaskRunState
    <2> QED BY <1>4, <2>1, <2>2, QuietKeeps DEF OpenHealth
  <1>5. ASSUME NEW r \in TaskRuns, FillHealth(r) PROVE TaskInv'
    <2>1. PICK to : to = [taskRun[r] EXCEPT !.pc = "done", !.health = NoFailures(r)]
      OBVIOUS
    <2>2. NoFailures(r) \in HealthSummary
      BY TaskConstants, FS_CardinalityType DEF NoFailures, HealthSummary
    <2>3. to \in TaskRunState /\ to.task = taskRun[r].task /\ to.pc = "done"
      BY <1>s, <2>1, <2>2 DEF TaskRunState
    <2> QED BY <1>5, <2>1, <2>3, QuietKeeps DEF FillHealth
  <1>6. ASSUME NEW r \in TaskRuns, PersistFails(r) PROVE TaskInv'
    <2>1. PICK to, from : /\ TaskStep(r, from, to)
                          /\ \/ to = [taskRun[r] EXCEPT !.pc = "record", !.status = "failed"]
                             \/ to = [taskRun[r] EXCEPT !.pc = "done"]
      BY <1>6 DEF PersistFails
    <2>2. to \in TaskRunState /\ to.task = taskRun[r].task
      BY <1>s, <2>1 DEF TaskRunState, RunStatuses
    <2>3. TaskShape'
      BY <1>6, <1>s, <2>1, <2>2, QuietShape DEF PersistFails
    <2> QED BY <1>6, <2>3 DEF PersistFails, TaskInv
  <1>7. CASE TaskTimePasses \/ UNCHANGED taskVars
    <2>1. UNCHANGED <<taskRun, runFile, healthFile, healthRaced>> /\ taskNow' \in 0 .. TaskClock
      BY <1>s, <1>7, TaskConstants DEF TaskTimePasses, taskVars, TaskShape
    <2>2. TaskShape' /\ readRuns' = readRuns
      BY <1>s, <2>1 DEF TaskShape, Placed, readRuns
    <2> QED BY <2>1, <2>2 DEF TaskInv, Summed, BeforeSummary, RunPath, runRecord
  <1>8. ASSUME NEW r \in TaskRuns, OpenRecord(r) \/ FillRecord(r) PROVE TaskInv'
    BY <1>8, WriteKeeps DEF OpenRecord, FillRecord
  <1> QED BY <1>1, <1>2, <1>3, <1>4, <1>5, <1>6, <1>7, <1>8 DEF TaskNext

(* When every run has ended, the summary on disk tells the failures that   *)
(* the records tell (writeHealth), for every run reads what all have       *)
(* written: only runs that wrote it at the same time, or a write that      *)
(* failed, let it be stale.                                                *)
THEOREM HealthMatchesRecords == TaskSpec => []QuietHealthMatchesRecords
  <1>1. TaskInv => QuietHealthMatchesRecords
    BY DEF TaskInv, QuietHealthMatchesRecords, Summed, BeforeSummary
  <1> QED BY <1>1, TasksStart, TasksStep, PTL DEF TaskSpec

-----------------------------------------------------------------------------
(***************************************************************************)
(* Requests, for any options given oddly and any number of retries.        *)
(***************************************************************************)
(* The options that a target may have.                                     *)
Targeted == TurnTarget \cup WorkflowTarget

(* What is taken of an option, and the options that are taken.             *)
TakenAs(entry, option, value) == ValueOf(KindOf(entry, option), value)
Taken(r) == {o \in Targeted \cap DOMAIN r.given : TakenAs(r.entry, o, r.given[o]) # "absent"}

LEMMA Parsed ==
  ASSUME NEW entry, NEW given
  PROVE  parse(entry, given) =
           [o \in {x \in DOMAIN given : TakenAs(entry, x, given[x]) # "absent"} |->
              TakenAs(entry, o, given[o])]
  BY DEF parse, compactUndefined, Restrict, TakenAs

(* What was taken of an option is taken again as it is, whether the turn   *)
(* of a prompt or of a handoff has become that of a dispatch or not.       *)
LEMMA TakenAgain ==
  ASSUME NEW entry \in Entries, NEW to \in {KindOfTarget(entry), entry, "prompt"},
         to = "prompt" => entry # "workflow",
         NEW o \in Targeted, NEW value, TakenAs(entry, o, value) \notin {"absent", "refused"}
  PROVE  TakenAs(to, o, TakenAs(entry, o, value)) = TakenAs(entry, o, value)
  <1> DEFINE Manners == {"required", "string", "word", "date", "list", "record", "any"}
  <1>1. KindOf(to, o) = KindOf(entry, o)
    BY DEF KindOf, KindOfTarget, Entries
  <1>2. KindOf(entry, o) \in Manners
    BY DEF KindOf
  <1>3. ASSUME NEW kind \in Manners, ValueOf(kind, value) \notin {"absent", "refused"}
        PROVE  ValueOf(kind, ValueOf(kind, value)) = ValueOf(kind, value)
    BY <1>3 DEF ValueOf, requiredString, optionalString, enumValue, runAtValue, stringArray, recordOrUndefined
  <1> QED BY <1>1, <1>2, <1>3 DEF TakenAs

(* A target, as it was taken from what was asked, and whether it can be    *)
(* read again.                                                             *)
TargetOf(r) == [o \in Taken(r) |-> TakenAs(r.entry, o, r.given[o])]
Legible(r) ==
  /\ \A o \in Taken(r) : TakenAs(r.entry, o, r.given[o]) # "refused"
  /\ Required(KindOfTarget(r.entry)) \subseteq Taken(r)

GivenWell(r) ==
  /\ r.entry \in Entries
  /\ DOMAIN r.given \subseteq OptionsOf(r.entry)

ScriptWell(script) ==
  /\ DOMAIN script \subseteq ScriptOptions
  /\ \A o \in DOMAIN script :
       \/ script[o] = "good"
       \/ o = "sandbox" /\ script[o] = "wrong"
       \/ o = "cwd" /\ script[o] = "empty"

DefaultsWell(r) ==
  DOMAIN r.manifest \subseteq ManifestOptions /\ DOMAIN r.command \subseteq {"cwd"}

RequestShape ==
  request = [at |-> request.at, entry |-> request.entry, given |-> request.given, kind |-> request.kind,
             target |-> request.target, source |-> request.source, script |-> request.script,
             manifest |-> request.manifest, command |-> request.command, thread |-> request.thread,
             turn |-> request.turn, retries |-> request.retries]

RequestInv ==
  /\ RequestShape /\ GivenWell(request)
  /\ request.kind = "handoff" => request.entry = "handoff"
  /\ request.at \in {"stored", "claimed", "called", "started", "failed"} =>
       request.target = TargetOf(request) /\ Legible(request)
  /\ request.at = "called" =>
       /\ request.entry = "workflow" /\ ScriptWell(request.script) /\ DefaultsWell(request)
  /\ AcceptedIsTold

(* A target that was taken is taken again as it is.                        *)
LEMMA TargetTakenAgain ==
  ASSUME NEW r, GivenWell(r), Legible(r), NEW to \in {KindOfTarget(r.entry), r.entry}
  PROVE  /\ parse(to, TargetOf(r)) = TargetOf(r)
         /\ parseDispatchRunTarget(to, TargetOf(r)) = TargetOf(r)
         /\ Accepts(KindOfTarget(r.entry), TargetOf(r))
  <1>1. \A o \in Taken(r) : /\ TakenAs(to, o, TakenAs(r.entry, o, r.given[o])) = TakenAs(r.entry, o, r.given[o])
                            /\ TakenAs(r.entry, o, r.given[o]) # "absent"
                            /\ o \in Targeted
    BY TakenAgain DEF GivenWell, Legible, Taken, KindOfTarget
  <1>2. DOMAIN TargetOf(r) = Taken(r) /\ \A o \in Taken(r) : TargetOf(r)[o] = TakenAs(r.entry, o, r.given[o])
    BY DEF TargetOf
  <1>3. ASSUME NEW kind \in {KindOfTarget(r.entry), r.entry} PROVE parse(kind, TargetOf(r)) = TargetOf(r)
    <2>1. \A o \in Taken(r) : TakenAs(kind, o, TakenAs(r.entry, o, r.given[o])) = TakenAs(r.entry, o, r.given[o])
      BY TakenAgain DEF GivenWell, Legible, Taken, KindOfTarget
    <2>2. parse(kind, TargetOf(r)) = [o \in Taken(r) |-> TakenAs(r.entry, o, r.given[o])]
      BY <1>1, <1>2, <2>1, Parsed
    <2> QED BY <2>2 DEF TargetOf
  <1>4. Restrict(TargetOf(r), Targeted \cap DOMAIN TargetOf(r)) = TargetOf(r)
    BY <1>1, <1>2 DEF Restrict, TargetOf
  <1>5. Accepts(KindOfTarget(r.entry), TargetOf(r))
    BY <1>2, <1>3 DEF Accepts, Refuses, Legible
  <1> QED BY <1>3, <1>4, <1>5 DEF parseDispatchRunTarget, Targeted

(* What is enqueued.                                                       *)
LEMMA TargetEnqueued ==
  ASSUME NEW r, GivenWell(r), Accepts(r.entry, r.given),
         NEW target, target = (IF r.entry = "workflow" THEN parse(r.entry, r.given) ELSE enqueued(parse(r.entry, r.given)))
  PROVE  parseDispatchRunTarget(KindOfTarget(r.entry), target) = TargetOf(r) /\ Legible(r)
  <1> DEFINE given == parse(r.entry, r.given)
  <1>1. /\ DOMAIN given = {x \in DOMAIN r.given : TakenAs(r.entry, x, r.given[x]) # "absent"}
        /\ \A o \in DOMAIN given : given[o] = TakenAs(r.entry, o, r.given[o])
    BY Parsed
  <1>2. Legible(r)
    <2>1. \A o \in Taken(r) : TakenAs(r.entry, o, r.given[o]) # "refused"
      BY <1>1 DEF Taken, Accepts, Refuses
    <2>2. Required(KindOfTarget(r.entry)) \subseteq Taken(r)
      <3> SUFFICES ASSUME NEW o \in Required(KindOfTarget(r.entry)) PROVE o \in Taken(r)
        OBVIOUS
      <3>1. o \in {"prompt", "workflow"} /\ o \in Required(r.entry)
        BY DEF Required, KindOf, KindOfTarget, GivenWell, Entries, OptionsOf, TurnTarget, TurnStrings, TurnWords, WorkflowTarget,
               QueueParams, CreateParams, HandoffParams
      <3>2. o \in DOMAIN r.given /\ KindOf(r.entry, o) = "required"
        BY <3>1 DEF Accepts, Required
      <3>3. TakenAs(r.entry, o, r.given[o]) \in {"good", "refused"}
        BY <3>2 DEF TakenAs, ValueOf, requiredString
      <3> QED BY <3>1, <3>2, <3>3 DEF Taken, Targeted, TurnTarget, WorkflowTarget
    <2> QED BY <2>1, <2>2 DEF Legible
  <1>3. Restrict(target, Targeted \cap DOMAIN target) = TargetOf(r)
    <2>1. Targeted \cap DOMAIN target = Taken(r) /\ \A o \in Taken(r) : target[o] = given[o]
      <3>1. CASE r.entry = "workflow"
        BY <1>1, <3>1 DEF Taken
      <3>2. CASE r.entry # "workflow"
        <4>1. Targeted \cap DOMAIN r.given = TurnTarget \cap DOMAIN r.given
          BY <3>2 DEF GivenWell, OptionsOf, Entries, Targeted, TurnTarget, TurnStrings, TurnWords, WorkflowTarget,
               QueueParams, CreateParams, HandoffParams
        <4> QED BY <1>1, <3>2, <4>1 DEF Taken, enqueued, Restrict, Targeted
      <3> QED BY <3>1, <3>2
    <2>2. \A o \in Taken(r) : o \in DOMAIN given
      BY <1>1 DEF Taken
    <2> HIDE DEF given
    <2> QED BY <1>1, <2>1, <2>2 DEF Restrict, TargetOf
  <1>4. parse(KindOfTarget(r.entry), TargetOf(r)) = TargetOf(r)
    BY <1>2, TargetTakenAgain
  <1> QED BY <1>2, <1>3, <1>4 DEF parseDispatchRunTarget, Targeted

(* What a handoff becomes.                                                 *)
LEMMA TargetMaterialized ==
  ASSUME NEW r, GivenWell(r), Legible(r), r.entry = "handoff", r.target = TargetOf(r)
  PROVE  enqueued(parse("prompt", materialized(r))) = TargetOf(r)
  <1> DEFINE given == materialized(r)
             input == parse("prompt", given)
  <1>1. \A o \in Taken(r) : /\ TakenAs("prompt", o, TakenAs(r.entry, o, r.given[o])) = TakenAs(r.entry, o, r.given[o])
                            /\ TakenAs(r.entry, o, r.given[o]) # "absent"
    BY TakenAgain DEF GivenWell, Legible, Taken
  <1>2. DOMAIN r.target = Taken(r) /\ \A o \in Taken(r) : r.target[o] = TakenAs(r.entry, o, r.given[o])
    BY DEF TargetOf
  <1>3. Taken(r) \subseteq TurnTarget
    BY DEF Taken, GivenWell, OptionsOf, Entries, Targeted, TurnTarget, TurnStrings, TurnWords, WorkflowTarget,
           QueueParams, CreateParams, HandoffParams
  <1>4. TurnTarget \cap {"title", "labels"} = {}
    BY DEF TurnTarget, TurnStrings, TurnWords
  <1>5. TurnTarget \cap DOMAIN given = Taken(r) /\ \A o \in Taken(r) : given[o] = TakenAs(r.entry, o, r.given[o])
    BY <1>2, <1>3, <1>4 DEF materialized, Restrict, ++
  <1> HIDE DEF given
  <1>6. TurnTarget \cap DOMAIN input = Taken(r) /\ \A o \in Taken(r) : input[o] = TakenAs(r.entry, o, r.given[o])
    BY <1>1, <1>5, Parsed
  <1> HIDE DEF input
  <1>7. enqueued(input) = TargetOf(r)
    BY <1>6 DEF enqueued, Restrict, TargetOf
  <1> QED BY <1>7 DEF input, given

(* The options of a turn that starts: all but those that nobody is told.   *)
LEMMA Split ==
  ASSUME NEW asked, DOMAIN asked \subseteq ScriptOptions,
         NEW thread, thread = (IF "threadId" \in DOMAIN asked THEN <<>> ELSE threadStartParamsFromWorkflow(asked))
  PROVE  turnStartParamsFromWorkflow(asked, "threadId" \in DOMAIN asked) ++ thread
           = Restrict(asked, DOMAIN asked \ NeverTold)
  <1> DEFINE turn == turnStartParamsFromWorkflow(asked, "threadId" \in DOMAIN asked)
  <1>1. /\ DOMAIN turn \cup DOMAIN thread = DOMAIN asked \ NeverTold
        /\ \A o \in DOMAIN turn : turn[o] = asked[o]
        /\ \A o \in DOMAIN thread : thread[o] = asked[o]
    <2>1. CASE "threadId" \in DOMAIN asked
      BY <2>1 DEF turnStartParamsFromWorkflow, Only, Restrict, ScriptOptions, NeverTold,
                  TurnTarget, TurnStrings, TurnWords
    <2>2. CASE "threadId" \notin DOMAIN asked
      BY <2>2 DEF turnStartParamsFromWorkflow, threadStartParamsFromWorkflow, Only, Restrict, ScriptOptions,
                  NeverTold, TurnTarget, TurnStrings, TurnWords
    <2> QED BY <2>1, <2>2
  <1> HIDE DEF turn
  <1>2. turn ++ thread = Restrict(asked, DOMAIN asked \ NeverTold)
    BY <1>1 DEF ++, Restrict
  <1> QED BY <1>2 DEF turn

(* What is asked of a turn is what is expected of it.                      *)
LEMMA AskedIsExpected ==
  ASSUME NEW r, GivenWell(r), r.target = TargetOf(r),
         r.entry = "workflow" => /\ ScriptWell(r.script) /\ DefaultsWell(r)
                                 /\ ~Refuses(parse("dispatch", r.script))
  PROVE  TurnAsked(r) = Expected(r) /\ DOMAIN TurnAsked(r) \subseteq ScriptOptions
  <1> DEFINE taken == {option \in TurnTarget \cap DOMAIN r.given :
                         ValueOf(KindOf(r.entry, option), r.given[option]) # "absent"}
             usual == [option \in taken |-> "asked"]
             scripted == [option \in {o \in DOMAIN r.script : r.script[o] = "good"} |-> "script"]
             command == [o \in DOMAIN r.command |-> "command"]
             manifest == [o \in DOMAIN r.manifest |-> "manifest"]
             root == [o \in {"cwd"} |-> "root"]
  <1>1. taken = TurnTarget \cap Taken(r) /\ DOMAIN r.target = Taken(r)
    BY DEF Taken, TakenAs, Targeted, TargetOf
  <1>2. CASE r.entry # "workflow"
    <2>1. Taken(r) \subseteq TurnTarget
      BY <1>2 DEF Taken, GivenWell, OptionsOf, Entries, Targeted, TurnTarget, TurnStrings, TurnWords, WorkflowTarget,
             QueueParams, CreateParams, HandoffParams
    <2>2. TurnAsked(r) = usual /\ Expected(r) = usual
      BY <1>1, <1>2, <2>1 DEF TurnAsked, From, Expected
    <2> QED BY <2>2 DEF ScriptOptions
  <1>3. CASE r.entry = "workflow"
    <2> DEFINE hosts == {"prompt", "cwd", "model", "sandbox", "approvalPolicy", "permissions"}
               script == From("script", parse("dispatch", r.script))
    <2>1. hosts \cap Taken(r) = taken
      BY <1>1, <1>3 DEF Taken, GivenWell, OptionsOf, Entries, Targeted, TurnTarget, TurnStrings, TurnWords, WorkflowTarget,
             CreateParams
    <2>2. From("asked", Restrict(r.target, hosts \cap DOMAIN r.target)) = usual
      BY <1>1, <2>1 DEF From, Restrict
    <2>3. From("manifest", r.manifest) = manifest /\ From("command", r.command) = command
      BY DEF From
    <2>4. script = scripted
      <3>1. \A o \in DOMAIN r.script :
              TakenAs("dispatch", o, r.script[o]) # "absent" <=> r.script[o] = "good"
        <4> SUFFICES ASSUME NEW o \in DOMAIN r.script
                     PROVE  TakenAs("dispatch", o, r.script[o]) # "absent" <=> r.script[o] = "good"
          OBVIOUS
        <4>1. TakenAs("dispatch", o, r.script[o]) # "absent" => TakenAs("dispatch", o, r.script[o]) # "refused"
          BY <1>3, Parsed DEF Refuses
        <4>2. CASE r.script[o] = "good"
          BY <4>2 DEF TakenAs, ValueOf, KindOf, requiredString, optionalString, enumValue, runAtValue, stringArray,
                      recordOrUndefined
        <4>3. CASE o = "sandbox" /\ r.script[o] = "wrong"
          BY <4>1, <4>3 DEF TakenAs, ValueOf, KindOf, enumValue, TurnWords
        <4>4. CASE o = "cwd" /\ r.script[o] = "empty"
          BY <4>4 DEF TakenAs, ValueOf, KindOf, optionalString, TurnWords
        <4> QED BY <1>3, <4>2, <4>3, <4>4 DEF ScriptWell
      <3>2. DOMAIN parse("dispatch", r.script) = {o \in DOMAIN r.script : r.script[o] = "good"}
        BY <3>1, Parsed
      <3> QED BY <3>2 DEF From
    <2>5. TurnAsked(r) = scripted ++ (usual ++ command ++ manifest ++ root)
      BY <1>3, <2>2, <2>3, <2>4 DEF TurnAsked, turnStartParamsFromHostParams, hostDefaults
    <2>6. Expected(r) = scripted ++ usual ++ command ++ manifest ++ root
      BY <1>3 DEF Expected
    <2>7. /\ DOMAIN scripted \subseteq ScriptOptions /\ DOMAIN usual \subseteq ScriptOptions
          /\ DOMAIN command \subseteq ScriptOptions /\ DOMAIN manifest \subseteq ScriptOptions
          /\ DOMAIN root \subseteq ScriptOptions
      BY <1>3 DEF ScriptWell, DefaultsWell, ManifestOptions, ScriptOptions, TurnTarget, TurnStrings
    <2> HIDE DEF scripted, usual, command, manifest, root
    <2>8. scripted ++ usual ++ command ++ manifest ++ root = scripted ++ (usual ++ command ++ manifest ++ root)
      <3>1. \A f, g, h : (f ++ g) ++ h = f ++ (g ++ h)
        BY DEF ++
      <3> QED BY <3>1
    <2>9. DOMAIN (scripted ++ (usual ++ command ++ manifest ++ root)) \subseteq ScriptOptions
      <3>1. ASSUME NEW f, NEW g, DOMAIN f \subseteq ScriptOptions, DOMAIN g \subseteq ScriptOptions
            PROVE  DOMAIN (f ++ g) \subseteq ScriptOptions
        BY <3>1 DEF ++
      <3>2. DOMAIN (usual ++ command) \subseteq ScriptOptions
        BY <2>7, <3>1
      <3>3. DOMAIN (usual ++ command ++ manifest) \subseteq ScriptOptions
        BY <2>7, <3>1, <3>2
      <3>4. DOMAIN (usual ++ command ++ manifest ++ root) \subseteq ScriptOptions
        BY <2>7, <3>1, <3>3
      <3> QED BY <2>7, <3>1, <3>4
    <2> QED BY <2>5, <2>6, <2>7, <2>8, <2>9
  <1> QED BY <1>2, <1>3

LEMMA RequestStart == RequestInit => RequestInv
  <1> SUFFICES ASSUME RequestInit PROVE RequestInv
    OBVIOUS
  <1>1. PICK entry \in Entries : \E given \in Asked(entry) :
          request = [at |-> "asked", entry |-> entry, given |-> given, kind |-> entry,
                     target |-> <<>>, source |-> <<>>, script |-> <<>>, manifest |-> <<>>,
                     command |-> <<>>, thread |-> <<>>, turn |-> <<>>, retries |-> 0]
    BY DEF RequestInit
  <1>2. PICK given \in Asked(entry) :
          request = [at |-> "asked", entry |-> entry, given |-> given, kind |-> entry,
                     target |-> <<>>, source |-> <<>>, script |-> <<>>, manifest |-> <<>>,
                     command |-> <<>>, thread |-> <<>>, turn |-> <<>>, retries |-> 0]
    BY <1>1
  <1>3. DOMAIN given \subseteq OptionsOf(entry)
    <2>1. Required(entry) \subseteq OptionsOf(entry)
      BY DEF Required
    <2>2. \A pick \in [1..MaxOdd -> OptionsOf(entry)] : Range(pick) \subseteq OptionsOf(entry)
      BY DEF Range
    <2> DEFINE usual == {Required(entry), OptionsOf(entry), OptionsOf(entry) \ {"sandbox"},
                         OptionsOf(entry) \ {"permissions", "threadId"}}
               strange == {{}} \cup {Range(pick) : pick \in [1..MaxOdd -> OptionsOf(entry)]}
    <2>3. PICK names \in usual, values \in UNION {[some -> {"empty", "wrong"}] : some \in strange} :
            given = values ++ [option \in names |-> "good"]
      BY DEF Asked
    <2>4. PICK some \in strange : values \in [some -> {"empty", "wrong"}]
      BY <2>3
    <2>5. DOMAIN given = some \cup names
      BY <2>3, <2>4 DEF ++
    <2> QED BY <2>1, <2>2, <2>3, <2>4, <2>5
  <1> QED BY <1>2, <1>3 DEF RequestInv, RequestShape, GivenWell, AcceptedIsTold

LEMMA RequestStep == RequestInv /\ [RequestNext]_request => RequestInv'
  <1> SUFFICES ASSUME RequestInv, [RequestNext]_request PROVE RequestInv'
    OBVIOUS
  <1> USE DEF Becomes
  <1>1. CASE EnqueueRequest
    <2>1. CASE Accepts(request.entry, request.given)
      <3> DEFINE input == parse(request.entry, request.given)
      <3>1. PICK target : target = (IF request.entry = "workflow" THEN input ELSE enqueued(input))
        OBVIOUS
      <3>2. PICK source : request' = [request EXCEPT !.at = "stored", !.source = source,
                                        !.target = parseDispatchRunTarget(KindOfTarget(request.entry), target)]
        BY <1>1, <2>1, <3>1 DEF EnqueueRequest
      <3>3. parseDispatchRunTarget(KindOfTarget(request.entry), target) = TargetOf(request) /\ Legible(request)
        BY <2>1, <3>1, TargetEnqueued DEF RequestInv
      <3>4. /\ request'.at = "stored" /\ request'.entry = request.entry /\ request'.given = request.given
            /\ request'.kind = request.kind /\ request'.target = TargetOf(request) /\ RequestShape'
        BY <3>2, <3>3 DEF RequestInv, RequestShape
      <3> QED BY <3>3, <3>4 DEF RequestInv, GivenWell, Legible, TargetOf, Taken, AcceptedIsTold
    <2>2. CASE ~Accepts(request.entry, request.given)
      <3>1. request' = [request EXCEPT !.at = "refused"]
        BY <1>1, <2>2 DEF EnqueueRequest
      <3> QED BY <3>1 DEF RequestInv, RequestShape, GivenWell, AcceptedIsTold
    <2> QED BY <2>1, <2>2
  <1>2. CASE normalizeDispatchRunIntent \/ retryDispatchRunIntent
    <2>1. request.target = TargetOf(request) /\ Legible(request) /\ GivenWell(request)
      BY <1>2 DEF normalizeDispatchRunIntent, retryDispatchRunIntent, RequestInv
    <2>2. /\ parseDispatchRunTarget(KindOfTarget(request.entry), request.target) = TargetOf(request)
          /\ Accepts(KindOfTarget(request.entry), request.target)
      BY <2>1, TargetTakenAgain
    <2>3. /\ request'.at \in {"claimed", "stored"} /\ request'.entry = request.entry /\ request'.given = request.given
          /\ request'.kind = request.kind /\ request'.target = TargetOf(request) /\ RequestShape'
      BY <1>2, <2>2 DEF normalizeDispatchRunIntent, retryDispatchRunIntent, RequestInv, RequestShape
    <2> QED BY <2>1, <2>3 DEF RequestInv, GivenWell, Legible, TargetOf, Taken, AcceptedIsTold
  <1>3. CASE materializeRequest
    <2>1. /\ request.target = TargetOf(request) /\ Legible(request) /\ GivenWell(request)
          /\ request.entry = "handoff"
      BY <1>3 DEF materializeRequest, RequestInv
    <2>2. PICK source : request' = [request EXCEPT !.at = "stored", !.kind = "prompt", !.source = source,
                                      !.target = enqueued(parse("prompt", materialized(request)))]
      BY <1>3 DEF materializeRequest
    <2>3. /\ request'.at = "stored" /\ request'.entry = request.entry /\ request'.given = request.given
          /\ request'.kind = "prompt" /\ request'.target = TargetOf(request) /\ RequestShape'
      BY <2>1, <2>2, TargetMaterialized DEF RequestInv, RequestShape
    <2> QED BY <2>1, <2>3 DEF RequestInv, GivenWell, Legible, TargetOf, Taken, AcceptedIsTold
  <1>4. CASE runWorkflowDispatchTarget
    <2>1. PICK script \in ScriptAsks, manifest \in ManifestDefaults, command \in CommandDefaults :
            request' = [request EXCEPT !.at = "called", !.script = script, !.manifest = manifest,
                                       !.command = command]
      BY <1>4 DEF runWorkflowDispatchTarget
    <2>2. ScriptWell(script)
      BY DEF ScriptAsks, ScriptWell, ScriptOptions, TurnTarget, TurnStrings, TurnWords
    <2>3. DOMAIN manifest \subseteq ManifestOptions /\ DOMAIN command \subseteq {"cwd"}
      BY DEF ManifestDefaults, CommandDefaults
    <2>4. /\ request'.at = "called" /\ request'.entry = "workflow" /\ request'.entry = request.entry
          /\ request'.given = request.given /\ request'.kind = request.kind /\ request'.target = request.target
          /\ request'.script = script /\ request'.manifest = manifest /\ request'.command = command /\ RequestShape'
      BY <1>4, <2>1 DEF runWorkflowDispatchTarget, RequestInv, RequestShape
    <2>5. request.target = TargetOf(request) /\ Legible(request) /\ GivenWell(request)
      BY <1>4 DEF runWorkflowDispatchTarget, RequestInv
    <2> QED BY <2>2, <2>3, <2>4, <2>5 DEF RequestInv, DefaultsWell, GivenWell, Legible, TargetOf, Taken, AcceptedIsTold
  <1>5. CASE startWorkflowTurnWithRequest
    <2>1. request.target = TargetOf(request) /\ Legible(request) /\ GivenWell(request)
      BY <1>5 DEF startWorkflowTurnWithRequest, Runs, RequestInv
    <2>2. CASE validateTurnPermissionOptions(request)
      <3> DEFINE asked == TurnAsked(request)
                 existing == "threadId" \in DOMAIN asked
      <3>1. PICK thread, turn :
              /\ thread = (IF existing THEN <<>> ELSE threadStartParamsFromWorkflow(asked))
              /\ turn = turnStartParamsFromWorkflow(asked, existing)
              /\ request' = [request EXCEPT !.at = "started", !.thread = thread, !.turn = turn]
        BY <1>5, <2>2 DEF startWorkflowTurnWithRequest
      <3>2. request.entry = "workflow" => /\ ScriptWell(request.script) /\ DefaultsWell(request)
                                          /\ ~Refuses(parse("dispatch", request.script))
        BY <1>5, <2>2 DEF startWorkflowTurnWithRequest, Runs, RequestInv, validateTurnPermissionOptions
      <3>3. asked = Expected(request) /\ DOMAIN asked \subseteq ScriptOptions
        BY <2>1, <3>2, AskedIsExpected
      <3> HIDE DEF asked
      <3>4. turn ++ thread = Restrict(Expected(request), DOMAIN Expected(request) \ NeverTold)
        BY <3>1, <3>3, Split
      <3>5. /\ request'.at = "started" /\ request'.entry = request.entry /\ request'.given = request.given
            /\ request'.kind = request.kind /\ request'.target = request.target /\ request'.script = request.script
            /\ request'.manifest = request.manifest /\ request'.command = request.command /\ request'.thread = thread /\ request'.turn = turn /\ RequestShape'
        BY <3>1 DEF RequestInv, RequestShape
      <3>6. Expected(request)' = Expected(request)
        BY <3>5 DEF Expected
      <3> QED BY <2>1, <3>4, <3>5, <3>6 DEF RequestInv, GivenWell, Legible, TargetOf, Taken, AcceptedIsTold
    <2>3. CASE ~validateTurnPermissionOptions(request)
      <3>1. request' = [request EXCEPT !.at = "failed"]
        BY <1>5, <2>3 DEF startWorkflowTurnWithRequest
      <3>2. /\ request'.at = "failed" /\ request'.entry = request.entry /\ request'.given = request.given
            /\ request'.kind = request.kind /\ request'.target = request.target /\ RequestShape'
        BY <3>1 DEF RequestInv, RequestShape
      <3> QED BY <2>1, <3>2 DEF RequestInv, GivenWell, Legible, TargetOf, Taken, AcceptedIsTold
    <2> QED BY <2>2, <2>3
  <1>6. CASE TurnFails
    <2>1. request.target = TargetOf(request) /\ Legible(request) /\ GivenWell(request)
      BY <1>6 DEF TurnFails, RequestInv
    <2>2. /\ request'.at = "failed" /\ request'.entry = request.entry /\ request'.given = request.given
          /\ request'.kind = request.kind /\ request'.target = request.target /\ RequestShape'
      BY <1>6 DEF TurnFails, RequestInv, RequestShape
    <2> QED BY <2>1, <2>2 DEF RequestInv, GivenWell, Legible, TargetOf, Taken, AcceptedIsTold
  <1>7. CASE UNCHANGED request
    BY <1>7 DEF RequestInv, RequestShape, GivenWell, Legible, TargetOf, Taken, AcceptedIsTold, Expected
  <1> QED BY <1>1, <1>2, <1>3, <1>4, <1>5, <1>6, <1>7 DEF RequestNext

(* For any number of oddly given options and of retries: a request that    *)
(* was accepted (parseDispatchRunTarget) can be read again, and what its   *)
(* turn tells the app-server (startWorkflowTurnWithRequest) is what was    *)
(* asked, through every way it may take, but for skills, which nobody is   *)
(* told, and with a directory for every turn of a workflow: that of its    *)
(* command, manifest or root (runWorkflowDispatchTarget) if it asked none. *)
THEOREM AcceptedRequestsAreTold == RequestSpec => []AcceptedIsTold
  <1>1. RequestInv => AcceptedIsTold
    BY DEF RequestInv
  <1> QED BY <1>1, RequestStart, RequestStep, PTL DEF RequestSpec

=============================================================================
