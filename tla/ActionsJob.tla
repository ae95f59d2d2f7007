------------------------------ MODULE ActionsJob ------------------------------
(***************************************************************************)
(* The scheduled job that scaffoldActionsWorkbench generates: checkout,    *)
(* prepare-auth, run-due, cleanup, and a commit of the durable state that  *)
(* is pushed.  The last two steps run always, whatever failed before.      *)
(***************************************************************************)
EXTENDS Naturals, FiniteSets

CONSTANTS
  Jobs,      \* runs of the workflow; two may overlap
  Work,      \* the dispatch intents that are due
  JobFaults  \* bound on failing steps

ASSUME JobConstants == JobFaults \in Nat /\ IsFiniteSet(Work)

(* What there can be below .codex, by where it lies and what git and       *)
(* cleanup make of it.                                                     *)
Private == {"auth", "installId", "snapshots", "temp", "localState"}
Databases == {"rootDb", "memoryDb", "stateDb", "sessionDb"}
Durable == {"memories", "feed", "state", "sessions"}
Kinds == Private \cup Databases \cup Durable \cup {"memoryGit", "memoryDiff"}

(* The scaffold keeps the user's entries but the retired one.              *)
actionsGitignoreEntries == Private \cup Databases
retiredActionsGitignoreEntries == {"sessions", "sessionDb"}
appendGitignoreEntries(lines) ==
  (lines \ retiredActionsGitignoreEntries) \cup actionsGitignoreEntries

VARIABLES
  job,        \* [pc, base, done, files, outcome] of every job
  upstream,   \* the branch: [head, done, files]
  gitignore,  \* the kinds of files that .gitignore names
  jobFaults,
  cleanupFailed  \* history

jobVars == <<job, upstream, gitignore, jobFaults, cleanupFailed>>

JobState == [pc : {"new", "auth", "run", "cleanup", "commit", "push", "done"},
             base : 0 .. Cardinality(Jobs), done : SUBSET Work, files : SUBSET Kinds,
             outcome : {"none", "pushed", "rejected", "aborted"}]

JobTypeOK ==
  /\ job \in [Jobs -> JobState]
  /\ upstream \in [head : 0 .. Cardinality(Jobs), done : SUBSET Work, files : SUBSET Kinds]
  /\ gitignore \subseteq Kinds

JobInit ==
  /\ job = [j \in Jobs |-> [pc |-> "new", base |-> 0, done |-> {}, files |-> {},
                            outcome |-> "none"]]
  /\ \E files \in {{}, {"memories"}, {"memories", "sessions"}} :
       upstream = [head |-> 0, done |-> {}, files |-> files]
  /\ \E entries \in {{}, {"sessions", "sessionDb"}, {"auth"}} :
       gitignore = appendGitignoreEntries(entries)
  /\ jobFaults = 0 /\ cleanupFailed = FALSE

----------------------------------------------------------------------------
JobStep(j, from, to) ==
  /\ job[j].pc = from
  /\ job' = [job EXCEPT ![j] = to]
  /\ UNCHANGED gitignore

StepFails == jobFaults < JobFaults /\ jobFaults' = jobFaults + 1

Checkout(j) ==
  /\ JobStep(j, "new", [job[j] EXCEPT !.pc = "auth", !.base = upstream.head,
                                      !.done = upstream.done, !.files = upstream.files])
  /\ UNCHANGED <<upstream, jobFaults, cleanupFailed>>

(* auth.json from the first secret that is set, or no file if none is.     *)
prepareActionsCodexAuth(j) ==
  /\ \E written \in {{}, {"auth"}} :
       JobStep(j, "auth", [job[j] EXCEPT !.pc = "run", !.files = @ \cup written])
  /\ UNCHANGED <<upstream, jobFaults, cleanupFailed>>

(* A secret that is no JSON ends the step, and run-due is skipped.         *)
AuthFails(j) ==
  /\ StepFails
  /\ JobStep(j, "auth", [job[j] EXCEPT !.pc = "cleanup"])
  /\ UNCHANGED <<upstream, cleanupFailed>>

(* run-due in Actions mode executes what the checkout says is pending, and *)
(* Codex writes what it likes into its home, the repository's .codex.      *)
RunDue(j) ==
  /\ \E written \in {{}, Kinds \ {"memories", "auth", "localState"}, Kinds \ {"auth", "localState"}} :
       JobStep(j, "run", [job[j] EXCEPT !.pc = "cleanup", !.done = Work,
                            !.files = @ \cup {"state"} \cup written])
  /\ UNCHANGED <<upstream, jobFaults, cleanupFailed>>

(* It may end, with an error, after some of the work.                      *)
RunFails(j) ==
  /\ StepFails
  /\ \E some \in SUBSET Work :
       JobStep(j, "run", [job[j] EXCEPT !.pc = "cleanup", !.done = @ \cup some,
                                       !.files = @ \cup {"state", "sessions", "sessionDb"}])
  /\ UNCHANGED <<upstream, cleanupFailed>>

(* The listed paths, and the databases that are not below the protected    *)
(* root workbench/actions.  localState is never there in Actions mode.     *)
Removed == (Private \ {"localState"}) \cup {"memoryGit", "memoryDiff"} \cup (Databases \ {"stateDb"})

cleanupActionsCodexHome(j) ==
  /\ JobStep(j, "cleanup", [job[j] EXCEPT !.pc = "commit", !.files = @ \ Removed])
  /\ UNCHANGED <<upstream, jobFaults, cleanupFailed>>

(* The first removal fails, and all stays: the case that leaves most.      *)
CleanupFails(j) ==
  /\ StepFails
  /\ JobStep(j, "cleanup", [job[j] EXCEPT !.pc = "commit"])
  /\ cleanupFailed' = TRUE
  /\ UNCHANGED upstream

(* Mutant of Added: everything is forced.                                  *)
AddedByForce(files) ==
  files \cap (Durable \cup {"memoryGit", "memoryDiff", "memoryDb", "stateDb", "sessionDb"})

(* "git add": memories, feed/actions and workbench/actions but for what is *)
(* ignored, and sessions with -f.                                          *)
Added(files) ==
  LET plain == {"memories", "feed", "state", "memoryGit", "memoryDiff", "memoryDb", "stateDb"}
      forced == {"sessions", "sessionDb"}
  IN files \cap ((plain \ gitignore) \cup forced)

(* A path that does not exist makes git add fail, and the shell ends.      *)
AddFails(j) ==
  /\ ~({"memories", "state"} \subseteq job[j].files)
  /\ JobStep(j, "commit", [job[j] EXCEPT !.pc = "done", !.outcome = "aborted"])
  /\ UNCHANGED <<upstream, jobFaults, cleanupFailed>>

CommitState(j) ==
  /\ {"memories", "state"} \subseteq job[j].files
  /\ JobStep(j, "commit", [job[j] EXCEPT !.pc = "push", !.files = Added(job[j].files)])
  /\ UNCHANGED <<upstream, jobFaults, cleanupFailed>>

(* Mutant of Push: the branch is set to what the job has.                  *)
PushForced(j) ==
  /\ JobStep(j, "push", [job[j] EXCEPT !.pc = "done", !.outcome = "pushed"])
  /\ upstream' = [head |-> upstream.head + 1, done |-> job[j].done,
                  files |-> upstream.files \cup job[j].files]
  /\ UNCHANGED <<jobFaults, cleanupFailed>>

Push(j) ==
  /\ job[j].base = upstream.head
  /\ JobStep(j, "push", [job[j] EXCEPT !.pc = "done", !.outcome = "pushed"])
  /\ upstream' = [head |-> upstream.head + 1, done |-> job[j].done,
                  files |-> upstream.files \cup job[j].files]
  /\ UNCHANGED <<jobFaults, cleanupFailed>>

(* Somebody else has pushed since the checkout.                            *)
PushRejected(j) ==
  /\ job[j].base # upstream.head
  /\ JobStep(j, "push", [job[j] EXCEPT !.pc = "done", !.outcome = "rejected"])
  /\ UNCHANGED <<upstream, jobFaults, cleanupFailed>>

JobNext == \E j \in Jobs :
  \/ Checkout(j) \/ prepareActionsCodexAuth(j) \/ AuthFails(j) \/ RunDue(j) \/ RunFails(j)
  \/ cleanupActionsCodexHome(j) \/ CleanupFails(j) \/ AddFails(j) \/ CommitState(j)
  \/ Push(j) \/ PushRejected(j)

JobSpec == JobInit /\ [][JobNext]_jobVars

----------------------------------------------------------------------------
(***************************************************************************)
(* Nothing private is pushed, not even when cleanup fails: what is left    *)
(* for git is outside the paths that are added, or ignored.  The one thing *)
(* that only cleanup keeps back is a database among the sessions.          *)
(***************************************************************************)
NothingPrivatePushed ==
  /\ upstream.files \cap Private = {}
  /\ upstream.files \cap Databases \subseteq {"sessionDb"}
  /\ "sessionDb" \in upstream.files => cleanupFailed

(***************************************************************************)
(* What a job has executed is pushed, whichever step failed, and stays     *)
(* there whatever later jobs push, unless another job has pushed in        *)
(* between or the repository has no memories directory, without which git  *)
(* add fails.                                                              *)
(***************************************************************************)
ExecutedIsPushed ==
  \A j \in Jobs : job[j].pc = "done" =>
    \/ job[j].done \subseteq upstream.done
    \/ job[j].outcome = "rejected"
    \/ "memories" \notin job[j].files

=============================================================================
