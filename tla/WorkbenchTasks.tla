---------------------------- MODULE WorkbenchTasks ----------------------------
(***************************************************************************)
(* Tasks of the workbench: every run is a process that executes its task,  *)
(* writes output and record, reads all records and writes the health       *)
(* summary.  No file is written atomically and nothing is locked.          *)
(***************************************************************************)
EXTENDS Naturals, FiniteSets

CONSTANTS
  Tasks,         \* the configured tasks; their ids are unique
  LatestTasks,   \* those with history = "latest": one record per task
  DisabledTasks,
  TaskRuns,      \* the runs, numbered as their files are listed
  NoRecord,      \* there is no file,
  TornRecord,    \* or one that is still empty
  TaskClock,     \* bound
  TaskFaults     \* bound on failed writes and deaths

ASSUME TaskConstants ==
  /\ TaskRuns \subseteq Nat /\ IsFiniteSet(TaskRuns)
  /\ LatestTasks \subseteq Tasks /\ DisabledTasks \subseteq Tasks
  /\ TaskClock \in Nat /\ TaskFaults \in Nat

VARIABLES
  taskRun,       \* the processes
  runFile,       \* runs/<run id>.json and latest-runs/<task id>.json
  healthFile,    \* health/summary.json
  taskNow, taskFaults,
  healthRaced    \* history: the summary may rest on records since replaced

taskVars == <<taskRun, runFile, healthFile, taskNow, taskFaults, healthRaced>>

RunStatuses == {"completed", "failed", "skipped"}
RunPaths == Tasks \cup TaskRuns

Record == [run : TaskRuns, task : Tasks, status : RunStatuses, startedAt : 0 .. TaskClock]

ASSUME NoneIsARecord == NoRecord \notin Record /\ TornRecord \notin Record

(* The summary: the failing tasks with the number of their last failures.  *)
HealthSummary == [latest : TaskRuns, failing : [Tasks -> 0 .. Cardinality(TaskRuns)]]

TaskRunState == [pc : {"new", "execute", "record", "fill", "read", "health", "fillHealth", "done"},
                 task : Tasks, startedAt : 0 .. TaskClock, status : RunStatuses,
                 health : HealthSummary]

TaskTypeOK ==
  /\ taskRun \in [TaskRuns -> TaskRunState]
  /\ \A p \in RunPaths : runFile[p] \in Record \cup {NoRecord, TornRecord}
  /\ healthFile \in HealthSummary \cup {NoRecord, TornRecord}

NoFailures(r) == [latest |-> r, failing |-> [t \in Tasks |-> 0]]

TaskInit ==
  /\ \E task \in [TaskRuns -> Tasks] :
       taskRun = [r \in TaskRuns |-> [pc |-> "new", task |-> task[r], startedAt |-> 0,
                                      status |-> "skipped", health |-> NoFailures(r)]]
  /\ runFile = [p \in RunPaths |-> NoRecord]
  /\ healthFile = NoRecord
  /\ taskNow = 0 /\ taskFaults = 0 /\ healthRaced = FALSE

----------------------------------------------------------------------------
RunPath(r) == IF taskRun[r].task \in LatestTasks THEN taskRun[r].task ELSE r

runRecord(r) == [run |-> r, task |-> taskRun[r].task, status |-> taskRun[r].status,
                 startedAt |-> taskRun[r].startedAt]

(* Files that cannot be parsed are skipped.                                *)
readRuns == {runFile[p] : p \in RunPaths} \ {NoRecord, TornRecord}

(* The failures of a task since it last did something else; records of one *)
(* time stay in the order in which they are listed.                        *)
consecutiveFailures(task, records) ==
  LET of == {x \in records : x.task = task}
      before(y, x) == y.startedAt > x.startedAt \/ (y.startedAt = x.startedAt /\ y.run < x.run)
      broken(x) == x.status # "failed" \/ \E y \in of : y.status # "failed" /\ before(y, x)
  IN Cardinality({x \in of : ~broken(x)})

FailingTasks(records) == [t \in Tasks |-> consecutiveFailures(t, records)]

(* A record appears that another run will not count: it has read, or it    *)
(* still takes its own record, which this one replaces, for the last.      *)
Races(r) ==
  \E q \in TaskRuns \ {r} :
    \/ taskRun[q].pc \in {"health", "fillHealth"}
    \/ taskRun[q].pc \in {"fill", "read"} /\ RunPath(q) = RunPath(r)

TaskStep(r, from, to) ==
  /\ taskRun[r].pc = from
  /\ taskRun' = [taskRun EXCEPT ![r] = to]
  /\ UNCHANGED taskNow

StartTask(r) ==
  /\ TaskStep(r, "new", [taskRun[r] EXCEPT !.pc = "execute", !.startedAt = taskNow])
  /\ UNCHANGED <<runFile, healthFile, taskFaults, healthRaced>>

(* A disabled task is recorded as skipped; a workflow, a command or a      *)
(* skill has any outcome.                                                  *)
ExecuteTask(r) ==
  /\ \E status \in IF taskRun[r].task \in DisabledTasks THEN {"skipped"}
                   ELSE {"completed", "failed"} :
       TaskStep(r, "execute", [taskRun[r] EXCEPT !.pc = "record", !.status = status])
  /\ UNCHANGED <<runFile, healthFile, taskFaults, healthRaced>>

(* persistRun: the output, which nothing reads back, then the record.      *)
OpenRecord(r) ==
  /\ TaskStep(r, "record", [taskRun[r] EXCEPT !.pc = "fill"])
  /\ runFile' = [runFile EXCEPT ![RunPath(r)] = TornRecord]
  /\ healthRaced' = (healthRaced \/ Races(r))
  /\ UNCHANGED <<healthFile, taskFaults>>

FillRecord(r) ==
  /\ TaskStep(r, "fill", [taskRun[r] EXCEPT !.pc = "read"])
  /\ runFile' = [runFile EXCEPT ![RunPath(r)] = runRecord(r)]
  /\ healthRaced' = (healthRaced \/ Races(r))
  /\ UNCHANGED <<healthFile, taskFaults>>

(* Mutant of ReadRecords: the summary rests on the present run alone.      *)
ReadOwnRecord(r) ==
  /\ TaskStep(r, "read", [taskRun[r] EXCEPT !.pc = "health",
       !.health = [latest |-> r, failing |-> FailingTasks({runRecord(r)})]])
  /\ UNCHANGED <<runFile, healthFile, taskFaults, healthRaced>>

(* writeHealth: the records on disk, and the present one by its id.        *)
ReadRecords(r) ==
  /\ TaskStep(r, "read", [taskRun[r] EXCEPT !.pc = "health",
       !.health = [latest |-> r, failing |-> FailingTasks(
          {x \in readRuns : x.run # r} \cup {runRecord(r)})]])
  /\ UNCHANGED <<runFile, healthFile, taskFaults, healthRaced>>

OpenHealth(r) ==
  /\ TaskStep(r, "health", [taskRun[r] EXCEPT !.pc = "fillHealth"])
  /\ healthFile' = TornRecord
  /\ UNCHANGED <<runFile, taskFaults, healthRaced>>

FillHealth(r) ==
  /\ TaskStep(r, "fillHealth", [taskRun[r] EXCEPT !.pc = "done", !.health = NoFailures(r)])
  /\ healthFile' = taskRun[r].health
  /\ UNCHANGED <<runFile, taskFaults, healthRaced>>

(* A write that fails inside the try is recorded as the failure of the     *)
(* task, over the record of its success; a second failure ends the process.*)
PersistFails(r) ==
  /\ taskFaults < TaskFaults
  /\ taskRun[r].pc \in {"record", "fill", "read", "health", "fillHealth"}
  /\ \/ TaskStep(r, taskRun[r].pc, [taskRun[r] EXCEPT !.pc = "record", !.status = "failed"])
     \/ TaskStep(r, taskRun[r].pc, [taskRun[r] EXCEPT !.pc = "done"])
  /\ taskFaults' = taskFaults + 1
  /\ healthRaced' = TRUE
  /\ UNCHANGED <<runFile, healthFile>>

TaskTimePasses ==
  /\ taskNow < TaskClock
  /\ taskNow' = taskNow + 1
  /\ UNCHANGED <<taskRun, runFile, healthFile, taskFaults, healthRaced>>

TaskNext ==
  \/ \E r \in TaskRuns :
       \/ StartTask(r) \/ ExecuteTask(r) \/ OpenRecord(r) \/ FillRecord(r)
       \/ ReadRecords(r) \/ OpenHealth(r) \/ FillHealth(r) \/ PersistFails(r)
  \/ TaskTimePasses

TaskSpec == TaskInit /\ [][TaskNext]_taskVars

----------------------------------------------------------------------------
(***************************************************************************)
(* When every run has ended, the summary counts the failures that the      *)
(* records on disk show, unless a record was written while another run     *)
(* had read the records and not yet written its summary, or two runs of a  *)
(* task wrote one record, or a write failed: only these make it stale.     *)
(***************************************************************************)
QuietHealthMatchesRecords ==
  (/\ \A r \in TaskRuns : taskRun[r].pc \in {"new", "done"}
   /\ healthFile # NoRecord /\ ~healthRaced)
  => /\ healthFile \in HealthSummary
     /\ healthFile.failing = FailingTasks(readRuns)

=============================================================================
