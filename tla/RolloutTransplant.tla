-------------------------- MODULE RolloutTransplant --------------------------
(***************************************************************************)
(* "threads inspect", "install-rollout" and "transplant": find the rollout *)
(* of a thread in a Codex home, and copy it into another.  Processes do so *)
(* at once, lock nothing and copy in place, while the threads of both      *)
(* homes may still be writing.                                             *)
(***************************************************************************)
EXTENDS Naturals, FiniteSets

CONSTANTS
  Movers,         \* processes that move a rollout
  MoveAsks,       \* [Movers -> SUBSET Asks]: what they may be asked
  Rollouts,       \* the relative paths of rollouts below a Codex home
  FilenameThread, \* [Rollouts -> RolloutThreads]: the thread its name tells
  RolloutThreads,
  MaxLines, MaxStamp, MoveCrashes   \* bounds

VARIABLES
  sessions,      \* [Homes -> [some Rollouts -> Content]]: the files
  rolloutCopies, \* the backups beside the rollouts of the target home
  stamp,         \* the time, which is part of a backup's name
  mover,         \* the processes
  moveCrashes,
  ownRollout     \* history: what the target home's own threads wrote last

rolloutVars == <<sessions, rolloutCopies, stamp, mover, moveCrashes, ownRollout>>

(* A rollout is a session_meta line, which an older one lacks, and lines;  *)
(* of one that is being written there are only some of the lines.          *)
Homes == {"from", "to"}
NoThread == "none"
Content == [thread : RolloutThreads \cup {NoThread}, cwd : {"old", "new"},
            by : Homes, lines : 0..MaxLines]
Prefix(content, n) ==
  [content EXCEPT !.lines = n, !.thread = IF n = 0 THEN NoThread ELSE @]
FirstLine(thread, by) == [thread |-> thread, cwd |-> "old", by |-> by, lines |-> 1]

(* Find by thread or by file, copy or only inspect; a file that does not   *)
(* lie in a sessions directory has its place inferred from its name; the   *)
(* directory is preserved or rewritten.                                    *)
Asks ==
  [find : {"thread", "file"}, thread : RolloutThreads, rollout : Rollouts,
   placed : BOOLEAN, copies : BOOLEAN, target : Homes, replace : BOOLEAN,
   cwd : {"keep", "new"}]

ASSUME RolloutConstants ==
  /\ MoveAsks \in [Movers -> SUBSET Asks] /\ FilenameThread \in [Rollouts -> RolloutThreads]
  /\ MaxLines \in Nat \ {0} /\ MaxStamp \in Nat \ {0} /\ MoveCrashes \in Nat

IdleMover ==
  LET nothing == FirstLine(NoThread, "from")
  IN [step |-> "idle", ask |-> CHOOSE a \in UNION {MoveAsks[m] : m \in Movers} : TRUE,
      rollout |-> CHOOSE r \in Rollouts : TRUE, size |-> 0,
      seen |-> nothing, text |-> nothing, backup |-> <<0, 0>>]

RolloutInit ==
  /\ \E there \in SUBSET Rollouts, old \in BOOLEAN :
       /\ sessions =
            [home \in Homes |->
               [r \in (IF home = "from" THEN Rollouts ELSE there) |->
                  FirstLine(IF old /\ home = "from" THEN NoThread ELSE FilenameThread[r], home)]]
       /\ ownRollout =
            [r \in there |-> [content |-> FirstLine(FilenameThread[r], "to"), late |-> FALSE]]
  /\ rolloutCopies = <<>> /\ stamp = 1 /\ moveCrashes = 0
  /\ mover = [m \in Movers |-> IdleMover]

----------------------------------------------------------------------------
Of(m) == mover[m].rollout
Target(r) == sessions["to"][r]
SourceOf(m) == sessions["from"][Of(m)]
InTarget(r) == r \in DOMAIN sessions["to"]

Goes(m, from, to) ==
  mover[m].step = from /\ mover' = [mover EXCEPT ![m].step = to]
With(files, path, content) ==
  [p \in DOMAIN files \cup {path} |-> IF p = path THEN content ELSE files[p]]
WritesTarget(r, content) ==
  sessions' = [sessions EXCEPT !["to"] = With(@, r, content)]
WritesBackup(m, content) ==
  rolloutCopies' = With(rolloutCopies, <<Of(m), mover[m].backup>>, content)
RolloutsKept == UNCHANGED <<sessions, rolloutCopies>>
Alone == UNCHANGED <<stamp, moveCrashes, ownRollout>>

(* Rollouts whose session_meta names the thread go before those that have  *)
(* none and are only named like it.                                        *)
locateThreadRollout(home, thread) ==
  LET files == DOMAIN sessions[home]
      parsedMatches == {r \in files : sessions[home][r].thread = thread}
      filenameMatches ==
        {r \in files : sessions[home][r].thread = NoThread /\ FilenameThread[r] = thread}
  IN IF parsedMatches # {} THEN parsedMatches ELSE filenameMatches

(* What is found when it is one; of a file without a place nothing is.     *)
inspectThreadRollout(ask) ==
  IF ask.find = "thread" THEN locateThreadRollout("from", ask.thread)
  ELSE {r \in {ask.rollout} : ask.placed}

Ask(m, ask) ==
  /\ mover[m].step = "idle"
  /\ mover' = [mover EXCEPT ![m].step = "find", ![m].ask = ask]
  /\ RolloutsKept /\ Alone

(* Source and target must not be the same file.                            *)
Find(m) ==
  /\ mover[m].step = "find"
  /\ LET ask == mover[m].ask
         found == inspectThreadRollout(ask)
     IN mover' =
          IF Cardinality(found) # 1 \/ (ask.copies /\ ask.target = "from")
          THEN [mover EXCEPT ![m].step = "failed"]
          ELSE [mover EXCEPT ![m].step = IF ask.copies THEN "stat" ELSE "done",
                             ![m].rollout = CHOOSE r \in found : TRUE]
  /\ RolloutsKept /\ Alone

StatSource(m) ==
  /\ mover[m].step = "stat"
  /\ mover' = [mover EXCEPT ![m].step = "hash", ![m].size = SourceOf(m).lines]
  /\ RolloutsKept /\ Alone

HashSource(m) ==
  /\ mover[m].step = "hash"
  /\ mover' = [mover EXCEPT ![m].step = "look", ![m].seen = SourceOf(m)]
  /\ RolloutsKept /\ Alone

(* Mutant of afterLook: what is replaced has no backup.                    *)
replacesWithoutBackup(exists, replace) ==
  IF exists /\ ~replace THEN "failed" ELSE "read"

(* What comes after the look: only "--replace" touches a file that exists. *)
afterLook(exists, replace) ==
  IF ~exists THEN "read" ELSE IF replace THEN "name" ELSE "failed"

Look(m) ==
  /\ Goes(m, "look", afterLook(InTarget(Of(m)), mover[m].ask.replace))
  /\ RolloutsKept /\ Alone

(* The first name of this instant that no file has yet; it is the instant  *)
(* of the last name or a later one.                                        *)
nextBackupPath(r, now) ==
  LET free(i) == <<r, <<now, i>>>> \notin DOMAIN rolloutCopies
  IN {<<now, i>> : i \in {n \in 1..Cardinality(Movers) + 1 : free(n) /\ \A k \in 1..n - 1 : ~free(k)}}

NameBackup(m) ==
  /\ mover[m].step = "name"
  /\ \E now \in stamp..MaxStamp : \E name \in nextBackupPath(Of(m), now) :
       /\ mover' = [mover EXCEPT ![m].step = "backup", ![m].backup = name]
       /\ stamp' = now
  /\ RolloutsKept /\ UNCHANGED <<moveCrashes, ownRollout>>

BeginBackup(m) ==
  /\ Goes(m, "backup", "backingUp")
  /\ WritesBackup(m, Prefix(Target(Of(m)), 0))
  /\ UNCHANGED sessions /\ Alone

EndBackup(m) ==
  /\ Goes(m, "backingUp", "read")
  /\ WritesBackup(m, Target(Of(m)))
  /\ UNCHANGED sessions /\ Alone

(* The text of a rewritten rollout is read before its file is opened; it   *)
(* must have a session_meta record.                                        *)
rewriteRolloutCwd(content, cwd) == [content EXCEPT !.cwd = cwd]

ReadSource(m) ==
  /\ mover[m].step = "read"
  /\ mover' =
       IF mover[m].ask.cwd = "keep" THEN [mover EXCEPT ![m].step = "write"]
       ELSE IF SourceOf(m).thread = NoThread THEN [mover EXCEPT ![m].step = "failed"]
       ELSE [mover EXCEPT ![m].step = "write", ![m].text = rewriteRolloutCwd(SourceOf(m), "new")]
  /\ RolloutsKept /\ Alone

BeginWrite(m) ==
  /\ Goes(m, "write", "writing")
  /\ WritesTarget(Of(m), Prefix(SourceOf(m), 0))
  /\ UNCHANGED rolloutCopies /\ Alone

Text(m) == IF mover[m].ask.cwd = "keep" THEN SourceOf(m) ELSE mover[m].text

EndWrite(m) ==
  /\ Goes(m, "writing", "statCopy")
  /\ WritesTarget(Of(m), Text(m))
  /\ UNCHANGED rolloutCopies /\ Alone

(* A preserved copy must have the size and the hash that the source had at *)
(* first, a rewritten one only its new directory.                          *)
StatCopy(m) ==
  LET differs == mover[m].ask.cwd = "keep" /\ Target(Of(m)).lines # mover[m].size
  IN /\ Goes(m, "statCopy", IF differs THEN "failed" ELSE "hashCopy")
     /\ RolloutsKept /\ Alone

HashCopy(m) ==
  LET differs == mover[m].ask.cwd = "keep" /\ Target(Of(m)) # mover[m].seen
  IN /\ Goes(m, "hashCopy", IF differs THEN "failed" ELSE "meta")
     /\ RolloutsKept /\ Alone

ReadMeta(m) ==
  LET rewritten == Target(Of(m)).thread # NoThread /\ Target(Of(m)).cwd = "new"
  IN /\ Goes(m, "meta", IF mover[m].ask.cwd = "keep" \/ rewritten THEN "done" ELSE "failed")
     /\ RolloutsKept /\ Alone

----------------------------------------------------------------------------
(* A process dies: what it was writing keeps some of its lines.  One that   *)
(* dies elsewhere leaves everything as it is and takes no more steps.       *)
CrashMover(m) ==
  /\ mover[m].step \in {"writing", "backingUp"} /\ moveCrashes < MoveCrashes
  /\ mover' = [mover EXCEPT ![m].step = "crashed"]
  /\ moveCrashes' = moveCrashes + 1
  /\ \/ mover[m].step = "writing"
        /\ \E n \in 0..Text(m).lines : WritesTarget(Of(m), Prefix(Text(m), n))
        /\ UNCHANGED rolloutCopies
     \/ mover[m].step = "backingUp"
        /\ \E n \in 0..Target(Of(m)).lines : WritesBackup(m, Prefix(Target(Of(m)), n))
        /\ UNCHANGED sessions
  /\ UNCHANGED <<stamp, ownRollout>>

SourceGrows(r) ==
  /\ sessions["from"][r].lines < MaxLines
  /\ sessions' = [sessions EXCEPT !["from"][r].lines = @ + 1]
  /\ UNCHANGED <<rolloutCopies, stamp, mover, moveCrashes, ownRollout>>

(* Too late is a line that comes once somebody copies the file away.       *)
Replacing(m, r) ==
  Of(m) = r /\ mover[m].step \in {"name", "backup", "backingUp", "read", "write", "writing"}

TargetGrows(r) ==
  /\ InTarget(r) /\ r \in DOMAIN ownRollout
  /\ Target(r) = ownRollout[r].content /\ Target(r).lines < MaxLines
  /\ WritesTarget(r, [Target(r) EXCEPT !.lines = @ + 1])
  /\ ownRollout' = [ownRollout EXCEPT ![r] =
       [content |-> Target(r)', late |-> \E m \in Movers : Replacing(m, r)]]
  /\ UNCHANGED <<rolloutCopies, stamp, mover, moveCrashes>>

MoverStep(m) ==
  \/ \E ask \in MoveAsks[m] : Ask(m, ask)
  \/ Find(m) \/ StatSource(m) \/ HashSource(m) \/ Look(m)
  \/ NameBackup(m) \/ BeginBackup(m) \/ EndBackup(m) \/ ReadSource(m)
  \/ BeginWrite(m) \/ EndWrite(m) \/ StatCopy(m) \/ HashCopy(m) \/ ReadMeta(m)
  \/ CrashMover(m)

RolloutNext ==
  \/ \E m \in Movers : MoverStep(m)
  \/ \E r \in Rollouts : SourceGrows(r) \/ TargetGrows(r)

RolloutSpec == RolloutInit /\ [][RolloutNext]_rolloutVars

----------------------------------------------------------------------------
(* The last a thread of the target home wrote to its rollout is in the     *)
(* file or in one of its backups, whoever replaces it, dies on the way or  *)
(* tries again: except a line that came while it was replaced, and except  *)
(* when two took one name for their backups, which only two that look for  *)
(* it in the same instant do.                                              *)
SharedName(r) ==
  \E m, other \in Movers :
    /\ m # other /\ Of(m) = r /\ Of(other) = r
    /\ mover[m].backup = mover[other].backup /\ mover[m].backup # <<0, 0>>

ReplacedRolloutSurvives ==
  \A r \in DOMAIN ownRollout :
    \/ Target(r) = ownRollout[r].content
    \/ \E b \in DOMAIN rolloutCopies : b[1] = r /\ rolloutCopies[b] = ownRollout[r].content
    \/ ownRollout[r].late \/ SharedName(r)
=============================================================================
