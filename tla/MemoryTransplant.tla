--------------------------- MODULE MemoryTransplant ---------------------------
(***************************************************************************)
(* "memories transplant": plan what to do with every memory file of one    *)
(* Codex home in another, then do it: add, overwrite or merge by Codex.    *)
(* The library's copyCodexMemoryArtifacts copies without a plan.  Nothing  *)
(* is locked, Codex rewrites the memories of the home meanwhile, and files *)
(* are copied in place.                                                    *)
(***************************************************************************)
EXTENDS Naturals

CONSTANTS
  Transplants,   \* processes
  TransplantAsks,\* [Transplants -> SUBSET MemoryOptions]
  MemoryFiles,   \* numbers, in the order of their names
  SourceFiles,   \* [Transplants -> SUBSET MemoryFiles]: those of its source
  FileKind,      \* [MemoryFiles -> "mergeable" | "artifact" | "excluded"]
  MaxMemoryStamp, OwnWrites   \* bounds

VARIABLES
  memories,      \* the destination: [some MemoryFiles -> content]
  memoryCopies,  \* the backups beside them, by file and time
  memoryStamp,   \* the time, part of a backup's name
  transplant,    \* the processes
  ownWrites,
  ownMemory      \* history: what the destination's own Codex wrote last

memoryVars == <<memories, memoryCopies, memoryStamp, transplant, ownWrites, ownMemory>>

MemoryOptions ==
  [planned : BOOLEAN, apply : BOOLEAN, overwrite : BOOLEAN, merge : BOOLEAN, backup : BOOLEAN]

ASSUME MemoryConstants ==
  /\ MemoryFiles \subseteq Nat /\ SourceFiles \in [Transplants -> SUBSET MemoryFiles]
  /\ TransplantAsks \in [Transplants -> SUBSET MemoryOptions]
  /\ MaxMemoryStamp \in Nat \ {0} /\ OwnWrites \in Nat

(* A text is somebody's, and "torn" while it is being copied, and for good *)
(* if the process dies, which is one that takes no more steps.             *)
OwnText(n) == <<"own", n>>
Source == <<"source", 0>>
Merged == <<"merged", 0>>
Torn == <<"torn", 0>>

IdleTransplant ==
  [step |-> "idle", ask |-> CHOOSE o \in MemoryOptions : TRUE, todo |-> {}, plan |-> <<>>,
   file |-> 0, stamps |-> <<>>]

MemoryInit ==
  /\ \E there \in SUBSET MemoryFiles :
       /\ memories = [f \in there |-> OwnText(0)]
       /\ ownMemory = [f \in there |-> [text |-> OwnText(0), late |-> FALSE]]
  /\ memoryCopies = <<>> /\ memoryStamp = 1
  /\ transplant = [t \in Transplants |-> IdleTransplant]
  /\ ownWrites = 0

----------------------------------------------------------------------------
Moves(t, from, to) ==
  transplant[t].step = from /\ transplant' = [transplant EXCEPT ![t].step = to]
AskOf(t) == transplant[t].ask
FileOf(t) == transplant[t].file
ActionOf(t) == transplant[t].plan[FileOf(t)]

Put(map, key, value) ==
  [k \in DOMAIN map \cup {key} |-> IF k = key THEN value ELSE map[k]]
WritesMemory(f, text) == memories' = Put(memories, f, text)
WritesCopy(t, text) ==
  memoryCopies' = Put(memoryCopies, <<FileOf(t), transplant[t].stamps[FileOf(t)]>>, text)
MemoryKept == UNCHANGED <<memories, memoryCopies>>
ElseKept == UNCHANGED <<memoryStamp, ownWrites, ownMemory>>

(* Skipped directories are not listed, excluded files listed and skipped.  *)
shouldSkipMemoryFile(f) == FileKind[f] = "excluded"
listMemoryFiles(t) == {f \in SourceFiles[t] : ~shouldSkipMemoryFile(f)}
listCodexMemoryArtifacts(t) == {f \in SourceFiles[t] : FileKind[f] = "artifact"}

(* What is planned for a file depends on whether it exists, when it is     *)
(* looked at; a conflict that is only a "copy" is left alone.              *)
planned(ask, f, exists) ==
  CASE ~exists -> "add"
    [] exists /\ ask.merge /\ FileKind[f] = "mergeable" -> "merge"
    [] exists /\ ~(ask.merge /\ FileKind[f] = "mergeable") /\ ask.overwrite -> "overwrite"
    [] OTHER -> "copy"

Order(t, ask) ==
  /\ transplant[t].step = "idle"
  /\ transplant' = [transplant EXCEPT
       ![t].ask = ask, ![t].step = IF ask.planned THEN "plan" ELSE "next",
       ![t].todo = IF ask.planned THEN listMemoryFiles(t) ELSE {},
       ![t].plan = IF ask.planned THEN <<>> ELSE [f \in listCodexMemoryArtifacts(t) |-> "add"]]
  /\ MemoryKept /\ ElseKept

FirstOf(files) == {f \in files : \A g \in files : f <= g}

(* The backup has its name when its file is planned, free or not.          *)
PlanFile(t) ==
  /\ transplant[t].step = "plan"
  /\ \E f \in FirstOf(transplant[t].todo), now \in memoryStamp..MaxMemoryStamp :
       /\ transplant' = [transplant EXCEPT ![t].todo = @ \ {f}, ![t].stamps = Put(@, f, now),
            ![t].plan = Put(@, f, planned(AskOf(t), f, f \in DOMAIN memories))]
       /\ memoryStamp' = now
  /\ MemoryKept /\ UNCHANGED <<ownWrites, ownMemory>>

EndPlan(t) ==
  /\ transplant[t].todo = {}
  /\ Moves(t, "plan", IF AskOf(t).apply THEN "next" ELSE "done")
  /\ MemoryKept /\ ElseKept

(* Additions first, then the conflicts that are to be resolved.            *)
Left(t) ==
  LET plan == transplant[t].plan
      adds == {f \in DOMAIN plan : plan[f] = "add"}
      conflicts == {f \in DOMAIN plan : plan[f] \in {"overwrite", "merge"}}
  IN IF adds # {} THEN adds ELSE conflicts

(* Mutant of firstStep: only what is overwritten has a backup.             *)
backsUpOverwritten(ask, action) ==
  CASE action = "add" -> "copy"
    [] action = "merge" -> "read"
    [] action = "overwrite" -> IF ask.backup THEN "backup" ELSE "copy"

firstStep(ask, action) ==
  CASE action = "add" -> "copy"
    [] action # "add" /\ ask.backup -> "backup"
    [] action # "add" /\ ~ask.backup -> IF action = "merge" THEN "read" ELSE "copy"

NextFile(t) ==
  /\ transplant[t].step = "next"
  /\ \/ Left(t) = {} /\ transplant' = [transplant EXCEPT ![t].step = "done"]
     \/ \E f \in FirstOf(Left(t)) :
          transplant' = [transplant EXCEPT
            ![t].file = f, ![t].step = firstStep(AskOf(t), transplant[t].plan[f])]
  /\ MemoryKept /\ ElseKept

BeginCopyAway(t) ==
  /\ Moves(t, "backup", "backingUp")
  /\ WritesCopy(t, Torn)
  /\ UNCHANGED memories /\ ElseKept

EndCopyAway(t) ==
  /\ Moves(t, "backingUp", IF ActionOf(t) = "merge" THEN "read" ELSE "copy")
  /\ WritesCopy(t, memories[FileOf(t)])
  /\ UNCHANGED memories /\ ElseKept

(* Both files are read, and "codex exec" runs for as long as it likes.     *)
StartMerge(t) ==
  /\ Moves(t, "read", "merging")
  /\ MemoryKept /\ ElseKept

EndMerge(t) ==
  /\ \E step \in {"copy", "failed"} : Moves(t, "merging", step)
  /\ MemoryKept /\ ElseKept

BeginCopy(t) ==
  /\ Moves(t, "copy", "copying")
  /\ WritesMemory(FileOf(t), Torn)
  /\ UNCHANGED memoryCopies /\ ElseKept

EndCopy(t) ==
  /\ transplant[t].step = "copying"
  /\ transplant' = [transplant EXCEPT ![t].step = "next", ![t].plan[FileOf(t)] = "handled"]
  /\ WritesMemory(FileOf(t), IF ActionOf(t) = "merge" THEN Merged ELSE Source)
  /\ UNCHANGED memoryCopies /\ ElseKept

----------------------------------------------------------------------------
(* Codex writes a memory file of the home.  It is too late for a file that *)
(* is planned as an addition, or that is copied away already.              *)
Late(f) ==
  \E t \in Transplants :
    \/ f \in DOMAIN transplant[t].plan /\ transplant[t].plan[f] = "add"
    \/ FileOf(t) = f /\ transplant[t].step \in {"backingUp", "read", "merging", "copy", "copying"}

CodexWrites(f) ==
  /\ ownWrites < OwnWrites /\ ownWrites' = ownWrites + 1
  /\ WritesMemory(f, OwnText(ownWrites'))
  /\ ownMemory' = Put(ownMemory, f, [text |-> OwnText(ownWrites'), late |-> Late(f)])
  /\ UNCHANGED <<memoryCopies, memoryStamp, transplant>>

TransplantStep(t) ==
  \/ \E ask \in TransplantAsks[t] : Order(t, ask)
  \/ PlanFile(t) \/ EndPlan(t) \/ NextFile(t) \/ BeginCopyAway(t) \/ EndCopyAway(t)
  \/ StartMerge(t) \/ EndMerge(t) \/ BeginCopy(t) \/ EndCopy(t)

MemoryNext ==
  \/ \E t \in Transplants : TransplantStep(t)
  \/ \E f \in MemoryFiles : CodexWrites(f)

MemorySpec == MemoryInit /\ [][MemoryNext]_memoryVars

----------------------------------------------------------------------------
(* The last text that Codex wrote to a memory file of the destination is   *)
(* in the file or in one of its backups, whichever transplants follow each *)
(* other or overlap, die on the way or fail: except a text that came after *)
(* it was planned as missing or copied away, one that was replaced without *)
(* backup as asked, and one whose backups have the same name because two   *)
(* planned it in the same instant.                                         *)
SameInstant(f) ==
  \E t, other \in Transplants :
    /\ t # other
    /\ f \in DOMAIN transplant[t].stamps \cap DOMAIN transplant[other].stamps
    /\ transplant[t].stamps[f] = transplant[other].stamps[f]

WithoutBackup(f) ==
  \E t \in Transplants :
    /\ f \in DOMAIN transplant[t].plan
    /\ \/ ~transplant[t].ask.planned
       \/ ~transplant[t].ask.backup /\ transplant[t].plan[f] \in {"overwrite", "merge", "handled"}

ReplacedMemorySurvives ==
  \A f \in DOMAIN ownMemory :
    \/ memories[f] = ownMemory[f].text
    \/ \E b \in DOMAIN memoryCopies : b[1] = f /\ memoryCopies[b] = ownMemory[f].text
    \/ ownMemory[f].late \/ SameInstant(f) \/ WithoutBackup(f)
=============================================================================
