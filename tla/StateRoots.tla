------------------------------ MODULE StateRoots ------------------------------
(***************************************************************************)
(* Where the workbench and the feed keep their state: each command looks   *)
(* upwards from its directory for a root, and keeps its state in .codex    *)
(* there; the directories that it makes are there for the next one.        *)
(***************************************************************************)
EXTENDS Naturals, FiniteSets, FiniteSetsExt

CONSTANT Depth   \* the directories are 1..Depth, each within the one before

ASSUME DepthIsPositive == Depth \in Nat \ {0}

VARIABLES
  dotCodex,    \* the directories that have a .codex
  toml,        \* [Tools -> those with the tool's configuration in it]
  usedFrom     \* history: the root a tool last wrote to from a directory,
               \* until something is done on purpose that may change it

rootVars == <<dotCodex, toml, usedFrom>>

RootDirs == 1..Depth
Tools == {"workbench", "feed"}
Unused == 0

RootInit ==
  /\ dotCodex \in {{}, {1}}
  /\ toml = [tool \in Tools |-> {}]
  /\ usedFrom = [tool \in Tools |-> [d \in RootDirs |-> Unused]]

----------------------------------------------------------------------------
Above(start) == 1..start

(* Mutant of nearestDotCodex: the outermost wins.                          *)
outermostDotCodex(start) ==
  LET found == Above(start) \cap dotCodex IN IF found = {} THEN start ELSE Min(found)

nearestDotCodex(start) ==
  LET found == Above(start) \cap dotCodex IN IF found = {} THEN start ELSE Max(found)

(* The nearest configuration, however far, then the nearest .codex, then   *)
(* the directory itself.                                                   *)
discoverWorkbenchRoot(start) ==
  LET configured == Above(start) \cap toml["workbench"]
  IN IF configured # {} THEN Max(configured) ELSE nearestDotCodex(start)
discoverFeedRoot(start) ==
  LET configured == Above(start) \cap toml["feed"]
  IN IF configured # {} THEN Max(configured) ELSE nearestDotCodex(start)
discover(tool, start) ==
  IF tool = "feed" THEN discoverFeedRoot(start) ELSE discoverWorkbenchRoot(start)

(* What is chosen from d and the directories within it may be another.     *)
Moved(d) ==
  [tool \in Tools |-> [s \in RootDirs |-> IF d <= s THEN Unused ELSE usedFrom[tool][s]]]

(* ensureStateDirs and its kin make the directories, .codex with them.     *)
EnsureStateDirs(root) ==
  /\ dotCodex' = dotCodex \cup {root}
  /\ UNCHANGED toml

(* A command that finds its root itself.                                   *)
CommandFrom(tool, start) ==
  /\ EnsureStateDirs(discover(tool, start))
  /\ usedFrom' = [usedFrom EXCEPT ![tool][start] = discover(tool, start)]

(* A command that is told its root.                                        *)
CommandAt(root) ==
  /\ EnsureStateDirs(root)
  /\ usedFrom' = IF root \in dotCodex THEN usedFrom ELSE Moved(root)

(* "actions init", in the root that is found or told: its workbench.toml,  *)
(* unless there is one.                                                    *)
scaffoldActionsWorkbench(root) ==
  /\ dotCodex' = dotCodex \cup {root}
  /\ toml' = [toml EXCEPT !["workbench"] = @ \cup {root}]
  /\ usedFrom' = Moved(root)

Scaffold(start) ==
  \/ scaffoldActionsWorkbench(discoverWorkbenchRoot(start))
  \/ scaffoldActionsWorkbench(start)

(* A user writes a configuration, or removes it.                           *)
Configure(tool, d) ==
  /\ dotCodex' = dotCodex \cup {d}
  /\ toml' = [toml EXCEPT ![tool] = IF d \in @ THEN @ \ {d} ELSE @ \cup {d}]
  /\ usedFrom' = Moved(d)

RootNext ==
  \/ \E d \in RootDirs : CommandAt(d) \/ \E tool \in Tools : CommandFrom(tool, d)
  \/ \E d \in RootDirs : Scaffold(d)
  \/ \E tool \in Tools, d \in RootDirs : Configure(tool, d)

RootSpec == RootInit /\ [][RootNext]_rootVars

----------------------------------------------------------------------------
(* Whatever commands are run in the directories above, below or beside, a  *)
(* tool finds from a directory the root to which it wrote from there,      *)
(* unless a configuration was put or removed, or a state was put elsewhere *)
(* as told, at or above that directory.                                    *)
StateIsFoundAgain ==
  \A tool \in Tools, start \in RootDirs :
    usedFrom[tool][start] # Unused => discover(tool, start) = usedFrom[tool][start]
=============================================================================
