--------------------------- MODULE WorkflowCatalog ---------------------------
(***************************************************************************)
(* Which workflow a name stands for: the manifests found under the roots   *)
(* of a workbench, read in order, as people write and remove them.  Every  *)
(* state is one workbench and one request to run a workflow on it.         *)
(***************************************************************************)
EXTENDS Naturals

CONSTANTS
  Roots,         \* how many roots: .codex/workflows, workflows
  Dirs,          \* how many directories in a root, in the order of their paths
  WorkflowNames  \* the names a workflow may have; a directory's name is its number

ASSUME CatalogConstants == Roots \in Nat /\ Dirs \in Nat /\ 1 .. Dirs \subseteq WorkflowNames

VARIABLES
  manifests,   \* what is at every place: 0 nothing, 1 an invalid manifest, or one
  target       \* the name that is asked for

catalogVars == <<manifests, target>>

Places == 1 .. Roots * Dirs
DirectoryOf(place) == ((place - 1) % Dirs) + 1
Absent == [kind |-> "absent", name |-> 0]
Invalid == [kind |-> "invalid", name |-> 0]
Undeclared == 0     \* without a name a workflow has that of its directory
Manifests == {Absent, Invalid} \cup
             {[kind |-> "valid", name |-> n] : n \in WorkflowNames \cup {Undeclared}}

NameAt(place) ==
  IF manifests[place].name = Undeclared THEN DirectoryOf(place) ELSE manifests[place].name

(* Mutant of Loaded: a later manifest takes the place of an earlier one.   *)
LoadedLast(list, place) ==
  {earlier \in list : NameAt(earlier) # NameAt(place)} \cup {place}

Loaded(list, place) ==
  IF \E earlier \in list : NameAt(earlier) = NameAt(place) THEN list ELSE list \cup {place}

(* What is loaded from the first n places: workflowManifestPaths leaves out *)
(* the empty ones, root after root.                                        *)
loaded[n \in 0 .. Roots * Dirs] ==
  IF n = 0 THEN {}
  ELSE IF manifests[n].kind = "absent" THEN loaded[n - 1]
  ELSE Loaded(loaded[n - 1], n)

(* One manifest that cannot be loaded ends the listing of all.             *)
listWorkflows ==
  IF \E place \in Places : manifests[place].kind = "invalid"
  THEN [failed |-> TRUE, list |-> {}]
  ELSE [failed |-> FALSE, list |-> loaded[Roots * Dirs]]

(* The list is sorted by names before it is searched, and the sort leaves  *)
(* those of one name in order: the first one loaded is found.              *)
NoWorkflow == 0
resolveWorkflowTarget(name) ==
  LET found == {place \in listWorkflows.list : NameAt(place) = name}
  IN IF found = {} THEN NoWorkflow ELSE CHOOSE p \in found : \A q \in found : p <= q

CatalogInit == manifests = [place \in Places |-> Absent] /\ target = 1

(* A manifest is written or removed, and another name is asked for.        *)
WriteManifest(place, manifest) ==
  /\ manifests' = [manifests EXCEPT ![place] = manifest]
  /\ UNCHANGED target

AskFor(name) == target' = name /\ UNCHANGED manifests

CatalogNext ==
  \/ \E place \in Places, manifest \in Manifests : WriteManifest(place, manifest)
  \/ \E name \in WorkflowNames : AskFor(name)

CatalogSpec == CatalogInit /\ [][CatalogNext]_catalogVars

----------------------------------------------------------------------------
(***************************************************************************)
(* A name resolves to the first manifest that has it, declared or by its   *)
(* directory, the roots in order and the directories of a root in theirs,  *)
(* and to none only if none has it; a target that resolves is listed once. *)
(***************************************************************************)
FirstManifestWins ==
  LET having == {p \in Places : manifests[p].kind = "valid" /\ NameAt(p) = target}
  IN ~listWorkflows.failed =>
       resolveWorkflowTarget(target) =
         IF having = {} THEN NoWorkflow ELSE CHOOSE p \in having : \A q \in having : p <= q

=============================================================================
