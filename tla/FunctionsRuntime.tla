--------------------------- MODULE FunctionsRuntime ---------------------------
(***************************************************************************)
(* The functions of a workbench: every list, describe and call finds the   *)
(* manifest, reads its time, and imports it under a URL with that time, so *)
(* that the module cache of the process serves what it has already loaded. *)
(* Users write, restore and remove manifests.                              *)
(***************************************************************************)
EXTENDS Naturals, FiniteSets

CONSTANTS
  FunctionCalls,  \* the calls, of one process
  FunctionFiles,      \* those of 1..3 that users write
  FunctionsText,         \* [1..ManifestEdits -> what a version of a manifest is]
  ManifestEdits, MaxMtime   \* bounds

(* A text defines the function that is asked for, or defines others, or    *)
(* has a definition that is not valid.                                     *)
Texts == {"defines", "other", "invalid"}

ASSUME FunctionsConstants ==
  /\ FunctionFiles \subseteq 1..3 /\ ManifestEdits \in Nat /\ MaxMtime \in Nat
  /\ FunctionsText \in [1..ManifestEdits -> Texts]

VARIABLES
  functionFiles,   \* .codex/functions.ts, .js and .mjs
  moduleCache, \* the modules that are loaded, by file and time
  functionCall,\* the calls
  manifestEdits,
  mtimesOf     \* history: every version of a manifest with its time

functionsVars == <<functionFiles, moduleCache, functionCall, manifestEdits, mtimesOf>>

FunctionExtensions == <<"ts", "js", "mjs">>
NoManifest == [version |-> 0, mtime |-> 0]
NotLoaded == 0

IdleCall == [step |-> "idle", method |-> "list", file |-> 0, mtime |-> 0,
             module |-> NotLoaded, seen |-> {}]

FunctionsInit ==
  /\ functionFiles = [e \in 1..3 |-> NoManifest]
  /\ moduleCache = [e \in 1..3 |-> [t \in 0..MaxMtime |-> NotLoaded]]
  /\ functionCall = [c \in FunctionCalls |-> IdleCall]
  /\ manifestEdits = 0 /\ mtimesOf = {}

Written(e) == functionFiles[e].version # 0
FunctionFilesKept == UNCHANGED <<functionFiles, manifestEdits, mtimesOf>>
CallIs(c, call) == functionCall' = [functionCall EXCEPT ![c] = call]
CallFails(c) == CallIs(c, [IdleCall EXCEPT !.step = "failed"])

(* The versions that are current while a call is under way.                *)
CurrentFunctions == {<<e, functionFiles[e].version>> : e \in {x \in 1..3 : Written(x)}}

----------------------------------------------------------------------------
AskFunctions(c) ==
  /\ functionCall[c].step = "idle"
  /\ \E method \in {"list", "describe", "call"} :
       CallIs(c, [functionCall[c] EXCEPT !.step = "find", !.method = method, !.seen = CurrentFunctions])
  /\ UNCHANGED moduleCache /\ FunctionFilesKept

(* The first that exists; without any the functions are none.              *)
findFunctionsManifest ==
  IF \E e \in 1..3 : Written(e) THEN CHOOSE e \in 1..3 : Written(e) /\ \A x \in 1..e - 1 : ~Written(x)
  ELSE 0

FindManifest(c) ==
  /\ functionCall[c].step = "find"
  /\ CallIs(c, IF findFunctionsManifest = 0
               THEN [functionCall[c] EXCEPT !.step = "loaded"]
               ELSE [functionCall[c] EXCEPT !.step = "stat", !.file = findFunctionsManifest])
  /\ UNCHANGED moduleCache /\ FunctionFilesKept

(* Mutant of versionOf: the time of a manifest is not part of its URL.     *)
unversioned(mtime) == 0
versionOf(mtime) == mtime

StatManifest(c) ==
  /\ functionCall[c].step = "stat"
  /\ LET file == functionCall[c].file
         version == versionOf(functionFiles[file].mtime)
     IN IF Written(file) THEN CallIs(c, [functionCall[c] EXCEPT !.step = "import", !.mtime = version])
        ELSE CallFails(c)
  /\ UNCHANGED moduleCache /\ FunctionFilesKept

(* A module is evaluated once for a URL; tsImport may do so anew.           *)
importFunctionsModule(c) ==
  LET file == functionCall[c].file
      cached == moduleCache[file][functionCall[c].mtime]
      imports == cached = NotLoaded \/ FunctionExtensions[file] = "ts"
      serves(module) == CallIs(c, [functionCall[c] EXCEPT !.step = "loaded", !.module = module])
  IN /\ functionCall[c].step = "import"
     /\ \/ cached # NotLoaded /\ serves(cached) /\ UNCHANGED moduleCache
        \/ /\ imports /\ Written(file)
           /\ serves(functionFiles[file].version)
           /\ moduleCache' =
                [moduleCache EXCEPT ![file][functionCall[c].mtime] = functionFiles[file].version]
        \/ /\ imports /\ ~Written(file)
           /\ CallFails(c) /\ UNCHANGED moduleCache
     /\ FunctionFilesKept

(* One definition that is not valid invalidates them all; a function that  *)
(* is asked for must be there, and what it returns must be JSON.           *)
validateFunctionsManifest(c) ==
  LET call == functionCall[c]
      text == IF call.file = 0 THEN "other" ELSE FunctionsText[call.module]
      found == text = "defines" \/ (call.method = "list" /\ text = "other")
  IN /\ call.step = "loaded"
     /\ \/ found /\ CallIs(c, [call EXCEPT !.step = "done"])
        \/ (~found \/ call.method = "call") /\ CallFails(c)
     /\ UNCHANGED moduleCache /\ FunctionFilesKept

----------------------------------------------------------------------------
(* A user writes a manifest, whose time is later unless it is restored or  *)
(* written within the same tick, or removes it.                            *)
FunctionEdit == manifestEdits < ManifestEdits /\ manifestEdits' = manifestEdits + 1
SeenByCalls == [c \in FunctionCalls |->
           IF functionCall[c].step \in {"idle", "done", "failed"} THEN functionCall[c]
           ELSE [functionCall[c] EXCEPT !.seen = @ \cup
                   {<<e, functionFiles'[e].version>> : e \in {x \in 1..3 : functionFiles'[x].version # 0}}]]

WriteFunctions(e) ==
  /\ FunctionEdit
  /\ \E mtime \in 1..MaxMtime :
       /\ functionFiles' = [functionFiles EXCEPT ![e] = [version |-> manifestEdits', mtime |-> mtime]]
       /\ mtimesOf' = mtimesOf \cup {<<e, manifestEdits', mtime>>}
  /\ functionCall' = SeenByCalls
  /\ UNCHANGED moduleCache

RemoveFunctions(e) ==
  /\ Written(e)
  /\ functionFiles' = [functionFiles EXCEPT ![e] = NoManifest]
  /\ UNCHANGED <<moduleCache, functionCall, manifestEdits, mtimesOf>>

FunctionsNext ==
  \/ \E c \in FunctionCalls :
       \/ AskFunctions(c) \/ FindManifest(c) \/ StatManifest(c) \/ importFunctionsModule(c)
       \/ validateFunctionsManifest(c)
  \/ \E e \in FunctionFiles : WriteFunctions(e) \/ RemoveFunctions(e)

FunctionsSpec == FunctionsInit /\ [][FunctionsNext]_functionsVars

----------------------------------------------------------------------------
(* A call runs a version of its manifest that was there at some time of    *)
(* the call, however calls, edits and removals interleave, unless two of   *)
(* the manifest's versions had the same time.                              *)
TimeIsUnique(file) ==
  \A one, other \in mtimesOf : one[1] = file /\ other[1] = file /\ one[3] = other[3] => one = other

CallsRunTheCurrentManifest ==
  \A c \in FunctionCalls :
    functionCall[c].step = "done" /\ functionCall[c].file # 0 /\ TimeIsUnique(functionCall[c].file)
      => <<functionCall[c].file, functionCall[c].module>> \in functionCall[c].seen
=============================================================================
