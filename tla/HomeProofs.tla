----------------------------- MODULE HomeProofs -----------------------------
(***************************************************************************)
(* Proofs about the files a user keeps: where a tool finds its state, and  *)
(* what installing a kit or moving rollouts and memories from home to home *)
(* may replace.                                                            *)
(***************************************************************************)
EXTENDS StateRoots, KitInstall, RolloutTransplant, MemoryTransplant, FiniteSetTheorems, WellFoundedInduction, TLAPS

-----------------------------------------------------------------------------
(***************************************************************************)
(* The state of a tool, for directories of any depth.                      *)
(***************************************************************************)
(* A set of directories that is not empty has an innermost one, which is   *)
(* what a search upwards finds.                                            *)
LEMMA InnermostExists ==
  ASSUME NEW S, S \subseteq RootDirs, S # {}
  PROVE  \E x \in S : \A y \in S : x >= y
PROOF
  <1> DEFINE Gaps == {n \in Nat : \E x \in S : n = Depth - x}
  <1>1. S \subseteq Nat /\ Depth \in Nat /\ \A x \in S : x <= Depth
    BY DepthIsPositive DEF RootDirs
  <1>2. Gaps \subseteq Nat /\ Gaps # {}
    <2>1. PICK x \in S : TRUE
      OBVIOUS
    <2>2. Depth - x \in Gaps
      BY <2>1, <1>1
    <2> QED BY <2>2
  <1>3. PICK n \in Gaps : \A m \in Gaps : ~(<<m, n>> \in OpToRel(<, Nat))
    <2> HIDE DEF Gaps
    <2> QED BY <1>2, WFMin, NatLessThanWellFounded, Zenon
  <1>4. \A m \in Gaps : ~(m < n)
    <2> SUFFICES ASSUME NEW m \in Gaps, m < n PROVE FALSE
      OBVIOUS
    <2>1. m \in Nat /\ n \in Nat
      BY <1>3
    <2>2. <<m, n>> \in OpToRel(<, Nat)
      BY <2>1 DEF OpToRel
    <2> QED BY <2>2, <1>3
  <1>5. PICK x \in S : n = Depth - x
    BY <1>3
  <1>6. \A y \in S : x >= y
    <2> SUFFICES ASSUME NEW y \in S PROVE x >= y
      OBVIOUS
    <2>1. Depth - y \in Gaps
      BY <1>1
    <2> QED BY <2>1, <1>4, <1>5, <1>1
  <1> QED BY <1>6

LEMMA MaxIsInnermost ==
  ASSUME NEW S, S \subseteq RootDirs, S # {}
  PROVE  Max(S) \in S /\ \A y \in S : Max(S) >= y
BY InnermostExists DEF Max

----------------------------------------------------------------------------
(* A configuration lies beside a .codex; and a root that was used has one, *)
(* lies at or above the directory it was used from, and is found from it.  *)
RootTypeOK ==
  /\ dotCodex \subseteq RootDirs
  /\ toml \in [Tools -> SUBSET RootDirs]
  /\ usedFrom \in [Tools -> [RootDirs -> {Unused} \cup RootDirs]]

ConfiguredIsState == \A tool \in Tools : toml[tool] \subseteq dotCodex

UsedIsState ==
  \A tool \in Tools, start \in RootDirs : usedFrom[tool][start] # Unused =>
    usedFrom[tool][start] \in dotCodex \cap Above(start)

RootInv == RootTypeOK /\ ConfiguredIsState /\ UsedIsState /\ StateIsFoundAgain

(* What a tool finds depends on what lies at or above its directory.       *)
LEMMA FoundIsAbove ==
  ASSUME RootTypeOK, NEW tool \in Tools, NEW start \in RootDirs
  PROVE  discover(tool, start) \in RootDirs \cap Above(start)
PROOF
  <1>1. start \in Above(start) /\ Above(start) \subseteq RootDirs
    BY DepthIsPositive DEF Above, RootDirs
  <1>2. nearestDotCodex(start) \in Above(start)
    BY <1>1, MaxIsInnermost DEF nearestDotCodex
  <1>3. ASSUME NEW t \in Tools, Above(start) \cap toml[t] # {}
        PROVE  Max(Above(start) \cap toml[t]) \in Above(start)
    BY <1>1, <1>3, MaxIsInnermost
  <1>4. "workbench" \in Tools /\ "feed" \in Tools
    BY DEF Tools
  <1> QED BY <1>1, <1>2, <1>3, <1>4 DEF discover, discoverWorkbenchRoot, discoverFeedRoot

LEMMA FoundDependsOnAbove ==
  ASSUME NEW tool \in Tools, NEW start \in RootDirs,
         Above(start) \cap dotCodex' = Above(start) \cap dotCodex,
         \A t \in Tools : Above(start) \cap toml'[t] = Above(start) \cap toml[t]
  PROVE  discover(tool, start)' = discover(tool, start)
PROOF
  <1>1. nearestDotCodex(start)' = nearestDotCodex(start)
    BY DEF nearestDotCodex, Above
  <1>2. "workbench" \in Tools /\ "feed" \in Tools
    BY DEF Tools
  <1>3. /\ Above(start) \cap toml'["workbench"] = Above(start) \cap toml["workbench"]
        /\ Above(start) \cap toml'["feed"] = Above(start) \cap toml["feed"]
    BY <1>2
  <1> QED BY <1>1, <1>3 DEF discover, discoverWorkbenchRoot, discoverFeedRoot, Above

(* A step that changes what lies in one directory, and takes what was used *)
(* from there and below as moved.                                          *)
LEMMA MovedKeepsInv ==
  ASSUME RootInv, NEW d \in RootDirs,
         dotCodex' = dotCodex \cup {d},
         toml' \in [Tools -> SUBSET RootDirs],
         \A tool \in Tools : toml'[tool] \subseteq toml[tool] \cup {d}
                            /\ toml[tool] \subseteq toml'[tool] \cup {d},
         usedFrom' = Moved(d)
  PROVE  RootInv'
PROOF
  <1> USE DEF RootInv
  <1>1. RootTypeOK'
    BY DEF RootTypeOK, Moved, Unused
  <1>2. ConfiguredIsState'
    BY DEF ConfiguredIsState
  <1>3. \A tool \in Tools, start \in RootDirs : usedFrom'[tool][start] # Unused =>
          /\ ~(d <= start)
          /\ usedFrom'[tool][start] = usedFrom[tool][start]
    BY DEF Moved
  <1>4. UsedIsState'
    BY <1>3 DEF UsedIsState, Above
  <1>5. StateIsFoundAgain'
    <2> SUFFICES ASSUME NEW tool \in Tools, NEW start \in RootDirs, usedFrom'[tool][start] # Unused
                 PROVE  discover(tool, start)' = usedFrom'[tool][start]
      BY DEF StateIsFoundAgain
    <2>1. d \notin Above(start)
      BY <1>3 DEF Above, RootDirs
    <2>2. discover(tool, start)' = discover(tool, start)
      BY <2>1, FoundDependsOnAbove
    <2> QED BY <2>2, <1>3 DEF StateIsFoundAgain
  <1> QED BY <1>1, <1>2, <1>4, <1>5

(* A step that writes to a root that has a .codex, or that has none and    *)
(* none above it, moves nobody's root who has one.                         *)
LEMMA EnsureKeepsFound ==
  ASSUME RootInv, NEW root \in RootDirs, EnsureStateDirs(root),
         root \in dotCodex \/ Above(root) \cap dotCodex = {},
         NEW tool \in Tools, NEW start \in RootDirs,
         Above(start) \cap dotCodex # {}
  PROVE  discover(tool, start)' = discover(tool, start)
PROOF
  <1>1. CASE root \in dotCodex
    <2>1. dotCodex' = dotCodex /\ toml' = toml
      BY <1>1 DEF EnsureStateDirs
    <2> QED BY <2>1, FoundDependsOnAbove
  <1>2. CASE root \notin dotCodex
    <2> DEFINE found == Above(start) \cap dotCodex
    <2>1. found # {} /\ found \subseteq RootDirs
      BY DepthIsPositive DEF Above, RootDirs
    <2>2. \A x \in found : ~(x <= root)
      BY <1>2, <2>1 DEF Above, RootDirs
    <2>3. Max(found) \in found /\ \A y \in found : Max(found) >= y
      BY <2>1, MaxIsInnermost
    <2>4. (Above(start) \cap dotCodex') \subseteq found \cup {root}
      BY DEF EnsureStateDirs
    <2>5. found \subseteq Above(start) \cap dotCodex' /\ Above(start) \cap dotCodex' \subseteq RootDirs
      BY <2>1 DEF EnsureStateDirs, Above, RootDirs
    <2> DEFINE found2 == Above(start) \cap dotCodex'
    <2>6. Max(found2) \in found2 /\ \A y \in found2 : Max(found2) >= y
      BY <2>1, <2>5, MaxIsInnermost
    <2>7. Max(found2) = Max(found)
      <3>1. Max(found2) >= Max(found) /\ Max(found) > root
        BY <2>2, <2>3, <2>5, <2>6, <2>1 DEF RootDirs
      <3>2. Max(found2) # root
        BY <3>1, <2>1, <2>3 DEF RootDirs
      <3>3. Max(found2) \in found
        BY <3>2, <2>4, <2>6
      <3> QED BY <3>1, <3>3, <2>3, <2>1 DEF RootDirs
    <2>8. nearestDotCodex(start)' = nearestDotCodex(start)
      <3>1. found2 # {}
        BY <2>1, <2>5
      <3> QED BY <3>1, <2>1, <2>7 DEF nearestDotCodex, Above
    <2>9. toml' = toml
      BY DEF EnsureStateDirs
    <2> QED BY <2>8, <2>9 DEF discover, discoverWorkbenchRoot, discoverFeedRoot, Above
  <1> QED BY <1>1, <1>2

(* The root that a tool finds has a .codex, or there is none to be found.  *)
LEMMA FoundOrOwn ==
  ASSUME RootInv, NEW tool \in Tools, NEW start \in RootDirs
  PROVE  \/ discover(tool, start) \in dotCodex
         \/ discover(tool, start) = start /\ Above(start) \cap dotCodex = {}
PROOF
  <1> USE DEF RootInv
  <1>1. Above(start) \subseteq RootDirs
    BY DepthIsPositive DEF Above, RootDirs
  <1>2. ASSUME NEW t \in Tools, Above(start) \cap toml[t] # {}
        PROVE  Max(Above(start) \cap toml[t]) \in dotCodex
    BY <1>1, <1>2, MaxIsInnermost DEF ConfiguredIsState
  <1>3. \/ nearestDotCodex(start) \in dotCodex
        \/ nearestDotCodex(start) = start /\ Above(start) \cap dotCodex = {}
    BY <1>1, MaxIsInnermost DEF nearestDotCodex
  <1>4. "workbench" \in Tools /\ "feed" \in Tools
    BY DEF Tools
  <1> QED BY <1>2, <1>3, <1>4 DEF discover, discoverWorkbenchRoot, discoverFeedRoot

(* A root that is made where there was none to be found is found.          *)
LEMMA OwnIsFound ==
  ASSUME RootInv, NEW tool \in Tools, NEW start \in RootDirs,
         Above(start) \cap dotCodex = {}, EnsureStateDirs(start)
  PROVE  discover(tool, start)' = start
PROOF
  <1> USE DEF RootInv
  <1>1. \A t \in Tools : Above(start) \cap toml'[t] = {}
    BY DEF EnsureStateDirs, ConfiguredIsState
  <1>2. Above(start) \cap dotCodex' = {start}
    BY DepthIsPositive DEF EnsureStateDirs, Above, RootDirs
  <1>3. {start} \subseteq RootDirs /\ {start} # {}
    OBVIOUS
  <1>4. Max({start}) = start
    BY <1>3, MaxIsInnermost
  <1>5. nearestDotCodex(start)' = start
    BY <1>2, <1>4 DEF nearestDotCodex, Above
  <1>6. "workbench" \in Tools /\ "feed" \in Tools
    BY DEF Tools
  <1>7. Above(start) \cap toml'["workbench"] = {} /\ Above(start) \cap toml'["feed"] = {}
    BY <1>1, <1>6
  <1> QED BY <1>5, <1>7 DEF discover, discoverWorkbenchRoot, discoverFeedRoot, Above

----------------------------------------------------------------------------
LEMMA CommandFromKeepsInv ==
  ASSUME RootInv, NEW tool \in Tools, NEW start \in RootDirs, CommandFrom(tool, start)
  PROVE  RootInv'
PROOF
  <1> USE DEF RootInv
  <1> DEFINE root == discover(tool, start)
  <1>1. root \in RootDirs /\ root \in Above(start)
    BY FoundIsAbove
  <1>2. EnsureStateDirs(root) /\ usedFrom' = [usedFrom EXCEPT ![tool][start] = root]
    BY DEF CommandFrom
  <1> HIDE DEF root
  <1>3. RootTypeOK'
    BY <1>1, <1>2 DEF RootTypeOK, EnsureStateDirs
  <1>4. ConfiguredIsState'
    BY <1>2 DEF ConfiguredIsState, EnsureStateDirs
  <1>5. \A t \in Tools, s \in RootDirs :
          usedFrom'[t][s] = IF t = tool /\ s = start THEN root ELSE usedFrom[t][s]
    BY <1>2 DEF RootTypeOK
  <1>6. UsedIsState'
    BY <1>1, <1>2, <1>5 DEF UsedIsState, EnsureStateDirs, Above
  <1>7. \/ root \in dotCodex
        \/ root = start /\ Above(start) \cap dotCodex = {}
    BY FoundOrOwn DEF root
  <1>8. StateIsFoundAgain'
    <2> SUFFICES ASSUME NEW t \in Tools, NEW s \in RootDirs, usedFrom'[t][s] # Unused
                 PROVE  discover(t, s)' = usedFrom'[t][s]
      BY DEF StateIsFoundAgain
    <2>1. CASE t = tool /\ s = start
      <3>1. CASE root \in dotCodex
        <4>1. dotCodex' = dotCodex /\ toml' = toml
          BY <3>1, <1>2 DEF EnsureStateDirs
        <4>2. discover(t, s)' = discover(t, s)
          BY <4>1, FoundDependsOnAbove
        <4> QED BY <4>2, <2>1, <1>5 DEF root
      <3>2. CASE root = start /\ Above(start) \cap dotCodex = {}
        <4>1. discover(t, s)' = start
          BY <3>2, <2>1, <1>2, OwnIsFound
        <4> QED BY <4>1, <3>2, <2>1, <1>5
      <3> QED BY <3>1, <3>2, <1>7
    <2>2. CASE ~(t = tool /\ s = start)
      <3>1. usedFrom'[t][s] = usedFrom[t][s]
        BY <2>2, <1>5
      <3>2. Above(s) \cap dotCodex # {}
        BY <3>1 DEF UsedIsState
      <3>3. discover(t, s)' = discover(t, s)
        BY <3>2, <1>1, <1>2, <1>7, EnsureKeepsFound
      <3> QED BY <3>1, <3>3 DEF StateIsFoundAgain
    <2> QED BY <2>1, <2>2
  <1> QED BY <1>3, <1>4, <1>6, <1>8

LEMMA CommandAtKeepsInv ==
  ASSUME RootInv, NEW root \in RootDirs, CommandAt(root)
  PROVE  RootInv'
PROOF
  <1> USE DEF RootInv
  <1>1. CASE root \in dotCodex
    <2>1. dotCodex' = dotCodex /\ toml' = toml /\ usedFrom' = usedFrom
      BY <1>1 DEF CommandAt, EnsureStateDirs
    <2>2. \A t \in Tools, s \in RootDirs : discover(t, s)' = discover(t, s)
      BY <2>1, FoundDependsOnAbove
    <2> QED BY <2>1, <2>2
            DEF RootTypeOK, ConfiguredIsState, UsedIsState, StateIsFoundAgain, Above
  <1>2. CASE root \notin dotCodex
    <2>1. dotCodex' = dotCodex \cup {root} /\ toml' = toml /\ usedFrom' = Moved(root)
      BY <1>2 DEF CommandAt, EnsureStateDirs
    <2> QED BY <2>1, MovedKeepsInv DEF RootTypeOK
  <1> QED BY <1>1, <1>2

LEMMA ScaffoldKeepsInv ==
  ASSUME RootInv, NEW root \in RootDirs, scaffoldActionsWorkbench(root)
  PROVE  RootInv'
PROOF
  <1>1. toml' \in [Tools -> SUBSET RootDirs]
    BY DEF scaffoldActionsWorkbench, RootInv, RootTypeOK
  <1>2. \A tool \in Tools : toml'[tool] \subseteq toml[tool] \cup {root}
                            /\ toml[tool] \subseteq toml'[tool] \cup {root}
    BY DEF scaffoldActionsWorkbench, RootInv, RootTypeOK
  <1> QED BY <1>1, <1>2, MovedKeepsInv DEF scaffoldActionsWorkbench

LEMMA ConfigureKeepsInv ==
  ASSUME RootInv, NEW tool \in Tools, NEW d \in RootDirs, Configure(tool, d)
  PROVE  RootInv'
PROOF
  <1>1. toml' \in [Tools -> SUBSET RootDirs]
    BY DEF Configure, RootInv, RootTypeOK
  <1>2. \A t \in Tools : toml'[t] \subseteq toml[t] \cup {d} /\ toml[t] \subseteq toml'[t] \cup {d}
    BY DEF Configure, RootInv, RootTypeOK
  <1> QED BY <1>1, <1>2, MovedKeepsInv DEF Configure

(* The inductive invariant holds whatever the commands run and wherever.   *)
LEMMA RootInvariance == RootSpec => []RootInv
PROOF
  <1>1. RootInit => RootInv
    BY DepthIsPositive DEF RootInit, RootInv, RootTypeOK, ConfiguredIsState, UsedIsState,
       StateIsFoundAgain, RootDirs, Unused
  <1>2. RootInv /\ [RootNext]_rootVars => RootInv'
    <2> SUFFICES ASSUME RootInv, [RootNext]_rootVars PROVE RootInv'
      OBVIOUS
    <2>1. ASSUME NEW d \in RootDirs, CommandAt(d) PROVE RootInv'
      BY <2>1, CommandAtKeepsInv
    <2>2. ASSUME NEW tool \in Tools, NEW d \in RootDirs, CommandFrom(tool, d) PROVE RootInv'
      BY <2>2, CommandFromKeepsInv
    <2>3. ASSUME NEW d \in RootDirs, Scaffold(d) PROVE RootInv'
      <3>1. "workbench" \in Tools
        BY DEF Tools
      <3>2. discover("workbench", d) \in RootDirs
        BY <3>1, FoundIsAbove DEF RootInv
      <3>3. discoverWorkbenchRoot(d) \in RootDirs
        BY <3>2 DEF discover
      <3> QED BY <2>3, <3>3, ScaffoldKeepsInv DEF Scaffold
    <2>4. ASSUME NEW tool \in Tools, NEW d \in RootDirs, Configure(tool, d) PROVE RootInv'
      BY <2>4, ConfigureKeepsInv
    <2>5. CASE UNCHANGED rootVars
      <3>1. dotCodex' = dotCodex /\ toml' = toml /\ usedFrom' = usedFrom
        BY <2>5 DEF rootVars
      <3>2. \A t \in Tools, s \in RootDirs : discover(t, s)' = discover(t, s)
        BY <3>1, FoundDependsOnAbove
      <3> QED BY <3>1, <3>2
              DEF RootInv, RootTypeOK, ConfiguredIsState, UsedIsState, StateIsFoundAgain, Above
    <2> QED BY <2>1, <2>2, <2>3, <2>4, <2>5 DEF RootNext
  <1> QED BY <1>1, <1>2, PTL DEF RootSpec

(* A tool finds the state that it wrote, in a tree of any depth.           *)
THEOREM StateFound == RootSpec => []StateIsFoundAgain
PROOF
  <1>1. RootInv => StateIsFoundAgain
    BY DEF RootInv
  <1> QED BY <1>1, RootInvariance, PTL

-----------------------------------------------------------------------------
(***************************************************************************)
(* Installing kits, for any installers that may die anywhere, any items    *)
(* and edits.                                                              *)
(***************************************************************************)
Entries == {ItemOf(p, k).content : p \in Installers, k \in KitKeys} \cup {NoEntry, Own, Foreign}
Contents == {"missing", "partial", "mixed", "kit", "retired", "user"} \X (Entries \cup Nat)
Present == Contents \ {Missing}
Plans == {"none", "skip", "conflict", "add", "overwrite", "unchanged"}
AtItem == {"backup", "remove", "copy", "fill"}
Registering == {"market", "marketWrite", "lock", "lockOpen", "write", "done"}
AnyInstaller ==
  [pc : {"idle", "apply"} \cup AtItem \cup Registering,
   plan : [KitKeys -> Plans], todo : SUBSET KitKeys, cur : KitKeys \cup {<<"none", "none">>},
   seen : [KitKeys -> Entries], lock : [KitKeys -> Entries], stamp : Stamps \cup {NoStamp}]
AnyFile == [text : {"whole", "empty", "torn"}, entries : [KitKeys -> Entries]]

(* What an installer is to do fits to where it is.                         *)
Orderly(i) ==
  /\ i.pc = "idle" => i.plan = [k \in KitKeys |-> "none"]
  /\ i.pc \in AtItem => i.cur \in KitKeys \ i.todo /\ i.plan[i.cur] \in {"add", "overwrite"}
  /\ i.pc = "backup" => i.plan[i.cur] = "overwrite"
  /\ i.pc \in {"idle"} \cup Registering => i.todo = {}
  /\ \A k \in i.todo : i.plan[k] \in {"add", "overwrite"}
  /\ \A k \in KitKeys : i.plan[k] = "overwrite" => i.stamp \in Stamps

KitShape ==
  /\ installer \in [Installers -> AnyInstaller]
  /\ dest \in [KitKeys -> Contents]
  /\ backups \in [KitKeys -> [Stamps -> Contents]]
  /\ market \in AnyFile /\ lockFile \in AnyFile /\ kitEdits \in Nat
  /\ replaced \subseteq KitKeys \X Present
  /\ \A p \in Installers : Orderly(installer[p])

(* What a user wrote at a key has a backup or came while somebody          *)
(* installed: so wherever something was to be added, and wherever          *)
(* somebody has begun to replace what is there.                            *)
Safe(k) == dest[k][1] = "user" => Held(k, dest[k])
ReplacesItem(p, k) ==
  \/ installer[p].plan[k] = "add"
  \/ installer[p].pc \in {"remove", "copy", "fill"} /\ installer[p].cur = k
SafeInv ==
  /\ KitShape /\ ReplacedIsBackedUp
  /\ \A p \in Installers, k \in KitKeys : ReplacesItem(p, k) => Safe(k)

(* A plan that shares its stamp with none backs up every key once.         *)
StampInv ==
  /\ shared \subseteq stamped
  /\ \A s \in Stamps \ stamped, k \in KitKeys : backups[k][s] = Missing
  /\ \A p \in Installers, s \in Stamps \ shared : installer[p].stamp = s =>
       /\ s \in stamped
       /\ \A q \in Installers \ {p} : installer[q].stamp # s
       /\ \A k \in KitKeys : k \in installer[p].todo \/ (installer[p].pc = "backup" /\ installer[p].cur = k)
            => backups[k][s] = Missing

LEMMA KitsStart == KitInit => SafeInv /\ StampInv
  <1> SUFFICES ASSUME KitInit PROVE SafeInv /\ StampInv
    OBVIOUS
  <1>1. {NoEntry, Own, Foreign} \subseteq Entries
    BY DEF Entries
  <1>2. dest \in [KitKeys -> Contents]
    BY DEF KitInit, Contents, UserContent, Missing
  <1>3. IdleInstaller \in AnyInstaller
    BY <1>1 DEF IdleInstaller, AnyInstaller, Plans
  <1>4. market \in AnyFile /\ lockFile \in AnyFile
    BY <1>1 DEF KitInit, AnyFile, IntactFile
  <1>5. KitShape
    <2>1. Orderly(IdleInstaller)
      BY DEF Orderly, IdleInstaller, AtItem, Registering
    <2>2. Missing \in Contents
      BY <1>1 DEF Contents, Missing
    <2> QED BY <1>2, <1>3, <1>4, <2>1, <2>2 DEF KitInit, KitShape
  <1>6. \A p \in Installers, k \in KitKeys : ~ReplacesItem(p, k)
    BY DEF KitInit, ReplacesItem, IdleInstaller
  <1>7. StampInv
    BY KitConstants DEF StampInv, KitInit, IdleInstaller, NoStamp
  <1>8. ReplacedIsBackedUp
    BY DEF KitInit, ReplacedIsBackedUp
  <1> QED BY <1>5, <1>6, <1>7, <1>8 DEF SafeInv

(* What is held stays so, unless a plan of its own stamp replaces it.      *)
HeldStays == \A k \in KitKeys : \A c : c # Missing /\ Held(k, c) => Held(k, c)'

LEMMA HeldWhenQuiet ==
  ASSUME UNCHANGED backups, lateEdits \subseteq lateEdits', shared \subseteq shared'
  PROVE  HeldStays
  BY DEF HeldStays, Held

LEMMA SafeStays ==
  ASSUME HeldStays, \A k \in KitKeys : dest'[k] = dest[k] \/ dest'[k][1] # "user"
  PROVE  \A k \in KitKeys : Safe(k) => Safe(k)'
  BY DEF HeldStays, Safe, Missing

LEMMA ReplacedStays ==
  ASSUME KitShape, ReplacedIsBackedUp, HeldStays, NEW k \in KitKeys,
         replaced' \subseteq replaced \cup (IF dest[k][1] = "user" THEN {<<k, dest[k]>>} ELSE {}),
         replaced' # replaced => Safe(k)
  PROVE  ReplacedIsBackedUp'
  <1> SUFFICES ASSUME NEW taken \in replaced' PROVE Held(taken[1], taken[2])'
    BY DEF ReplacedIsBackedUp
  <1>1. CASE taken \in replaced
    <2>1. taken[1] \in KitKeys /\ taken[2] # Missing /\ Held(taken[1], taken[2])
      BY <1>1 DEF ReplacedIsBackedUp, KitShape, Present
    <2> QED BY <2>1 DEF HeldStays
  <1>2. CASE taken \notin replaced
    <2>1. dest[k][1] = "user" /\ taken = <<k, dest[k]>> /\ Safe(k)
      BY <1>2
    <2>2. Held(k, dest[k]) /\ taken[1] = k /\ taken[2] = dest[k] /\ dest[k] # Missing
      BY <2>1 DEF Safe, Missing
    <2> QED BY <2>2 DEF HeldStays
  <1> QED BY <1>1, <1>2

(* One process takes a step and the others only learn that it did.         *)
LEMMA OneInstalls ==
  ASSUME KitShape, NEW p \in Installers, NEW from, NEW to \in AnyInstaller, InstallStep(p, from, to)
  PROVE  /\ installer[p].pc = from /\ installer' \in [Installers -> AnyInstaller] /\ installer'[p] = to
         /\ \A q \in Installers \ {p} : installer'[q] = installer[q]
         /\ UNCHANGED <<kitEdits, lateEdits>>
         /\ \A q \in Installers \ {p} : q \notin disturbed' => q \notin disturbed /\ installer[q].pc = "idle"
         /\ p \notin disturbed' => p \notin disturbed \/ from = "idle"
  BY DEF InstallStep, KitShape

IsPlan(p, plan) ==
  plan = [k \in KitKeys |-> IF \E item \in discoverKit(p) : KeyOf(item) = k
                            THEN PlannedAction(p, ItemOf(p, k)) ELSE "none"]

LEMMA PlanOf ==
  ASSUME KitShape, NEW p \in Installers, buildKitAddPlan(p)
  PROVE  \E to \in AnyInstaller :
           /\ InstallStep(p, "idle", to) /\ to.pc = "apply"
           /\ IsPlan(p, to.plan) /\ to.plan \in [KitKeys -> Plans]
           /\ to.todo = {k \in KitKeys : to.plan[k] \in {"add", "overwrite"}}
           /\ to.seen = lockFile.entries
           /\ Orderly(to)
           /\ stamped' = stamped \cup ({to.stamp} \ {NoStamp})
           /\ shared' = shared \cup ({to.stamp} \cap stamped)
  <1> DEFINE plan == [k \in KitKeys |-> IF \E item \in discoverKit(p) : KeyOf(item) = k
                                        THEN PlannedAction(p, ItemOf(p, k)) ELSE "none"]
             backsUp == \E k \in KitKeys : plan[k] = "overwrite"
  <1>1. \A item : PlannedAction(p, item) \in Plans
    BY DEF PlannedAction, Plans
  <1>2. plan \in [KitKeys -> Plans]
    BY <1>1 DEF Plans
  <1>3. IsPlan(p, plan)
    BY DEF IsPlan
  <1>4. PICK ms \in (IF backsUp THEN Stamps ELSE {NoStamp}) :
          /\ InstallStep(p, "idle", [IdleInstaller EXCEPT !.pc = "apply", !.plan = plan,
               !.todo = {k \in KitKeys : plan[k] \in {"add", "overwrite"}},
               !.seen = lockFile.entries, !.stamp = ms])
          /\ shared' = shared \cup ({ms} \cap stamped)
          /\ stamped' = IF backsUp THEN stamped \cup {ms} ELSE stamped
    BY DEF buildKitAddPlan
  <1> HIDE DEF plan
  <1>5. lockFile.entries \in [KitKeys -> Entries]
    BY DEF KitShape, AnyFile
  <1>6. NoEntry \in Entries
    BY DEF Entries
  <1> DEFINE to == [IdleInstaller EXCEPT !.pc = "apply", !.plan = plan,
                      !.todo = {k \in KitKeys : plan[k] \in {"add", "overwrite"}},
                      !.seen = lockFile.entries, !.stamp = ms]
  <1>7. to \in AnyInstaller
    BY <1>2, <1>5, <1>6 DEF IdleInstaller, AnyInstaller
  <1>8. to.pc = "apply" /\ to.plan = plan /\ to.todo = {k \in KitKeys : plan[k] \in {"add", "overwrite"}}
        /\ to.seen = lockFile.entries /\ to.stamp = ms
    BY DEF IdleInstaller
  <1>9. InstallStep(p, "idle", to)
    BY <1>4
  <1> HIDE DEF to
  <1>10. stamped' = stamped \cup ({ms} \ {NoStamp})
    BY <1>4, KitConstants DEF NoStamp
  <1>11. Orderly(to)
    BY <1>4, <1>8 DEF Orderly, AtItem, Registering
  <1> QED BY <1>2, <1>3, <1>4, <1>7, <1>8, <1>9, <1>10, <1>11

LEMMA PlannedAdd ==
  ASSUME KitShape, NEW p \in Installers, NEW plan, IsPlan(p, plan), NEW k \in KitKeys
  PROVE  /\ plan[k] = "add" => dest[k] = Missing
         /\ plan[k] = "unchanged" => Matches(k, dest[k], ItemOf(p, k).content)
  <1>1. CASE plan[k] \in {"add", "unchanged"}
    <2>1. PICK item \in discoverKit(p) : KeyOf(item) = k
      BY <1>1 DEF IsPlan
    <2>2. ItemOf(p, k) \in discoverKit(p) /\ KeyOf(ItemOf(p, k)) = k
      BY <2>1 DEF ItemOf
    <2>3. plan[k] = PlannedAction(p, ItemOf(p, k))
      BY <2>1 DEF IsPlan
    <2> HIDE DEF ItemOf
    <2> QED BY <1>1, <2>2, <2>3 DEF PlannedAction
  <1> QED BY <1>1

(* What a step leaves is of the right shape if what it writes is.          *)
LEMMA OneKeepsShape ==
  ASSUME KitShape, NEW p \in Installers, NEW from, NEW to \in AnyInstaller, InstallStep(p, from, to),
         Orderly(to),
         dest' \in [KitKeys -> Contents], backups' \in [KitKeys -> [Stamps -> Contents]],
         market' \in AnyFile, lockFile' \in AnyFile, replaced' \subseteq KitKeys \X Present
  PROVE  KitShape'
  <1>1. /\ installer' \in [Installers -> AnyInstaller] /\ installer'[p] = to
        /\ \A q \in Installers \ {p} : installer'[q] = installer[q]
        /\ kitEdits' \in Nat
    BY OneInstalls DEF KitShape
  <1>2. ASSUME NEW q \in Installers PROVE Orderly(installer'[q])
    BY <1>1 DEF KitShape
  <1> QED BY <1>1, <1>2 DEF KitShape, Orderly

(* The process that is ended or dies.                                      *)
LEMMA IdleIsOne ==
  /\ IdleInstaller \in AnyInstaller /\ IdleInstaller.pc = "idle" /\ IdleInstaller.todo = {}
  /\ IdleInstaller.plan = [k \in KitKeys |-> "none"] /\ IdleInstaller.stamp = NoStamp
  /\ Orderly(IdleInstaller)
  <1>1. NoEntry \in Entries
    BY DEF Entries
  <1> QED BY <1>1 DEF IdleInstaller, AnyInstaller, Plans, Orderly, AtItem, Registering

(* What goes on from an item or between the files: only the counter, the   *)
(* item at hand and what was read of a file change.                        *)
InstallGoes(p, from, to) ==
  /\ InstallStep(p, from, to) /\ to \in AnyInstaller /\ from # "idle"
  /\ to.plan = installer[p].plan /\ to.seen = installer[p].seen /\ to.stamp = installer[p].stamp
  /\ to.todo \subseteq installer[p].todo

TakesItem(p, to) ==
  /\ InstallGoes(p, "apply", to) /\ to.cur \in installer[p].todo /\ to.todo = installer[p].todo \ {to.cur}
  /\ to.pc = IF installer[p].plan[to.cur] = "overwrite" THEN "backup" ELSE "copy"

GoesOn(p, from, pc, to) ==
  /\ InstallGoes(p, from, to) /\ to.pc = pc /\ to.cur = installer[p].cur /\ to.todo = installer[p].todo

LEMMA TakesItemOf ==
  ASSUME KitShape, NEW p \in Installers, TakeItem(p)
  PROVE  \E to : TakesItem(p, to)
  <1>1. PICK k \in installer[p].todo :
          InstallStep(p, "apply", [installer[p] EXCEPT !.cur = k, !.todo = @ \ {k},
            !.pc = IF installer[p].plan[k] = "overwrite" THEN "backup" ELSE "copy"])
    BY DEF TakeItem
  <1>2. installer[p] \in AnyInstaller
    BY DEF KitShape
  <1> DEFINE to == [installer[p] EXCEPT !.cur = k, !.todo = @ \ {k},
                      !.pc = IF installer[p].plan[k] = "overwrite" THEN "backup" ELSE "copy"]
  <1>3. to \in AnyInstaller
    BY <1>2 DEF AnyInstaller, AtItem
  <1>4. TakesItem(p, to)
    BY <1>1, <1>2, <1>3 DEF TakesItem, InstallGoes, AnyInstaller
  <1> QED BY <1>4

LEMMA GoesOnTo ==
  ASSUME KitShape, NEW p \in Installers, NEW from,
         NEW pc \in {"apply"} \cup AtItem \cup Registering, from # "idle",
         NEW lock \in [KitKeys -> Entries],
         \/ InstallStep(p, from, [installer[p] EXCEPT !.pc = pc])
         \/ InstallStep(p, from, [installer[p] EXCEPT !.pc = pc, !.lock = lock])
  PROVE  \E to : /\ GoesOn(p, from, pc, to)
                 /\ \/ to.lock = lock
                    \/ to.lock = installer[p].lock /\ InstallStep(p, from, [installer[p] EXCEPT !.pc = pc])
  <1>2. installer[p] \in AnyInstaller
    BY DEF KitShape
  <1>3. CASE InstallStep(p, from, [installer[p] EXCEPT !.pc = pc])
    <2> DEFINE to == [installer[p] EXCEPT !.pc = pc]
    <2>1. to \in AnyInstaller
      BY <1>2 DEF AnyInstaller
    <2>2. GoesOn(p, from, pc, to) /\ to.lock = installer[p].lock
      BY <1>2, <1>3, <2>1 DEF GoesOn, InstallGoes, AnyInstaller
    <2> QED BY <2>2, <1>3
  <1>4. CASE InstallStep(p, from, [installer[p] EXCEPT !.pc = pc, !.lock = lock])
    <2> DEFINE to == [installer[p] EXCEPT !.pc = pc, !.lock = lock]
    <2>1. to \in AnyInstaller
      BY <1>2 DEF AnyInstaller
    <2>2. GoesOn(p, from, pc, to) /\ to.lock = lock
      BY <1>2, <1>4, <2>1 DEF GoesOn, InstallGoes, AnyInstaller
    <2> QED BY <2>2
  <1> QED BY <1>3, <1>4

----------------------------------------------------------------------------
(* What an install that nobody disturbed has done so far.                  *)
DoneAt(p, k) ==
  LET i == installer[p] content == ItemOf(p, k).content IN
  /\ i.plan[k] = "unchanged" => Matches(k, dest[k], content)
  /\ i.plan[k] = "add" /\ k \in i.todo => dest[k] = Missing
  /\ i.plan[k] \in {"add", "overwrite"} /\ k \notin i.todo
       => IF i.cur = k /\ i.pc \in AtItem
          THEN /\ i.pc = "copy" => dest[k] = Missing
               /\ i.pc = "fill" => dest[k] = Partial
          ELSE dest[k] = KitContent(content)
  /\ i.pc \in {"lock", "lockOpen", "write", "done"} /\ k \in Installable(p) /\ k[1] = "plugin"
       => market.entries[k] = Own
  /\ i.pc \in {"apply", "market", "marketWrite", "lock", "lockOpen"} \cup AtItem
       => lockFile.entries[k] = i.seen[k]
  /\ i.pc = "marketWrite" => market.text = "empty"
  /\ i.pc = "write" => lockFile.text = "empty"
  /\ i.pc \in {"lockOpen", "write"} => i.lock[k] = i.seen[k]
  /\ i.pc = "done" => lockFile.entries[k] = IF k \in Installable(p) THEN content ELSE i.seen[k]

DoneInv ==
  \A p \in Installers : installer[p].pc # "idle" /\ p \notin disturbed =>
    \A k \in KitKeys : DoneAt(p, k)

PlaceInv == SafeInv /\ DoneInv
KitInv == PlaceInv /\ StampInv

LEMMA OneKeepsInv ==
  ASSUME PlaceInv, NEW p \in Installers, NEW from, NEW to \in AnyInstaller, InstallStep(p, from, to),
         KitShape', ReplacedIsBackedUp',
         \A k \in KitKeys : Safe(k) => Safe(k)',
         \A k \in KitKeys :
           \/ to.plan[k] = "add"
           \/ to.pc \in {"remove", "copy", "fill"} /\ to.cur = k
           => Safe(k)',
         to.pc # "idle" => \A k \in KitKeys : (from # "idle" => DoneAt(p, k)) => DoneAt(p, k)'
  PROVE  PlaceInv'
  <1>1. /\ installer'[p] = to /\ installer[p].pc = from
        /\ \A q \in Installers \ {p} : installer'[q] = installer[q]
        /\ \A q \in Installers \ {p} : q \notin disturbed' => installer[q].pc = "idle"
        /\ p \notin disturbed' => p \notin disturbed \/ from = "idle"
    BY OneInstalls DEF PlaceInv, SafeInv
  <1>2. \A q \in Installers, k \in KitKeys : ReplacesItem(q, k)' => Safe(k)'
    <2> SUFFICES ASSUME NEW q \in Installers, NEW k \in KitKeys, ReplacesItem(q, k)' PROVE Safe(k)'
      OBVIOUS
    <2>1. CASE q = p
      BY <1>1, <2>1 DEF ReplacesItem
    <2>2. CASE q # p
      BY <1>1, <2>2 DEF ReplacesItem, PlaceInv, SafeInv
    <2> QED BY <2>1, <2>2
  <1>3. DoneInv'
    BY <1>1 DEF DoneInv, PlaceInv
  <1> QED BY <1>2, <1>3 DEF PlaceInv, SafeInv

(* Nothing is replaced or backed up.                                       *)
LEMMA QuietPlaces ==
  ASSUME PlaceInv, UNCHANGED <<placed, backups>>, lateEdits' = lateEdits, shared \subseteq shared'
  PROVE  /\ KitShape /\ ReplacedIsBackedUp'
         /\ dest' \in [KitKeys -> Contents] /\ backups' \in [KitKeys -> [Stamps -> Contents]]
         /\ replaced' \subseteq KitKeys \X Present
         /\ \A k \in KitKeys : Safe(k) => Safe(k)'
  <1>1. dest' = dest /\ replaced' = replaced /\ backups' = backups /\ KitShape /\ ReplacedIsBackedUp
    BY DEF placed, PlaceInv, SafeInv
  <1>2. HeldStays
    BY <1>1, HeldWhenQuiet
  <1>3. ReplacedIsBackedUp'
    <2> SUFFICES ASSUME NEW taken \in replaced PROVE Held(taken[1], taken[2])'
      BY <1>1 DEF ReplacedIsBackedUp
    <2>1. taken[1] \in KitKeys /\ taken[2] # Missing /\ Held(taken[1], taken[2])
      BY <1>1 DEF ReplacedIsBackedUp, KitShape, Present
    <2> QED BY <1>2, <2>1 DEF HeldStays
  <1> QED BY <1>1, <1>2, <1>3, SafeStays DEF KitShape

(* A process is ended or dies: what it leaves is as it was.                *)
LEMMA EndKeeps ==
  ASSUME PlaceInv, NEW p \in Installers, InstallEnds(p) \/ InstallDies(p)
  PROVE  PlaceInv'
  <1>1. InstallStep(p, installer[p].pc, IdleInstaller) /\ UNCHANGED <<placed, backups, shared, files>>
    BY DEF InstallEnds, InstallDies, saved
  <1>2. lateEdits' = lateEdits
    BY <1>1 DEF InstallStep
  <1>3. /\ KitShape /\ ReplacedIsBackedUp'
        /\ dest' \in [KitKeys -> Contents] /\ backups' \in [KitKeys -> [Stamps -> Contents]]
        /\ replaced' \subseteq KitKeys \X Present
        /\ \A k \in KitKeys : Safe(k) => Safe(k)'
    BY <1>1, <1>2, QuietPlaces
  <1>4. market' \in AnyFile /\ lockFile' \in AnyFile
    BY <1>1, <1>3 DEF files, KitShape
  <1>5. KitShape'
    BY <1>1, <1>3, <1>4, OneKeepsShape, IdleIsOne
  <1> QED BY <1>1, <1>3, <1>5, IdleIsOne, OneKeepsInv

LEMMA PlanKeeps ==
  ASSUME PlaceInv, NEW p \in Installers, buildKitAddPlan(p)
  PROVE  PlaceInv'
  <1>1. UNCHANGED <<placed, backups, files>> /\ KitShape
    BY DEF buildKitAddPlan, PlaceInv, SafeInv
  <1>2. PICK to \in AnyInstaller :
          /\ InstallStep(p, "idle", to) /\ to.pc = "apply"
          /\ IsPlan(p, to.plan) /\ to.plan \in [KitKeys -> Plans]
          /\ to.todo = {k \in KitKeys : to.plan[k] \in {"add", "overwrite"}}
          /\ to.seen = lockFile.entries
          /\ Orderly(to)
          /\ shared' = shared \cup ({to.stamp} \cap stamped)
    BY <1>1, PlanOf
  <1>3. lateEdits' = lateEdits /\ installer'[p] = to
    BY <1>1, <1>2, OneInstalls
  <1>4. /\ ReplacedIsBackedUp'
        /\ dest' \in [KitKeys -> Contents] /\ backups' \in [KitKeys -> [Stamps -> Contents]]
        /\ replaced' \subseteq KitKeys \X Present
        /\ \A k \in KitKeys : Safe(k) => Safe(k)'
    BY <1>1, <1>2, <1>3, QuietPlaces
  <1>5. market' \in AnyFile /\ lockFile' \in AnyFile
    BY <1>1 DEF files, KitShape
  <1>6. KitShape'
    BY <1>1, <1>2, <1>4, <1>5, OneKeepsShape
  <1>7. dest' = dest /\ lockFile' = lockFile
    BY <1>1 DEF placed, files
  <1>8. \A k \in KitKeys : to.plan[k] = "add" => Safe(k)'
    BY <1>1, <1>2, <1>7, PlannedAdd DEF Safe, Missing
  <1>9. \A k \in KitKeys : DoneAt(p, k)'
    BY <1>1, <1>2, <1>3, <1>7, PlannedAdd DEF DoneAt, AtItem
  <1> QED BY <1>2, <1>4, <1>6, <1>8, <1>9, OneKeepsInv

LEMMA TakeKeeps ==
  ASSUME PlaceInv, NEW p \in Installers, TakeItem(p)
  PROVE  PlaceInv'
  <1>1. UNCHANGED <<placed, backups, shared, files>> /\ KitShape
    BY DEF TakeItem, PlaceInv, SafeInv, saved
  <1>2. PICK to : TakesItem(p, to)
    BY <1>1, TakesItemOf
  <1>3. /\ InstallStep(p, "apply", to) /\ to \in AnyInstaller
        /\ to.plan = installer[p].plan /\ to.seen = installer[p].seen /\ to.stamp = installer[p].stamp
        /\ to.cur \in installer[p].todo /\ to.todo = installer[p].todo \ {to.cur}
        /\ to.pc = IF to.plan[to.cur] = "overwrite" THEN "backup" ELSE "copy"
    BY <1>2 DEF TakesItem, InstallGoes
  <1>4. /\ lateEdits' = lateEdits /\ installer'[p] = to /\ installer[p].pc = "apply"
        /\ installer[p] \in AnyInstaller /\ to.cur \in KitKeys
        /\ to.plan[to.cur] \in {"add", "overwrite"} /\ installer[p].todo \subseteq KitKeys
    <2>1. installer[p] \in AnyInstaller /\ installer[p].todo \subseteq KitKeys
      BY <1>1 DEF KitShape, AnyInstaller
    <2>2. \A k \in installer[p].todo : installer[p].plan[k] \in {"add", "overwrite"}
      BY <1>1 DEF KitShape, Orderly
    <2>3. lateEdits' = lateEdits /\ installer'[p] = to /\ installer[p].pc = "apply"
      BY <1>1, <1>3, OneInstalls
    <2> QED BY <1>3, <2>1, <2>2, <2>3
  <1>5. /\ ReplacedIsBackedUp'
        /\ dest' \in [KitKeys -> Contents] /\ backups' \in [KitKeys -> [Stamps -> Contents]]
        /\ replaced' \subseteq KitKeys \X Present
        /\ \A k \in KitKeys : Safe(k) => Safe(k)'
    BY <1>1, <1>4, QuietPlaces
  <1>6. KitShape'
    <2>1. Orderly(installer[p]) /\ market' \in AnyFile /\ lockFile' \in AnyFile
      BY <1>1 DEF files, KitShape
    <2>2. to.pc \in AtItem /\ to.pc \notin {"idle"} \cup Registering
      BY <1>3 DEF AtItem, Registering
    <2>3. Orderly(to)
      BY <1>3, <1>4, <2>1, <2>2 DEF Orderly
    <2> QED BY <1>1, <1>3, <1>5, <2>1, <2>3, OneKeepsShape
  <1>7. \A k \in KitKeys : to.plan[k] = "add" \/ (to.cur = k /\ to.pc \in {"remove", "copy", "fill"}) => Safe(k)'
    BY <1>3, <1>4, <1>5 DEF PlaceInv, SafeInv, ReplacesItem
  <1>8. \A k \in KitKeys : DoneAt(p, k) => DoneAt(p, k)'
    <2>1. dest' = dest /\ lockFile' = lockFile
      BY <1>1 DEF placed, files
    <2> QED BY <1>1, <1>3, <1>4, <2>1 DEF DoneAt, AtItem, KitShape, Orderly
  <1> QED BY <1>3, <1>4, <1>5, <1>6, <1>7, <1>8, OneKeepsInv

(* The process is between two steps: the plan goes on as it was.           *)
LEMMA GoesOnKeeps ==
  ASSUME PlaceInv, NEW p \in Installers, NEW from,
         NEW pc \in {"apply"} \cup AtItem \cup Registering,
         NEW to, GoesOn(p, from, pc, to), NEW c, c = installer[p].cur,
         dest' \in [KitKeys -> Contents], backups' \in [KitKeys -> [Stamps -> Contents]],
         replaced' \subseteq KitKeys \X Present,
         market' \in AnyFile, lockFile' \in AnyFile,
         pc \in AtItem => from \in AtItem /\ pc # "backup",
         pc \in Registering => installer[p].todo = {},
         ReplacedIsBackedUp',
         \A k \in KitKeys : Safe(k) => Safe(k)',
         pc \in {"remove", "copy", "fill"} => Safe(c)',
         \A k \in KitKeys : DoneAt(p, k) => DoneAt(p, k)'
  PROVE  PlaceInv'
  <1>1. /\ InstallStep(p, from, to) /\ to \in AnyInstaller /\ from # "idle" /\ to.pc = pc
        /\ to.plan = installer[p].plan /\ to.cur = installer[p].cur /\ to.todo = installer[p].todo
        /\ to.stamp = installer[p].stamp
    BY DEF GoesOn, InstallGoes
  <1>2. KitShape /\ installer[p].pc = from /\ Orderly(installer[p])
    BY <1>1, OneInstalls DEF PlaceInv, SafeInv, KitShape
  <1>3. pc # "idle"
    BY DEF AtItem, Registering
  <1>4. Orderly(to)
    <2>1. to.pc \in AtItem => to.cur \in KitKeys \ to.todo /\ to.plan[to.cur] \in {"add", "overwrite"}
      BY <1>1, <1>2 DEF Orderly
    <2>2. to.pc # "backup"
      BY <1>1 DEF AtItem, Registering
    <2>3. to.pc \in {"idle"} \cup Registering => to.todo = {}
      BY <1>1, <1>3
    <2>4. /\ \A k \in to.todo : to.plan[k] \in {"add", "overwrite"}
          /\ \A k \in KitKeys : to.plan[k] = "overwrite" => to.stamp \in Stamps
      BY <1>1, <1>2 DEF Orderly
    <2> QED BY <1>1, <1>3, <2>1, <2>2, <2>3, <2>4 DEF Orderly
  <1>5. KitShape'
    BY <1>1, <1>2, <1>4, OneKeepsShape
  <1>6. \A k \in KitKeys : to.plan[k] = "add" \/ (to.cur = k /\ to.pc \in {"remove", "copy", "fill"}) => Safe(k)'
    BY <1>1 DEF PlaceInv, SafeInv, ReplacesItem
  <1> QED BY <1>1, <1>5, <1>6, OneKeepsInv

LEMMA AtOneItem ==
  ASSUME PlaceInv, NEW p \in Installers, NEW from \in AtItem, NEW to, InstallStep(p, from, to)
  PROVE  /\ installer[p].cur \in KitKeys \ installer[p].todo /\ installer[p].pc = from
         /\ installer[p].plan[installer[p].cur] \in {"add", "overwrite"}
         /\ from = "backup" => installer[p].stamp \in Stamps
         /\ lateEdits' = lateEdits /\ KitShape /\ installer[p] \in AnyInstaller
  BY DEF PlaceInv, SafeInv, KitShape, InstallStep, Orderly

(* A backup holds what it is a copy of; only where plans share their stamp *)
(* there may be another in its place.                                      *)
LEMMA BackUpKeeps ==
  ASSUME KitInv, NEW p \in Installers, BackUpItem(p)
  PROVE  PlaceInv'
  <1>0. PICK c, s : c = installer[p].cur /\ s = installer[p].stamp
    OBVIOUS
  <1>1. /\ InstallStep(p, "backup", [installer[p] EXCEPT !.pc = "remove"])
        /\ dest[c] # Missing
        /\ backups' = [backups EXCEPT ![c][s] = IF @ = Missing THEN dest[c] ELSE Mixed]
        /\ UNCHANGED <<placed, stamped, shared, files>>
    BY <1>0 DEF BackUpItem
  <1>p. PlaceInv
    BY DEF KitInv
  <1>2. c \in KitKeys \ installer[p].todo /\ installer[p].pc = "backup" /\ lateEdits' = lateEdits /\ KitShape
        /\ installer[p] \in AnyInstaller /\ s \in Stamps /\ installer[p].stamp = s /\ installer[p].cur = c
    BY <1>0, <1>1, <1>p, AtOneItem DEF AtItem
  <1>3. PICK to : GoesOn(p, "backup", "remove", to)
    BY <1>1, <1>2, GoesOnTo DEF AtItem, AnyInstaller
  <1>4. installer'[p] = to
    BY <1>2, <1>3, OneInstalls DEF GoesOn, InstallGoes
  <1>5. /\ backups' \in [KitKeys -> [Stamps -> Contents]]
        /\ backups'[c][s] = IF backups[c][s] = Missing THEN dest[c] ELSE Mixed
        /\ \A k \in KitKeys, r \in Stamps : k # c \/ r # s => backups'[k][r] = backups[k][r]
    <2>1. Mixed \in Contents /\ dest[c] \in Contents
      BY <1>2 DEF Contents, Mixed, Entries, KitShape
    <2> QED BY <1>1, <1>2, <2>1 DEF KitShape
  <1>6. s \in shared \/ backups[c][s] = Missing
    BY <1>2 DEF KitInv, StampInv
  <1>7. backups'[c][s] # Missing /\ (s \in shared \/ backups'[c][s] = dest[c])
    BY <1>1, <1>5, <1>6 DEF Mixed, Missing
  <1>8. HeldStays
    <2> SUFFICES ASSUME NEW k \in KitKeys, NEW content, content # Missing, Held(k, content)
                 PROVE  Held(k, content)'
      BY DEF HeldStays
    <2>1. CASE content \in lateEdits
      BY <1>2, <2>1 DEF Held
    <2>2. ASSUME NEW r \in Stamps, backups[k][r] = content PROVE Held(k, content)'
      BY <1>1, <1>5, <1>6, <1>7, <2>2 DEF Held
    <2>3. ASSUME NEW r \in Stamps, r \in shared, backups[k][r] # Missing PROVE Held(k, content)'
      BY <1>1, <1>5, <1>7, <2>3 DEF Held
    <2> QED BY <2>1, <2>2, <2>3 DEF Held
  <1>9. /\ dest' = dest /\ replaced' = replaced /\ market' \in AnyFile /\ lockFile' \in AnyFile
        /\ lockFile' = lockFile /\ market' = market
        /\ dest' \in [KitKeys -> Contents] /\ replaced' \subseteq KitKeys \X Present
    BY <1>1, <1>2 DEF placed, files, KitShape
  <1>10. ReplacedIsBackedUp'
    BY <1>2, <1>8, <1>9, <1>p, ReplacedStays DEF PlaceInv, SafeInv
  <1>11. \A k \in KitKeys : Safe(k) => Safe(k)'
    BY <1>8, <1>9, SafeStays
  <1>12. Safe(c)'
    BY <1>1, <1>2, <1>5, <1>7, <1>9 DEF Safe, Held
  <1>13. \A k \in KitKeys : DoneAt(p, k) => DoneAt(p, k)'
    BY <1>1, <1>2, <1>3, <1>4, <1>9 DEF DoneAt, AtItem, GoesOn, InstallGoes, Installable
  <1>14. "remove" \in AtItem /\ "backup" \in AtItem /\ "remove" \notin Registering
    BY DEF AtItem, Registering
  <1> QED BY <1>2, <1>3, <1>5, <1>9, <1>10, <1>11, <1>12, <1>13, <1>14, <1>p, GoesOnKeeps

(* Removing and copying: what is at the item at hand is nobody's own.      *)
LEMMA ReplaceKeeps ==
  ASSUME PlaceInv, NEW p \in Installers, NEW from \in {"remove", "copy", "fill"}, NEW pc, NEW content \in Contents,
         NEW c, c = installer[p].cur,
         content[1] # "user",
         InstallStep(p, from, [installer[p] EXCEPT !.pc = pc]),
         \/ from = "remove" /\ pc = "copy" /\ content = Missing
         \/ from = "copy" /\ pc = "fill" /\ (dest[c] = Missing => content = Partial)
         \/ from = "fill" /\ pc = "apply" /\ (dest[c] = Partial => content = KitContent(ItemOf(p, c).content)),
         Replace(c, content),
         UNCHANGED <<backups, shared, files>>
  PROVE  PlaceInv'
  <1>1. c \in KitKeys \ installer[p].todo /\ installer[p].pc = from /\ lateEdits' = lateEdits /\ KitShape
        /\ installer[p] \in AnyInstaller /\ installer[p].plan[c] \in {"add", "overwrite"}
    BY AtOneItem DEF AtItem
  <1>2. PICK to : GoesOn(p, from, pc, to)
    BY <1>1, GoesOnTo DEF AtItem, AnyInstaller
  <1>3. installer'[p] = to
    BY <1>1, <1>2, OneInstalls DEF GoesOn, InstallGoes
  <1>4. /\ dest' \in [KitKeys -> Contents] /\ dest'[c] = content
        /\ \A k \in KitKeys \ {c} : dest'[k] = dest[k]
        /\ market' = market /\ lockFile' = lockFile /\ market' \in AnyFile /\ lockFile' \in AnyFile
        /\ backups' \in [KitKeys -> [Stamps -> Contents]]
    BY <1>1 DEF Replace, KitShape, files
  <1>5. HeldStays
    BY <1>1, HeldWhenQuiet
  <1>6. (\A k \in KitKeys : Safe(k) => Safe(k)') /\ Safe(c)'
    BY <1>4, <1>5, SafeStays DEF Safe
  <1>7. Safe(c)
    BY <1>1 DEF PlaceInv, SafeInv, ReplacesItem
  <1>8. /\ replaced' \subseteq KitKeys \X Present
        /\ replaced' \subseteq replaced \cup (IF dest[c][1] = "user" THEN {<<c, dest[c]>>} ELSE {})
    <2>1. dest[c] \in Contents /\ replaced \subseteq KitKeys \X Present /\ c \in KitKeys
      BY <1>1 DEF KitShape
    <2>2. dest[c][1] = "user" => dest[c] \in Present
      BY <2>1 DEF Present, Missing
    <2> QED BY <2>1, <2>2 DEF Replace
  <1>9. ReplacedIsBackedUp'
    BY <1>1, <1>5, <1>7, <1>8, ReplacedStays DEF PlaceInv, SafeInv
  <1>10. \A k \in KitKeys : DoneAt(p, k) => DoneAt(p, k)'
    <2> SUFFICES ASSUME NEW k \in KitKeys, DoneAt(p, k) PROVE DoneAt(p, k)'
      OBVIOUS
    <2>1. to.plan = installer[p].plan /\ to.cur = installer[p].cur /\ to.todo = installer[p].todo /\ to.pc = pc
          /\ to.seen = installer[p].seen
      BY <1>1, <1>2 DEF GoesOn, InstallGoes
    <2>2. CASE k # c
      BY <1>1, <1>3, <1>4, <2>1, <2>2 DEF DoneAt, AtItem, Installable
    <2>3. CASE k = c
      BY <1>1, <1>3, <1>4, <2>1, <2>3 DEF DoneAt, AtItem, Installable
    <2> QED BY <2>2, <2>3
  <1>11. /\ pc \in {"apply"} \cup AtItem \cup Registering /\ pc \notin Registering /\ pc # "backup" /\ from \in AtItem
    BY DEF AtItem, Registering
  <1> QED BY <1>1, <1>2, <1>4, <1>6, <1>8, <1>9, <1>10, <1>11, GoesOnKeeps

LEMMA ContentsOf ==
  /\ {Missing, Partial, Mixed} \subseteq Contents
  /\ \A p \in Installers, k \in KitKeys : KitContent(ItemOf(p, k).content) \in Contents
  /\ \A n \in Nat : UserContent(n) \in Contents
  /\ \A k \in KitKeys : dest \in [KitKeys -> Contents] => RetiredContent(dest[k][2]) \in Contents
  BY DEF Contents, Entries, Missing, Partial, Mixed, KitContent, UserContent, RetiredContent

LEMMA CopyItemKeeps ==
  ASSUME PlaceInv, NEW p \in Installers, RemoveReplaced(p) \/ CopyStarts(p) \/ CopyEnds(p)
  PROVE  PlaceInv'
  <1>0. PICK c : c = installer[p].cur
    OBVIOUS
  <1>q. UNCHANGED <<backups, shared, files>>
    BY DEF RemoveReplaced, CopyStarts, CopyEnds, saved
  <1>1. CASE RemoveReplaced(p)
    BY <1>0, <1>1, <1>q, ContentsOf, ReplaceKeeps DEF RemoveReplaced, Missing
  <1>2. CASE CopyStarts(p)
    <2>1. PICK content \in {Partial, Mixed} : content = IF dest[c] = Missing THEN Partial ELSE Mixed
      OBVIOUS
    <2>2. InstallStep(p, "copy", [installer[p] EXCEPT !.pc = "fill"]) /\ Replace(c, content)
      BY <1>0, <1>2, <2>1 DEF CopyStarts
    <2>3. content \in Contents /\ content[1] # "user"
      BY ContentsOf DEF Partial, Mixed
    <2> QED BY <1>0, <1>q, <2>1, <2>2, <2>3, ReplaceKeeps
  <1>3. CASE CopyEnds(p)
    <2>1. PICK content \in {KitContent(ItemOf(p, c).content), Mixed} :
            content = IF dest[c] = Partial THEN KitContent(ItemOf(p, c).content) ELSE Mixed
      OBVIOUS
    <2>2. InstallStep(p, "fill", [installer[p] EXCEPT !.pc = "apply"]) /\ Replace(c, content)
      BY <1>0, <1>3, <2>1 DEF CopyEnds
    <2>3. c \in KitKeys
      BY <1>0, <2>2, AtOneItem DEF AtItem
    <2>4. content \in Contents /\ content[1] # "user"
      BY <2>3, ContentsOf DEF KitContent, Mixed
    <2> QED BY <1>0, <1>q, <2>1, <2>2, <2>4, ReplaceKeeps
  <1> QED BY <1>1, <1>2, <1>3

(* The files: only they change, and nothing at any destination.            *)
LEMMA FilesKeep ==
  ASSUME PlaceInv, NEW p \in Installers, NEW from \in {"apply"} \cup Registering, NEW pc \in Registering,
         NEW to, GoesOn(p, from, pc, to),
         UNCHANGED <<placed, saved>>, market' \in AnyFile, lockFile' \in AnyFile,
         installer[p].todo = {},
         \A k \in KitKeys : DoneAt(p, k) => DoneAt(p, k)'
  PROVE  PlaceInv'
  <1>1. lateEdits' = lateEdits
    BY DEF GoesOn, InstallGoes, InstallStep
  <1>2. /\ ReplacedIsBackedUp'
        /\ dest' \in [KitKeys -> Contents] /\ backups' \in [KitKeys -> [Stamps -> Contents]]
        /\ replaced' \subseteq KitKeys \X Present
        /\ \A k \in KitKeys : Safe(k) => Safe(k)'
    BY <1>1, QuietPlaces DEF saved
  <1>3. PICK c : c = installer[p].cur
    OBVIOUS
  <1>4. pc \notin AtItem /\ pc \notin {"remove", "copy", "fill"}
    BY DEF AtItem, Registering
  <1> QED BY <1>2, <1>3, <1>4, GoesOnKeeps

(* A step at the files: what it reads or writes is of the right shape.     *)
LEMMA AtTheFiles ==
  ASSUME PlaceInv, NEW p \in Installers
  PROVE  /\ KitShape /\ installer[p] \in AnyInstaller /\ installer[p].lock \in [KitKeys -> Entries]
         /\ market \in AnyFile /\ lockFile \in AnyFile
         /\ market.entries \in [KitKeys -> Entries] /\ lockFile.entries \in [KitKeys -> Entries]
         /\ EmptyFile \in AnyFile /\ EmptyFile.text = "empty" /\ TornFile \in AnyFile
         /\ installer[p].pc \in Registering => installer[p].todo = {}
         /\ \A entries \in [KitKeys -> Entries] : IntactFile(entries) \in AnyFile
         /\ Own \in Entries /\ \A k \in KitKeys : ItemOf(p, k).content \in Entries
  <1>1. NoEntry \in Entries /\ Own \in Entries /\ \A k \in KitKeys : ItemOf(p, k).content \in Entries
    BY DEF Entries
  <1>2. KitShape /\ installer[p] \in AnyInstaller /\ Orderly(installer[p])
    BY DEF PlaceInv, SafeInv, KitShape
  <1>3. market \in AnyFile /\ lockFile \in AnyFile
    BY <1>2 DEF KitShape
  <1>4. EmptyFile \in AnyFile /\ EmptyFile.text = "empty" /\ TornFile \in AnyFile
    BY <1>1 DEF EmptyFile, TornFile, AnyFile
  <1> QED BY <1>1, <1>2, <1>3, <1>4 DEF AnyFile, AnyInstaller, Orderly, IntactFile

LEMMA MarketKeeps ==
  ASSUME PlaceInv, NEW p \in Installers,
         ReadMarketplace(p) \/ OpenMarketplace(p) \/ updateMarketplace(p) \/ NoPlugins(p)
  PROVE  PlaceInv'
  <1>s. /\ KitShape /\ installer[p].lock \in [KitKeys -> Entries]
        /\ market \in AnyFile /\ lockFile \in AnyFile /\ market.entries \in [KitKeys -> Entries]
        /\ EmptyFile \in AnyFile /\ EmptyFile.text = "empty" /\ TornFile \in AnyFile
        /\ installer[p].pc \in Registering => installer[p].todo = {}
        /\ \A entries \in [KitKeys -> Entries] : IntactFile(entries) \in AnyFile
        /\ Own \in Entries
    BY AtTheFiles
  <1>u. UNCHANGED <<placed, saved>> /\ dest' = dest /\ lockFile' = lockFile
    BY DEF ReadMarketplace, OpenMarketplace, updateMarketplace, NoPlugins, placed, files
  <1>c. {"market", "marketWrite", "lock"} \subseteq Registering
    BY DEF Registering
  <1>1. CASE ReadMarketplace(p)
    <2>1. /\ InstallStep(p, "apply", [installer[p] EXCEPT !.pc = "market", !.lock = market.entries])
          /\ installer[p].todo = {} /\ market' = market
      BY <1>1 DEF ReadMarketplace, files
    <2>2. PICK to : GoesOn(p, "apply", "market", to)
      BY <1>s, <1>c, <2>1, GoesOnTo
    <2>3. installer'[p] = to /\ installer[p].pc = "apply"
      BY <1>s, <2>2, OneInstalls DEF GoesOn, InstallGoes
    <2>4. \A k \in KitKeys : DoneAt(p, k) => DoneAt(p, k)'
      BY <1>u, <2>2, <2>3 DEF DoneAt, GoesOn, InstallGoes, AtItem
    <2> QED BY <1>s, <1>u, <1>c, <2>1, <2>2, <2>4, FilesKeep
  <1>2. CASE OpenMarketplace(p)
    <2>1. InstallStep(p, "market", [installer[p] EXCEPT !.pc = "marketWrite"]) /\ market' = EmptyFile
      BY <1>2 DEF OpenMarketplace
    <2>2. PICK to : GoesOn(p, "market", "marketWrite", to)
      BY <1>s, <1>c, <2>1, GoesOnTo
    <2>3. installer'[p] = to /\ installer[p].pc = "market" /\ installer[p].todo = {}
      BY <1>s, <1>c, <2>2, OneInstalls DEF GoesOn, InstallGoes
    <2>4. \A k \in KitKeys : DoneAt(p, k) => DoneAt(p, k)'
      BY <1>s, <1>u, <2>1, <2>2, <2>3 DEF DoneAt, GoesOn, InstallGoes, AtItem
    <2> QED BY <1>s, <1>u, <1>c, <2>1, <2>2, <2>3, <2>4, FilesKeep
  <1>3. CASE updateMarketplace(p)
    <2> DEFINE entries == [k \in KitKeys |->
                             IF k \in Installable(p) /\ k[1] = "plugin" THEN Own ELSE installer[p].lock[k]]
    <2>1. InstallStep(p, "marketWrite", [installer[p] EXCEPT !.pc = "lock"]) /\ market' \in WrittenInPlace(market, entries)
      BY <1>3 DEF updateMarketplace
    <2>e. /\ entries \in [KitKeys -> Entries]
          /\ \A k \in KitKeys : k \in Installable(p) /\ k[1] = "plugin" => entries[k] = Own
      BY <1>s
    <2> HIDE DEF entries
    <2>2. PICK to : GoesOn(p, "marketWrite", "lock", to)
      BY <1>s, <1>c, <2>1, GoesOnTo
    <2>3. installer'[p] = to /\ installer[p].pc = "marketWrite" /\ installer[p].todo = {}
      BY <1>s, <1>c, <2>2, OneInstalls DEF GoesOn, InstallGoes
    <2>4. Installable(p)' = Installable(p)
      BY <2>2, <2>3 DEF Installable, GoesOn, InstallGoes
    <2>5. market.text = "empty" => \A k \in KitKeys : market'.entries[k] = entries[k]
      BY <2>1 DEF WrittenInPlace, IntactFile
    <2>6. market' \in AnyFile
      BY <1>s, <2>1, <2>e DEF WrittenInPlace
    <2>7. \A k \in KitKeys : DoneAt(p, k) => DoneAt(p, k)'
      BY <1>u, <2>2, <2>3, <2>4, <2>5, <2>e DEF DoneAt, GoesOn, InstallGoes, AtItem
    <2> QED BY <1>s, <1>u, <1>c, <2>2, <2>3, <2>6, <2>7, FilesKeep
  <1>4. CASE NoPlugins(p)
    <2>1. /\ InstallStep(p, "apply", [installer[p] EXCEPT !.pc = "lock"])
          /\ market' = market /\ installer[p].todo = {}
          /\ \A k \in Installable(p) : k[1] # "plugin"
      BY <1>4 DEF NoPlugins, HasPlugins, files
    <2>2. PICK to : GoesOn(p, "apply", "lock", to)
      BY <1>s, <1>c, <2>1, GoesOnTo
    <2>3. installer'[p] = to /\ installer[p].pc = "apply"
      BY <1>s, <2>2, OneInstalls DEF GoesOn, InstallGoes
    <2>4. Installable(p)' = Installable(p)
      BY <2>2, <2>3 DEF Installable, GoesOn, InstallGoes
    <2>5. \A k \in KitKeys : DoneAt(p, k) => DoneAt(p, k)'
      BY <1>u, <2>1, <2>2, <2>3, <2>4 DEF DoneAt, GoesOn, InstallGoes, AtItem
    <2> QED BY <1>s, <1>u, <1>c, <2>1, <2>2, <2>5, FilesKeep
  <1> QED BY <1>1, <1>2, <1>3, <1>4

LEMMA LockKeeps ==
  ASSUME PlaceInv, NEW p \in Installers, ReadLock(p) \/ OpenLock(p) \/ updateKitLock(p)
  PROVE  PlaceInv'
  <1>s. /\ KitShape /\ installer[p] \in AnyInstaller /\ installer[p].lock \in [KitKeys -> Entries]
        /\ market \in AnyFile /\ lockFile \in AnyFile /\ lockFile.entries \in [KitKeys -> Entries]
        /\ EmptyFile \in AnyFile /\ EmptyFile.text = "empty" /\ TornFile \in AnyFile
        /\ installer[p].pc \in Registering => installer[p].todo = {}
        /\ \A entries \in [KitKeys -> Entries] : IntactFile(entries) \in AnyFile
        /\ \A k \in KitKeys : ItemOf(p, k).content \in Entries
    BY AtTheFiles
  <1>u. UNCHANGED <<placed, saved>> /\ dest' = dest /\ market' = market
    BY DEF ReadLock, OpenLock, updateKitLock, placed, files
  <1>c. {"lock", "lockOpen", "write", "done"} \subseteq Registering
    BY DEF Registering
  <1>1. CASE ReadLock(p)
    <2>1. /\ InstallStep(p, "lock", [installer[p] EXCEPT !.pc = "lockOpen", !.lock = lockFile.entries])
          /\ lockFile' = lockFile
      BY <1>1 DEF ReadLock, files
    <2> DEFINE to == [installer[p] EXCEPT !.pc = "lockOpen", !.lock = lockFile.entries]
    <2>2. to \in AnyInstaller
      BY <1>s DEF AnyInstaller, Registering
    <2>3. GoesOn(p, "lock", "lockOpen", to) /\ to.lock = lockFile.entries
      BY <1>s, <2>1, <2>2 DEF GoesOn, InstallGoes, AnyInstaller
    <2>4. PICK next : GoesOn(p, "lock", "lockOpen", next) /\ next.lock = lockFile.entries
      BY <2>3
    <2> HIDE DEF to
    <2>5. installer'[p] = next /\ installer[p].pc = "lock" /\ installer[p].todo = {}
      BY <1>s, <1>c, <2>4, OneInstalls DEF GoesOn, InstallGoes
    <2>6. Installable(p)' = Installable(p)
      BY <2>4, <2>5 DEF Installable, GoesOn, InstallGoes
    <2>7. \A k \in KitKeys : DoneAt(p, k) => DoneAt(p, k)'
      BY <1>u, <2>1, <2>4, <2>5, <2>6 DEF DoneAt, GoesOn, InstallGoes, AtItem
    <2> QED BY <1>s, <1>u, <1>c, <2>1, <2>4, <2>5, <2>7, FilesKeep
  <1>2. CASE OpenLock(p)
    <2>1. InstallStep(p, "lockOpen", [installer[p] EXCEPT !.pc = "write"]) /\ lockFile' = EmptyFile
      BY <1>2 DEF OpenLock
    <2> DEFINE to == [installer[p] EXCEPT !.pc = "write"]
    <2>2. to \in AnyInstaller
      BY <1>s DEF AnyInstaller, Registering
    <2>3. GoesOn(p, "lockOpen", "write", to) /\ to.lock = installer[p].lock
      BY <1>s, <2>1, <2>2 DEF GoesOn, InstallGoes, AnyInstaller
    <2>4. PICK next : GoesOn(p, "lockOpen", "write", next) /\ next.lock = installer[p].lock
      BY <2>3
    <2> HIDE DEF to
    <2>5. installer'[p] = next /\ installer[p].pc = "lockOpen" /\ installer[p].todo = {}
      BY <1>s, <1>c, <2>4, OneInstalls DEF GoesOn, InstallGoes
    <2>6. Installable(p)' = Installable(p)
      BY <2>4, <2>5 DEF Installable, GoesOn, InstallGoes
    <2>7. \A k \in KitKeys : DoneAt(p, k) => DoneAt(p, k)'
      BY <1>s, <1>u, <2>1, <2>4, <2>5, <2>6 DEF DoneAt, GoesOn, InstallGoes, AtItem
    <2> QED BY <1>s, <1>u, <1>c, <2>1, <2>4, <2>5, <2>7, FilesKeep
  <1>3. CASE updateKitLock(p)
    <2> DEFINE entries == [k \in KitKeys |->
                             IF k \in Installable(p) THEN ItemOf(p, k).content ELSE installer[p].lock[k]]
    <2>1. InstallStep(p, "write", [installer[p] EXCEPT !.pc = "done"]) /\ lockFile' \in WrittenInPlace(lockFile, entries)
      BY <1>3 DEF updateKitLock
    <2>e. /\ entries \in [KitKeys -> Entries]
          /\ \A k \in KitKeys : entries[k] = IF k \in Installable(p) THEN ItemOf(p, k).content ELSE installer[p].lock[k]
      BY <1>s
    <2> HIDE DEF entries
    <2>2. PICK to : GoesOn(p, "write", "done", to)
      BY <1>s, <1>c, <2>1, GoesOnTo
    <2>3. installer'[p] = to /\ installer[p].pc = "write" /\ installer[p].todo = {}
      BY <1>s, <1>c, <2>2, OneInstalls DEF GoesOn, InstallGoes
    <2>4. Installable(p)' = Installable(p)
      BY <2>2, <2>3 DEF Installable, GoesOn, InstallGoes
    <2>5. lockFile.text = "empty" => \A k \in KitKeys : lockFile'.entries[k] = entries[k]
      BY <2>1 DEF WrittenInPlace, IntactFile
    <2>6. lockFile' \in AnyFile
      BY <1>s, <2>1, <2>e DEF WrittenInPlace
    <2>7. \A k \in KitKeys : DoneAt(p, k) => DoneAt(p, k)'
      BY <1>u, <2>2, <2>3, <2>4, <2>5, <2>e DEF DoneAt, GoesOn, InstallGoes, AtItem
    <2> QED BY <1>s, <1>u, <1>c, <2>2, <2>3, <2>6, <2>7, FilesKeep
  <1> QED BY <1>1, <1>2, <1>3

(* An edit disturbs whoever is installing, and is late for them.           *)
LEMMA EditKeeps ==
  ASSUME PlaceInv, NEW k \in KitKeys, UserEdits(k) \/ (k = Setup /\ retireSetupSkill)
  PROVE  PlaceInv'
  <1>1. PICK content : /\ Edit(k, content)
                       /\ \/ UserEdits(k) /\ content = UserContent(kitEdits')
                          \/ retireSetupSkill /\ content = RetiredContent(dest[k][2])
    BY DEF UserEdits, retireSetupSkill
  <1>2. KitShape /\ ReplacedIsBackedUp /\ lateEdits \subseteq lateEdits' /\ kitEdits' \in Nat
    BY DEF PlaceInv, SafeInv, KitShape, UserEdits, retireSetupSkill
  <1>3. content \in Contents
    BY <1>1, <1>2, ContentsOf DEF KitShape
  <1>4. /\ UNCHANGED <<installer, saved, replaced, files>>
        /\ dest' \in [KitKeys -> Contents] /\ dest'[k] = content
        /\ \A j \in KitKeys \ {k} : dest'[j] = dest[j]
        /\ \A q \in Installers : q \notin disturbed' => installer[q].pc = "idle"
    BY <1>1, <1>2, <1>3 DEF Edit, KitShape
  <1>5. KitShape'
    BY <1>2, <1>4 DEF KitShape, Orderly, saved, files
  <1>6. DoneInv'
    BY <1>4 DEF DoneInv
  <1>7. HeldStays
    BY <1>2, <1>4, HeldWhenQuiet DEF saved
  <1>8. ReplacedIsBackedUp'
    BY <1>2, <1>4, <1>7, ReplacedStays
  <1>9. ASSUME NEW q \in Installers, NEW j \in KitKeys, ReplacesItem(q, j)'
        PROVE  Safe(j)'
    <2>1. ReplacesItem(q, j)
      BY <1>4, <1>9 DEF ReplacesItem
    <2>2. Safe(j) /\ installer[q].pc # "idle"
      BY <1>2, <2>1 DEF PlaceInv, SafeInv, ReplacesItem, KitShape, Orderly
    <2>3. CASE j # k
      BY <1>4, <1>7, <2>2, <2>3 DEF Safe, HeldStays, Missing
    <2>4. CASE j = k /\ UserEdits(k)
      <3>1. UserContent(kitEdits') \in lateEdits'
        BY <2>2, <2>4 DEF UserEdits
      <3> QED BY <1>1, <1>4, <2>4, <3>1 DEF Safe, Held, RetiredContent
    <2>5. CASE j = k /\ content = RetiredContent(dest[k][2])
      BY <1>4, <2>5 DEF Safe, RetiredContent
    <2> QED BY <1>1, <2>3, <2>4, <2>5
  <1> QED BY <1>5, <1>6, <1>8, <1>9 DEF PlaceInv, SafeInv

----------------------------------------------------------------------------
(* The stamps: a step that makes no plan and no backup.                    *)
LEMMA StampsWhenQuiet ==
  ASSUME KitShape, StampInv, NEW p \in Installers, NEW from, NEW to \in AnyInstaller, InstallStep(p, from, to),
         UNCHANGED saved, to.stamp \in {installer[p].stamp, NoStamp}, to.todo \subseteq installer[p].todo,
         to.pc = "backup" => to.cur \in installer[p].todo
  PROVE  StampInv'
  <1>1. /\ installer'[p] = to /\ \A q \in Installers \ {p} : installer'[q] = installer[q]
        /\ NoStamp \notin Stamps /\ backups' = backups /\ stamped' = stamped /\ shared' = shared
    BY OneInstalls, KitConstants DEF NoStamp, saved
  <1>2. ASSUME NEW q \in Installers, NEW s \in Stamps \ shared, installer'[q].stamp = s
        PROVE  /\ s \in stamped
               /\ \A r \in Installers \ {q} : installer'[r].stamp # s
               /\ \A k \in KitKeys : k \in installer'[q].todo \/ (installer'[q].pc = "backup" /\ installer'[q].cur = k)
                    => backups[k][s] = Missing
    <2>1. installer[q].stamp = s
      BY <1>1, <1>2
    <2>2. \A r \in Installers \ {q} : installer'[r].stamp # s
      BY <1>1, <2>1 DEF StampInv
    <2>3. CASE q = p
      BY <1>1, <2>1, <2>2, <2>3 DEF StampInv
    <2>4. CASE q # p
      BY <1>1, <2>1, <2>2, <2>4 DEF StampInv
    <2> QED BY <2>3, <2>4
  <1> QED BY <1>1, <1>2 DEF StampInv

LEMMA StampsOfPlan ==
  ASSUME KitShape, StampInv, NEW p \in Installers, buildKitAddPlan(p)
  PROVE  StampInv'
  <1>1. PICK to \in AnyInstaller :
          /\ InstallStep(p, "idle", to) /\ to.pc = "apply"
          /\ stamped' = stamped \cup ({to.stamp} \ {NoStamp})
          /\ shared' = shared \cup ({to.stamp} \cap stamped)
    BY PlanOf
  <1>2. /\ installer'[p] = to /\ \A q \in Installers \ {p} : installer'[q] = installer[q]
        /\ NoStamp \notin Stamps /\ backups' = backups
    BY <1>1, OneInstalls, KitConstants DEF NoStamp, buildKitAddPlan
  <1>3. \A s \in Stamps \ stamped, k \in KitKeys : backups[k][s] = Missing
    BY DEF StampInv
  <1>4. ASSUME NEW q \in Installers, NEW s \in Stamps \ shared', installer'[q].stamp = s
        PROVE  /\ s \in stamped'
               /\ \A r \in Installers \ {q} : installer'[r].stamp # s
               /\ \A k \in KitKeys : k \in installer'[q].todo \/ (installer'[q].pc = "backup" /\ installer'[q].cur = k)
                    => backups[k][s] = Missing
    <2>1. CASE q = p
      <3>1. to.stamp = s /\ s \notin stamped
        BY <1>1, <1>2, <1>4, <2>1
      <3>2. \A r \in Installers : installer[r].stamp # s
        BY <1>1, <1>4, <3>1 DEF StampInv
      <3> QED BY <1>1, <1>2, <1>3, <2>1, <3>1, <3>2
    <2>2. CASE q # p
      <3>1. installer[q].stamp = s /\ s \in Stamps \ shared
        BY <1>1, <1>2, <1>4, <2>2
      <3>2. s \in stamped /\ to.stamp # s
        BY <1>1, <1>4, <3>1 DEF StampInv
      <3> QED BY <1>1, <1>2, <2>2, <3>1, <3>2 DEF StampInv
    <2> QED BY <2>1, <2>2
  <1>5. shared' \subseteq stamped'
    BY <1>1 DEF StampInv
  <1> QED BY <1>1, <1>2, <1>3, <1>4, <1>5 DEF StampInv

LEMMA StampsOfBackup ==
  ASSUME PlaceInv, StampInv, NEW p \in Installers, BackUpItem(p)
  PROVE  StampInv'
  <1>0. PICK c, s : c = installer[p].cur /\ s = installer[p].stamp
    OBVIOUS
  <1>1. /\ InstallStep(p, "backup", [installer[p] EXCEPT !.pc = "remove"])
        /\ backups' = [backups EXCEPT ![c][s] = IF @ = Missing THEN dest[c] ELSE Mixed]
        /\ UNCHANGED <<stamped, shared>>
    BY <1>0 DEF BackUpItem
  <1>2. c \in KitKeys \ installer[p].todo /\ installer[p].pc = "backup" /\ KitShape
        /\ installer[p] \in AnyInstaller /\ s \in Stamps
    BY <1>0, <1>1, AtOneItem DEF AtItem
  <1>3. PICK to : GoesOn(p, "backup", "remove", to)
    BY <1>1, <1>2, GoesOnTo DEF AtItem, AnyInstaller
  <1>4. /\ installer'[p] = to /\ \A q \in Installers \ {p} : installer'[q] = installer[q]
        /\ to.stamp = s /\ to.todo = installer[p].todo /\ to.pc = "remove" /\ to.cur = c
    BY <1>0, <1>2, <1>3, OneInstalls DEF GoesOn, InstallGoes
  <1>5. \A k \in KitKeys, r \in Stamps : k # c \/ r # s => backups'[k][r] = backups[k][r]
    BY <1>1, <1>2 DEF KitShape
  <1>6. \A q \in Installers : installer'[q].stamp = installer[q].stamp
    BY <1>0, <1>4
  <1>7. s \in stamped /\ shared \subseteq stamped
    BY <1>0, <1>2 DEF StampInv
  <1>8. ASSUME NEW r \in Stamps \ stamped, NEW k \in KitKeys PROVE backups'[k][r] = Missing
    <2>1. r # s
      BY <1>7
    <2> QED BY <1>5, <2>1 DEF StampInv
  <1>9. ASSUME NEW q \in Installers, NEW r \in Stamps \ shared, installer'[q].stamp = r
        PROVE  /\ r \in stamped
               /\ \A o \in Installers \ {q} : installer'[o].stamp # r
               /\ \A k \in KitKeys : k \in installer'[q].todo \/ (installer'[q].pc = "backup" /\ installer'[q].cur = k)
                    => backups'[k][r] = Missing
    <2>1. installer[q].stamp = r
      BY <1>6, <1>9
    <2>2. r \in stamped /\ \A o \in Installers \ {q} : installer'[o].stamp # r
      BY <1>6, <2>1 DEF StampInv
    <2>3. CASE q = p
      BY <1>2, <1>4, <1>5, <2>1, <2>2, <2>3 DEF StampInv
    <2>4. CASE q # p
      <3>1. r # s
        BY <1>0, <2>1, <2>4 DEF StampInv
      <3> QED BY <1>4, <1>5, <2>1, <2>2, <2>4, <3>1 DEF StampInv
    <2> QED BY <2>3, <2>4
  <1> QED BY <1>1, <1>7, <1>8, <1>9 DEF StampInv

LEMMA StampsOfOthers ==
  ASSUME PlaceInv, StampInv, NEW p \in Installers,
         \/ TakeItem(p) \/ RemoveReplaced(p) \/ CopyStarts(p) \/ CopyEnds(p) \/ ReadMarketplace(p)
         \/ OpenMarketplace(p) \/ updateMarketplace(p) \/ NoPlugins(p) \/ ReadLock(p) \/ OpenLock(p)
         \/ updateKitLock(p) \/ InstallEnds(p) \/ InstallDies(p)
  PROVE  StampInv'
  <1>1. /\ KitShape /\ installer[p] \in AnyInstaller /\ UNCHANGED saved
        /\ market.entries \in [KitKeys -> Entries] /\ lockFile.entries \in [KitKeys -> Entries]
    BY AtTheFiles DEF TakeItem, RemoveReplaced, CopyStarts, CopyEnds, ReadMarketplace, OpenMarketplace,
      updateMarketplace, NoPlugins, ReadLock, OpenLock, updateKitLock, InstallEnds, InstallDies
  <1>2. CASE TakeItem(p)
    <2>1. PICK to : TakesItem(p, to)
      BY <1>1, <1>2, TakesItemOf
    <2> QED BY <1>1, <2>1, StampsWhenQuiet DEF TakesItem, InstallGoes
  <1>3. CASE InstallEnds(p) \/ InstallDies(p)
    BY <1>1, <1>3, IdleIsOne, StampsWhenQuiet DEF InstallEnds, InstallDies
  <1>4. ASSUME NEW from, NEW pc \in {"apply"} \cup AtItem \cup Registering, from # "idle", pc # "backup",
               NEW lock \in [KitKeys -> Entries],
               \/ InstallStep(p, from, [installer[p] EXCEPT !.pc = pc])
               \/ InstallStep(p, from, [installer[p] EXCEPT !.pc = pc, !.lock = lock])
        PROVE  StampInv'
    <2>1. PICK to : GoesOn(p, from, pc, to)
      BY <1>1, <1>4, GoesOnTo
    <2> QED BY <1>1, <1>4, <2>1, StampsWhenQuiet DEF GoesOn, InstallGoes
  <1>5. {"copy", "fill"} \subseteq AtItem /\ {"market", "marketWrite", "lock", "lockOpen", "write", "done"} \subseteq Registering
    BY DEF AtItem, Registering
  <1>6. CASE RemoveReplaced(p) \/ CopyStarts(p) \/ CopyEnds(p)
    BY <1>1, <1>4, <1>5, <1>6 DEF RemoveReplaced, CopyStarts, CopyEnds
  <1>7. CASE ReadMarketplace(p) \/ OpenMarketplace(p) \/ updateMarketplace(p) \/ NoPlugins(p)
    BY <1>1, <1>4, <1>5, <1>7 DEF ReadMarketplace, OpenMarketplace, updateMarketplace, NoPlugins
  <1>8. CASE ReadLock(p) \/ OpenLock(p) \/ updateKitLock(p)
    BY <1>1, <1>4, <1>5, <1>8 DEF ReadLock, OpenLock, updateKitLock
  <1> QED BY <1>2, <1>3, <1>6, <1>7, <1>8

LEMMA KitStep == KitInv /\ [KitNext]_kitVars => KitInv'
  <1> SUFFICES ASSUME KitInv, [KitNext]_kitVars PROVE KitInv'
    OBVIOUS
  <1>i. PlaceInv /\ StampInv
    BY DEF KitInv
  <1>1. CASE UNCHANGED kitVars
    BY <1>1 DEF kitVars, placed, saved, files, KitInv, PlaceInv, SafeInv, KitShape, Orderly, DoneInv, DoneAt, Safe,
                ReplacesItem, Installable, ReplacedIsBackedUp, Held, StampInv
  <1>2. ASSUME NEW p \in Installers,
               \/ buildKitAddPlan(p) \/ TakeItem(p) \/ BackUpItem(p) \/ RemoveReplaced(p)
               \/ CopyStarts(p) \/ CopyEnds(p) \/ ReadMarketplace(p) \/ OpenMarketplace(p)
               \/ updateMarketplace(p) \/ NoPlugins(p) \/ ReadLock(p) \/ OpenLock(p)
               \/ updateKitLock(p) \/ InstallEnds(p) \/ InstallDies(p)
        PROVE  KitInv'
    <2>1. PlaceInv'
      BY <1>i, <1>2, PlanKeeps, TakeKeeps, BackUpKeeps, CopyItemKeeps, MarketKeeps, LockKeeps, EndKeeps
    <2>2. StampInv'
      BY <1>i, <1>2, StampsOfPlan, StampsOfBackup, StampsOfOthers DEF PlaceInv, SafeInv
    <2> QED BY <2>1, <2>2 DEF KitInv
  <1>3. ASSUME NEW k \in KitKeys, UserEdits(k) \/ (k = Setup /\ retireSetupSkill) PROVE KitInv'
    <2>1. UNCHANGED <<installer, saved>>
      BY <1>3 DEF UserEdits, retireSetupSkill, Edit
    <2>2. StampInv'
      BY <1>i, <2>1 DEF StampInv, saved
    <2> QED BY <1>i, <1>3, <2>2, EditKeeps DEF KitInv
  <1>4. CASE retireSetupSkill
    BY <1>3, <1>4 DEF retireSetupSkill
  <1> QED BY <1>1, <1>2, <1>3, <1>4 DEF KitNext

LEMMA KitAlways == KitSpec => []KitInv
  <1>1. KitInit => KitInv
    <2>1. KitInit => DoneInv
      BY DEF DoneInv, KitInit, IdleInstaller
    <2> QED BY <2>1, KitsStart DEF KitInv, PlaceInv
  <1> QED BY <1>1, KitStep, PTL DEF KitSpec

(* For any installers, items, edits and stamps: what an install has taken  *)
(* away of a user's (applyPlan) is in a backup, or was written after the   *)
(* plan; only plans of one millisecond may have mixed their backups.       *)
THEOREM ReplacedHaveBackups == KitSpec => []ReplacedIsBackedUp
  <1>1. KitInv => ReplacedIsBackedUp
    BY DEF KitInv, PlaceInv, SafeInv
  <1> QED BY <1>1, KitAlways, PTL

(* For any installers and any items: an install that ends undisturbed has  *)
(* copied, registered and locked all it did not skip (updateKitLock), and  *)
(* the lock keeps what it says of the rest.                                *)
THEOREM EndedInstallsAreComplete == KitSpec => []EndedInstallIsComplete
  <1>1. KitInv => EndedInstallIsComplete
    <2> SUFFICES ASSUME KitInv, NEW p \in Installers, installer[p].pc = "done", p \notin disturbed,
                        NEW k \in KitKeys
                 PROVE  IF k \in Installable(p)
                        THEN /\ Matches(k, dest[k], ItemOf(p, k).content)
                             /\ lockFile.entries[k] = ItemOf(p, k).content
                             /\ k[1] = "plugin" => market.entries[k] = Own
                        ELSE lockFile.entries[k] = installer[p].seen[k]
      BY DEF EndedInstallIsComplete
    <2>1. DoneAt(p, k) /\ installer[p].todo = {}
      BY DEF KitInv, PlaceInv, SafeInv, DoneInv, KitShape, Orderly, Registering
    <2>2. "done" \notin AtItem
      BY DEF AtItem
    <2>3. k \in Installable(p) => Matches(k, dest[k], ItemOf(p, k).content)
      BY <2>1, <2>2 DEF DoneAt, Installable, Matches
    <2> QED BY <2>1, <2>3 DEF DoneAt
  <1> QED BY <1>1, KitAlways, PTL

-----------------------------------------------------------------------------
(***************************************************************************)
(* Moving rollouts, for any movers, threads and names.                     *)
(***************************************************************************)
Unnamed == {"idle", "find", "stat", "hash", "look", "name"}
Rewrites == {"read", "write", "writing"}
AnyMover ==
  [step : Unnamed \cup Rewrites \cup {"backup", "backingUp", "statCopy", "hashCopy", "meta", "done",
                                      "failed", "crashed"},
   ask : Asks \cup {IdleMover.ask}, rollout : Rollouts \cup {IdleMover.rollout}, size : 0..MaxLines,
   seen : Content, text : Content, backup : Nat \X Nat]

RolloutShape ==
  /\ mover \in [Movers -> AnyMover]
  /\ sessions = [home \in Homes |-> sessions[home]]
  /\ DOMAIN sessions["from"] = Rollouts /\ \A r \in Rollouts : sessions["from"][r] \in Content
  /\ sessions["to"] = [r \in DOMAIN sessions["to"] |-> sessions["to"][r]]
  /\ \A r \in DOMAIN sessions["to"] : sessions["to"][r] \in Content
  /\ ownRollout = [r \in DOMAIN ownRollout |-> ownRollout[r]]
  /\ DOMAIN ownRollout \subseteq DOMAIN sessions["to"]
  /\ \A r \in DOMAIN ownRollout :
       ownRollout[r] \in [content : {x \in Content : x.lines # 0}, late : BOOLEAN]
  /\ stamp \in Nat \ {0}

(* Where a mover is, by the names it has used.                             *)
MoverShape(m) ==
  /\ mover[m].step \in Unnamed => mover[m].backup = <<0, 0>>
  /\ mover[m].step = "find" => mover[m].ask \in Asks
  /\ mover[m].step \notin {"idle", "find", "failed"} => Of(m) \in Rollouts
  /\ mover[m].step \in {"name", "backup", "backingUp"} => InTarget(Of(m))
  /\ mover[m].step \in {"backup", "backingUp"} => mover[m].backup # <<0, 0>>

(* What a thread of the target wrote is in a backup, or was too late.      *)
RolloutKept(r) ==
  \/ \E b \in DOMAIN rolloutCopies : b[1] = r /\ rolloutCopies[b] = ownRollout[r].content
  \/ ownRollout[r].late \/ SharedName(r)

CopyKeyOf(m) == <<Of(m), mover[m].backup>>

(* Nobody has the name that a mover has taken, or it has a second owner;   *)
(* and who is about to replace a file has copied it away.                  *)
RolloutInv ==
  /\ RolloutShape /\ \A m \in Movers : MoverShape(m)
  /\ rolloutCopies = [b \in DOMAIN rolloutCopies |-> rolloutCopies[b]]
  /\ \A m \in Movers :
       /\ mover[m].step = "backup" => CopyKeyOf(m) \notin DOMAIN rolloutCopies \/ SharedName(Of(m))
       /\ mover[m].step = "backingUp" =>
            CopyKeyOf(m) \in DOMAIN rolloutCopies /\ (rolloutCopies[CopyKeyOf(m)].lines = 0 \/ SharedName(Of(m)))
       /\ mover[m].step \in Rewrites /\ Of(m) \in DOMAIN ownRollout => RolloutKept(Of(m))
  /\ \A r \in DOMAIN ownRollout : Target(r) = ownRollout[r].content \/ RolloutKept(r)

----------------------------------------------------------------------------
LEMMA ContentsAre ==
  /\ \A content \in Content, n \in 0..MaxLines :
       Prefix(content, n) \in Content /\ Prefix(content, n).lines = n
  /\ \A content \in Content, cwd \in {"old", "new"} : rewriteRolloutCwd(content, cwd) \in Content
  /\ \A thread \in RolloutThreads \cup {NoThread}, by \in Homes :
       FirstLine(thread, by) \in Content /\ FirstLine(thread, by).lines = 1
  <1>1. 0 \in 0..MaxLines /\ 1 \in 0..MaxLines
    BY RolloutConstants
  <1>2. ASSUME NEW content \in Content, NEW n \in 0..MaxLines
        PROVE  Prefix(content, n) \in Content /\ Prefix(content, n).lines = n
    BY DEF Prefix, Content
  <1>3. \A content \in Content, cwd \in {"old", "new"} : rewriteRolloutCwd(content, cwd) \in Content
    BY DEF rewriteRolloutCwd, Content
  <1>4. \A thread \in RolloutThreads \cup {NoThread}, by \in Homes :
          FirstLine(thread, by) \in Content /\ FirstLine(thread, by).lines = 1
    BY <1>1 DEF FirstLine, Content
  <1> QED BY <1>2, <1>3, <1>4

LEMMA IdleIsAny ==
  IdleMover \in AnyMover /\ IdleMover.step = "idle" /\ IdleMover.backup = <<0, 0>>
  <1>1. FirstLine(NoThread, "from") \in Content
    BY ContentsAre DEF Homes
  <1>2. 0 \in 0..MaxLines
    BY RolloutConstants
  <1>3. PICK nothing \in Content : nothing = FirstLine(NoThread, "from")
    BY <1>1
  <1>4. PICK ask, rollout : IdleMover =
          [step |-> "idle", ask |-> ask, rollout |-> rollout, size |-> 0,
           seen |-> nothing, text |-> nothing, backup |-> <<0, 0>>]
    BY <1>3 DEF IdleMover
  <1>5. ask = IdleMover.ask /\ rollout = IdleMover.rollout
    BY <1>4
  <1> QED BY <1>2, <1>4, <1>5 DEF AnyMover, Unnamed

LEMMA RolloutsStart == RolloutInit => RolloutInv
  <1> SUFFICES ASSUME RolloutInit PROVE RolloutInv
    OBVIOUS
  <1>1. PICK there \in SUBSET Rollouts, old \in BOOLEAN :
       /\ sessions =
            [home \in Homes |->
               [r \in (IF home = "from" THEN Rollouts ELSE there) |->
                  FirstLine(IF old /\ home = "from" THEN NoThread ELSE FilenameThread[r], home)]]
       /\ ownRollout =
            [r \in there |-> [content |-> FirstLine(FilenameThread[r], "to"), late |-> FALSE]]
    BY DEF RolloutInit
  <1>2. sessions["to"] = [r \in there |-> FirstLine(FilenameThread[r], "to")]
    BY <1>1 DEF Homes
  <1>3. sessions["from"] = [r \in Rollouts |-> FirstLine(IF old THEN NoThread ELSE FilenameThread[r], "from")]
    BY <1>1 DEF Homes
  <1>4. \A r \in Rollouts : FilenameThread[r] \in RolloutThreads
    BY RolloutConstants
  <1>5. /\ \A r \in Rollouts : sessions["from"][r] \in Content
        /\ \A r \in there : sessions["to"][r] \in Content /\ sessions["to"][r].lines # 0
    BY <1>2, <1>3, <1>4, ContentsAre DEF Homes
  <1>6. \A r \in there : ownRollout[r] \in [content : {x \in Content : x.lines # 0}, late : BOOLEAN]
                         /\ ownRollout[r].content = sessions["to"][r]
    BY <1>1, <1>2, <1>5
  <1>7. mover \in [Movers -> AnyMover] /\ \A m \in Movers : mover[m].step = "idle" /\ mover[m].backup = <<0, 0>>
    BY IdleIsAny DEF RolloutInit
  <1>8. RolloutShape
    <2>1. sessions = [home \in Homes |-> sessions[home]] /\ stamp = 1
      BY <1>1 DEF RolloutInit
    <2>2. /\ DOMAIN sessions["from"] = Rollouts /\ DOMAIN sessions["to"] = there /\ DOMAIN ownRollout = there
          /\ sessions["to"] = [r \in DOMAIN sessions["to"] |-> sessions["to"][r]]
          /\ ownRollout = [r \in DOMAIN ownRollout |-> ownRollout[r]]
      BY <1>1, <1>2, <1>3
    <2> QED BY <1>5, <1>6, <1>7, <2>1, <2>2, SMTT(20) DEF RolloutShape
  <1>9. \A m \in Movers : MoverShape(m)
    BY <1>7 DEF MoverShape
  <1>10. rolloutCopies = [b \in DOMAIN rolloutCopies |-> rolloutCopies[b]]
    BY DEF RolloutInit
  <1> QED BY <1>1, <1>2, <1>6, <1>7, <1>8, <1>9, <1>10 DEF RolloutInv, Rewrites, Target

----------------------------------------------------------------------------
(* One mover takes a step: a name that two have, they keep.                *)
LEMMA OneMoves ==
  ASSUME RolloutInv, NEW m \in Movers, NEW to \in AnyMover, mover' = [mover EXCEPT ![m] = to],
         mover[m].step \notin Unnamed => to.backup = mover[m].backup /\ to.rollout = Of(m)
  PROVE  /\ mover' \in [Movers -> AnyMover] /\ mover'[m] = to
         /\ \A o \in Movers \ {m} : mover'[o] = mover[o]
         /\ \A r : SharedName(r) => SharedName(r)'
  <1>1. /\ mover' \in [Movers -> AnyMover] /\ mover'[m] = to
        /\ \A o \in Movers \ {m} : mover'[o] = mover[o]
    BY DEF RolloutInv, RolloutShape
  <1>2. \A o \in Movers : mover[o].backup # <<0, 0>> =>
          mover'[o].backup = mover[o].backup /\ mover'[o].rollout = mover[o].rollout
    BY <1>1 DEF RolloutInv, MoverShape, Of
  <1> QED BY <1>1, <1>2 DEF SharedName, Of

(* The steps that write neither home nor backup.                           *)
LEMMA ReadingKeeps ==
  ASSUME RolloutInv, NEW m \in Movers, NEW to \in AnyMover, mover' = [mover EXCEPT ![m] = to],
         RolloutsKept, UNCHANGED ownRollout, stamp' = stamp,
         to.backup = mover[m].backup, mover[m].step \notin Unnamed => to.rollout = Of(m),
         to.step \in Unnamed => mover[m].step \in Unnamed,
         to.step = "find" => to.ask \in Asks,
         to.step \notin {"idle", "find", "failed"} => to.rollout \in Rollouts,
         to.step = "name" => InTarget(to.rollout),
         to.step \notin {"backup", "backingUp"},
         to.step \in Rewrites => to.rollout = Of(m) /\ (mover[m].step \in Rewrites \/ ~InTarget(Of(m)))
  PROVE  RolloutInv'
  <1>1. /\ mover' \in [Movers -> AnyMover] /\ mover'[m] = to
        /\ \A o \in Movers \ {m} : mover'[o] = mover[o]
        /\ \A r : SharedName(r) => SharedName(r)'
    BY OneMoves
  <1>2. RolloutShape'
    BY <1>1 DEF RolloutInv, RolloutShape, RolloutsKept
  <1>3. \A r : RolloutKept(r) => RolloutKept(r)'
    BY <1>1 DEF RolloutKept, RolloutsKept
  <1>4. ASSUME NEW o \in Movers PROVE MoverShape(o)'
    <2>1. CASE o = m
      BY <1>1, <2>1 DEF RolloutInv, MoverShape, RolloutsKept, Of, InTarget
    <2>2. CASE o # m
      BY <1>1, <2>2 DEF RolloutInv, MoverShape, RolloutsKept, Of, InTarget
    <2> QED BY <2>1, <2>2
  <1>5. ASSUME NEW o \in Movers
        PROVE  /\ mover'[o].step = "backup" => CopyKeyOf(o)' \notin DOMAIN rolloutCopies' \/ SharedName(Of(o))'
               /\ mover'[o].step = "backingUp" =>
                    /\ CopyKeyOf(o)' \in DOMAIN rolloutCopies'
                    /\ rolloutCopies'[CopyKeyOf(o)'].lines = 0 \/ SharedName(Of(o))'
               /\ mover'[o].step \in Rewrites /\ Of(o)' \in DOMAIN ownRollout' => RolloutKept(Of(o))'
    <2>1. CASE o = m
      <3>1. ASSUME to.step \in Rewrites, Of(m) \in DOMAIN ownRollout PROVE RolloutKept(Of(m))
        BY <3>1 DEF RolloutInv, RolloutShape, InTarget
      <3>2. to.step \in Rewrites => Of(m)' = Of(m)
        BY <1>1 DEF Of
      <3> QED BY <1>1, <1>3, <2>1, <3>1, <3>2
    <2>2. CASE o # m
      <3>1. Of(o)' = Of(o) /\ CopyKeyOf(o)' = CopyKeyOf(o) /\ mover'[o].step = mover[o].step
        BY <1>1, <2>2 DEF Of, CopyKeyOf
      <3>2. rolloutCopies' = rolloutCopies /\ ownRollout' = ownRollout
        BY DEF RolloutsKept
      <3>3. SharedName(Of(o)) => SharedName(Of(o))'
        BY <1>1, <3>1 DEF SharedName
      <3>4. RolloutKept(Of(o)) => RolloutKept(Of(o))'
        BY <3>1, <3>2, <3>3 DEF RolloutKept
      <3> QED BY <3>1, <3>2, <3>3, <3>4 DEF RolloutInv
    <2> QED BY <2>1, <2>2
  <1>6. ASSUME NEW r \in DOMAIN ownRollout' PROVE Target(r)' = ownRollout'[r].content \/ RolloutKept(r)'
    BY <1>3 DEF RolloutInv, RolloutsKept, Target
  <1> QED BY <1>2, <1>4, <1>5, <1>6 DEF RolloutInv, RolloutsKept

LEMMA QuietMoves ==
  ASSUME RolloutInv, NEW m \in Movers,
         \/ \E ask \in MoveAsks[m] : Ask(m, ask)
         \/ Find(m) \/ StatSource(m) \/ HashSource(m) \/ Look(m) \/ ReadSource(m)
         \/ StatCopy(m) \/ HashCopy(m) \/ ReadMeta(m)
  PROVE  RolloutInv'
  <1>1. mover[m] \in AnyMover /\ MoverShape(m)
    BY DEF RolloutInv, RolloutShape
  <1>2. RolloutsKept /\ UNCHANGED ownRollout /\ stamp' = stamp
    BY DEF Ask, Find, StatSource, HashSource, Look, ReadSource, StatCopy, HashCopy, ReadMeta, Alone
  <1>3. ASSUME NEW ask \in MoveAsks[m], Ask(m, ask) PROVE RolloutInv'
    <2>1. PICK to : to = [mover[m] EXCEPT !.step = "find", !.ask = ask]
      OBVIOUS
    <2>2. ask \in Asks
      BY RolloutConstants
    <2>3. /\ to \in AnyMover /\ to.step = "find" /\ to.ask = ask /\ to.backup = mover[m].backup
          /\ to.rollout = mover[m].rollout
      BY <1>1, <2>1, <2>2 DEF AnyMover, Unnamed
    <2>4. mover' = [mover EXCEPT ![m] = to] /\ mover[m].step = "idle"
      BY <1>3, <2>1 DEF Ask
    <2> QED BY <1>2, <2>2, <2>3, <2>4, ReadingKeeps DEF Unnamed, Rewrites, Of
  <1>4. ASSUME Find(m) PROVE RolloutInv'
    <2>1. PICK found : found = inspectThreadRollout(mover[m].ask)
      OBVIOUS
    <2>2. mover[m].step = "find" /\ mover[m].ask \in Asks
      BY <1>1, <1>4 DEF Find, MoverShape
    <2>3. found \subseteq Rollouts
      BY <2>1, <2>2 DEF inspectThreadRollout, locateThreadRollout, RolloutInv, RolloutShape, Asks
    <2>4. PICK to :
            /\ mover' = [mover EXCEPT ![m] = to]
            /\ \/ to = [mover[m] EXCEPT !.step = "failed"]
               \/ \E r \in Rollouts, step \in {"stat", "done"} :
                    to = [mover[m] EXCEPT !.step = step, !.rollout = r]
      <3>1. CASE Cardinality(found) # 1 \/ (mover[m].ask.copies /\ mover[m].ask.target = "from")
        <4>1. mover' = [mover EXCEPT ![m].step = "failed"]
          BY <1>4, <2>1, <3>1 DEF Find
        <4> QED BY <4>1
      <3>2. CASE ~(Cardinality(found) # 1 \/ (mover[m].ask.copies /\ mover[m].ask.target = "from"))
        <4>1. PICK r : r = CHOOSE x \in found : TRUE
          OBVIOUS
        <4>2. r \in Rollouts
          BY <2>3, <3>2, <4>1, FS_EmptySet
        <4>3. PICK step \in {"stat", "done"} :
                mover' = [mover EXCEPT ![m].step = step, ![m].rollout = r]
          BY <1>4, <2>1, <3>2, <4>1 DEF Find
        <4> QED BY <4>2, <4>3
      <3> QED BY <3>1, <3>2
    <2>5. /\ to \in AnyMover /\ to.backup = mover[m].backup /\ to.step \in {"failed", "stat", "done"}
          /\ to.step # "failed" => to.rollout \in Rollouts
      BY <1>1, <2>4 DEF AnyMover, Unnamed
    <2> QED BY <1>2, <2>2, <2>4, <2>5, ReadingKeeps DEF Unnamed, Rewrites
  <1>5. ASSUME StatSource(m) \/ HashSource(m) PROVE RolloutInv'
    <2>1. /\ mover[m].step \in {"stat", "hash"} /\ Of(m) \in Rollouts
          /\ SourceOf(m) \in Content /\ SourceOf(m).lines \in 0..MaxLines
      BY <1>1, <1>5 DEF StatSource, HashSource, MoverShape, RolloutInv, RolloutShape, SourceOf, Content
    <2>2. PICK to : /\ mover' = [mover EXCEPT ![m] = to]
                    /\ \/ to = [mover[m] EXCEPT !.step = "hash", !.size = SourceOf(m).lines]
                       \/ to = [mover[m] EXCEPT !.step = "look", !.seen = SourceOf(m)]
      BY <1>5, ZenonT(20) DEF StatSource, HashSource
    <2>3. /\ to \in AnyMover /\ to.backup = mover[m].backup /\ to.step \in {"hash", "look"}
          /\ to.rollout = mover[m].rollout
      BY <1>1, <2>1, <2>2 DEF AnyMover, Unnamed
    <2> QED BY <1>2, <2>1, <2>2, <2>3, ReadingKeeps DEF Unnamed, Rewrites, Of
  <1>6. ASSUME NEW step, mover' = [mover EXCEPT ![m].step = step],
               \/ mover[m].step = "look" /\ step = "read" /\ ~InTarget(Of(m))
               \/ mover[m].step = "look" /\ step = "name" /\ InTarget(Of(m))
               \/ mover[m].step = "read" /\ step = "write"
               \/ mover[m].step \in {"look", "read", "statCopy", "hashCopy", "meta"}
                  /\ step \in {"failed", "hashCopy", "meta", "done"}
        PROVE  RolloutInv'
    <2>1. PICK to : to = [mover[m] EXCEPT !.step = step]
      OBVIOUS
    <2>2. /\ to \in AnyMover /\ to.backup = mover[m].backup /\ to.step = step
          /\ to.rollout = mover[m].rollout
      BY <1>1, <1>6, <2>1 DEF AnyMover, Unnamed, Rewrites
    <2>3. mover' = [mover EXCEPT ![m] = to]
      BY <1>6, <2>1
    <2>4. Of(m) \in Rollouts
      BY <1>1, <1>6 DEF MoverShape
    <2> QED BY <1>2, <1>6, <2>2, <2>3, <2>4, ReadingKeeps DEF Unnamed, Rewrites, Of
  <1>7. ASSUME Look(m) PROVE RolloutInv'
    BY <1>6, <1>7 DEF Look, Goes, afterLook
  <1>8. ASSUME ReadSource(m) PROVE RolloutInv'
    <2>1. CASE mover' = [mover EXCEPT ![m].step = "write"] \/ mover' = [mover EXCEPT ![m].step = "failed"]
      BY <1>6, <1>8, <2>1 DEF ReadSource
    <2>2. CASE mover' = [mover EXCEPT ![m].step = "write", ![m].text = rewriteRolloutCwd(SourceOf(m), "new")]
      <3>1. mover[m].step = "read" /\ Of(m) \in Rollouts
        BY <1>1, <1>8 DEF ReadSource, MoverShape
      <3>2. PICK text \in Content : text = rewriteRolloutCwd(SourceOf(m), "new")
        BY <3>1, ContentsAre DEF RolloutInv, RolloutShape, SourceOf
      <3>3. PICK to : to = [mover[m] EXCEPT !.step = "write", !.text = text]
        OBVIOUS
      <3>4. /\ to \in AnyMover /\ to.backup = mover[m].backup /\ to.step = "write"
            /\ to.rollout = mover[m].rollout
        BY <1>1, <3>3 DEF AnyMover, Unnamed, Rewrites
      <3>5. mover' = [mover EXCEPT ![m] = to]
        BY <2>2, <3>2, <3>3
      <3> QED BY <1>2, <3>1, <3>4, <3>5, ReadingKeeps DEF Unnamed, Rewrites, Of
    <2> QED BY <1>8, <2>1, <2>2 DEF ReadSource
  <1>9. ASSUME StatCopy(m) \/ HashCopy(m) \/ ReadMeta(m) PROVE RolloutInv'
    BY <1>6, <1>9 DEF StatCopy, HashCopy, ReadMeta, Goes
  <1> QED BY <1>3, <1>4, <1>5, <1>7, <1>8, <1>9

----------------------------------------------------------------------------
(* A name that nobody has on disk is taken.                                *)
LEMMA NamingKeeps ==
  ASSUME RolloutInv, NEW m \in Movers, NameBackup(m)
  PROVE  RolloutInv'
  <1>1. mover[m] \in AnyMover /\ MoverShape(m) /\ mover[m].step = "name" /\ stamp \in Nat \ {0}
    BY DEF RolloutInv, RolloutShape, NameBackup
  <1>2. PICK now \in stamp..MaxStamp, i \in 1..Cardinality(Movers) + 1 :
          /\ mover' = [mover EXCEPT ![m].step = "backup", ![m].backup = <<now, i>>]
          /\ stamp' = now /\ <<Of(m), <<now, i>>>> \notin DOMAIN rolloutCopies
    BY DEF NameBackup, nextBackupPath
  <1>3. RolloutsKept /\ ownRollout' = ownRollout
    BY DEF NameBackup
  <1>4. now \in Nat \ {0} /\ i \in Nat
    BY <1>1, <1>2, RolloutConstants
  <1>5. PICK name : name = <<now, i>> /\ name \in Nat \X Nat /\ name # <<0, 0>>
    <2>1. <<now, i>> \in Nat \X Nat
      BY <1>4
    <2>2. <<now, i>>[1] # <<0, 0>>[1]
      BY <1>4
    <2> QED BY <2>1, <2>2, Zenon
  <1>6. PICK to : to = [mover[m] EXCEPT !.step = "backup", !.backup = name]
    OBVIOUS
  <1>7. to \in AnyMover /\ to.step = "backup" /\ to.backup = name /\ to.rollout = mover[m].rollout
    BY <1>1, <1>5, <1>6 DEF AnyMover, Unnamed
  <1>8. mover' = [mover EXCEPT ![m] = to]
    BY <1>2, <1>5, <1>6
  <1>9. /\ mover' \in [Movers -> AnyMover] /\ mover'[m] = to
        /\ \A o \in Movers \ {m} : mover'[o] = mover[o]
        /\ \A r : SharedName(r) => SharedName(r)'
    BY <1>1, <1>7, <1>8, OneMoves DEF Unnamed
  <1>10. RolloutShape'
    BY <1>2, <1>3, <1>4, <1>9, ZenonT(20) DEF RolloutInv, RolloutShape, RolloutsKept
  <1>11. \A r : RolloutKept(r) => RolloutKept(r)'
    BY <1>3, <1>9 DEF RolloutKept, RolloutsKept
  <1>12. ASSUME NEW o \in Movers PROVE MoverShape(o)'
    <2>1. CASE o = m
      BY <1>1, <1>3, <1>5, <1>7, <1>9, <2>1 DEF MoverShape, RolloutsKept, Of, InTarget, Unnamed
    <2>2. CASE o # m
      BY <1>3, <1>9, <2>2 DEF RolloutInv, MoverShape, RolloutsKept, Of, InTarget
    <2> QED BY <2>1, <2>2
  <1>13. ASSUME NEW o \in Movers
        PROVE  /\ mover'[o].step = "backup" => CopyKeyOf(o)' \notin DOMAIN rolloutCopies' \/ SharedName(Of(o))'
               /\ mover'[o].step = "backingUp" =>
                    /\ CopyKeyOf(o)' \in DOMAIN rolloutCopies'
                    /\ rolloutCopies'[CopyKeyOf(o)'].lines = 0 \/ SharedName(Of(o))'
               /\ mover'[o].step \in Rewrites /\ Of(o)' \in DOMAIN ownRollout' => RolloutKept(Of(o))'
    <2>1. CASE o = m
      <3>1. CopyKeyOf(m)' = <<Of(m), <<now, i>>>>
        BY <1>5, <1>7, <1>9 DEF CopyKeyOf, Of
      <3> QED BY <1>2, <1>3, <1>7, <1>9, <2>1, <3>1 DEF Rewrites, RolloutsKept
    <2>2. CASE o # m
      <3>1. Of(o)' = Of(o) /\ CopyKeyOf(o)' = CopyKeyOf(o) /\ mover'[o].step = mover[o].step
        BY <1>9, <2>2 DEF Of, CopyKeyOf
      <3>2. rolloutCopies' = rolloutCopies /\ ownRollout' = ownRollout
        BY <1>3 DEF RolloutsKept
      <3>3. SharedName(Of(o)) => SharedName(Of(o))'
        BY <1>9, <3>1 DEF SharedName
      <3>4. RolloutKept(Of(o)) => RolloutKept(Of(o))'
        BY <3>1, <3>2, <3>3 DEF RolloutKept
      <3> QED BY <3>1, <3>2, <3>3, <3>4 DEF RolloutInv
    <2> QED BY <2>1, <2>2
  <1>14. ASSUME NEW r \in DOMAIN ownRollout' PROVE Target(r)' = ownRollout'[r].content \/ RolloutKept(r)'
    BY <1>3, <1>11 DEF RolloutInv, RolloutsKept, Target
  <1> QED BY <1>3, <1>10, <1>12, <1>13, <1>14 DEF RolloutInv, RolloutsKept

(* The backup of a mover is written: nobody's text was in it, unless the   *)
(* name has two owners.                                                    *)
LEMMA CopyingKeeps ==
  ASSUME RolloutInv, NEW m \in Movers, NEW to \in AnyMover, mover' = [mover EXCEPT ![m] = to],
         mover[m].step \in {"backup", "backingUp"}, to.step \in {"backingUp", "read", "crashed"},
         to.backup = mover[m].backup, to.rollout = mover[m].rollout,
         NEW content \in Content, WritesBackup(m, content),
         to.step = "backingUp" => content.lines = 0,
         to.step = "read" => content = Target(Of(m)),
         UNCHANGED <<sessions, ownRollout, stamp>>
  PROVE  RolloutInv'
  <1>1. /\ mover' \in [Movers -> AnyMover] /\ mover'[m] = to
        /\ \A o \in Movers \ {m} : mover'[o] = mover[o]
        /\ \A r : SharedName(r) => SharedName(r)'
    BY OneMoves DEF Unnamed, Of
  <1>2. /\ DOMAIN rolloutCopies' = DOMAIN rolloutCopies \cup {CopyKeyOf(m)}
        /\ rolloutCopies'[CopyKeyOf(m)] = content
        /\ \A b \in DOMAIN rolloutCopies \ {CopyKeyOf(m)} : rolloutCopies'[b] = rolloutCopies[b]
        /\ rolloutCopies' = [b \in DOMAIN rolloutCopies' |-> rolloutCopies'[b]]
    <2>1. PICK k : k = CopyKeyOf(m)
      OBVIOUS
    <2>2. rolloutCopies' = [p \in DOMAIN rolloutCopies \cup {k} |-> IF p = k THEN content ELSE rolloutCopies[p]]
      BY <2>1 DEF WritesBackup, CopyKeyOf, With
    <2> QED BY <2>1, <2>2
  <1>3. RolloutShape'
    BY <1>1 DEF RolloutInv, RolloutShape
  <1>4. ASSUME NEW o \in Movers
        PROVE  Of(o)' = Of(o) /\ CopyKeyOf(o)' = CopyKeyOf(o)
    BY <1>1 DEF Of, CopyKeyOf
  <1>5. ASSUME NEW o \in Movers PROVE MoverShape(o)'
    <2>1. CASE o = m
      BY <1>1, <2>1 DEF RolloutInv, MoverShape, Of, InTarget, Unnamed
    <2>2. CASE o # m
      BY <1>1, <2>2 DEF RolloutInv, MoverShape, Of, InTarget
    <2> QED BY <2>1, <2>2
  <1>6. ASSUME NEW r \in DOMAIN ownRollout, RolloutKept(r) PROVE RolloutKept(r)'
    <2>1. CASE ownRollout[r].late \/ SharedName(r)
      BY <1>1, <2>1 DEF RolloutKept
    <2>2. ASSUME NEW b \in DOMAIN rolloutCopies, b[1] = r, rolloutCopies[b] = ownRollout[r].content
          PROVE  RolloutKept(r)'
      <3>1. CASE b # CopyKeyOf(m)
        BY <1>2, <2>2, <3>1 DEF RolloutKept
      <3>2. CASE b = CopyKeyOf(m)
        <4>1. r = Of(m) /\ rolloutCopies[b].lines # 0
          BY <2>2, <3>2 DEF CopyKeyOf, RolloutInv, RolloutShape
        <4>2. SharedName(r)
          BY <3>2, <4>1 DEF RolloutInv
        <4> QED BY <1>1, <4>2 DEF RolloutKept
      <3> QED BY <3>1, <3>2
    <2> QED BY <1>6, <2>1, <2>2 DEF RolloutKept
  <1>7. ASSUME NEW o \in Movers \ {m}, mover[o].step \in {"backup", "backingUp"}, CopyKeyOf(o) = CopyKeyOf(m)
        PROVE  SharedName(Of(o))'
    <2>1. Of(m) = Of(o) /\ mover[m].backup = mover[o].backup /\ mover[o].backup # <<0, 0>>
      BY <1>7 DEF CopyKeyOf, RolloutInv, MoverShape
    <2>2. SharedName(Of(o))
      BY <2>1 DEF SharedName
    <2>3. PICK r : r = Of(o)
      OBVIOUS
    <2> QED BY <1>1, <1>4, <2>2, <2>3 DEF SharedName
  <1>8. ASSUME NEW o \in Movers
        PROVE  /\ mover'[o].step = "backup" => CopyKeyOf(o)' \notin DOMAIN rolloutCopies' \/ SharedName(Of(o))'
               /\ mover'[o].step = "backingUp" =>
                    /\ CopyKeyOf(o)' \in DOMAIN rolloutCopies'
                    /\ rolloutCopies'[CopyKeyOf(o)'].lines = 0 \/ SharedName(Of(o))'
               /\ mover'[o].step \in Rewrites /\ Of(o)' \in DOMAIN ownRollout' => RolloutKept(Of(o))'
    <2>1. CASE o = m
      <3>1. ASSUME to.step = "read", Of(m) \in DOMAIN ownRollout PROVE RolloutKept(Of(m))'
        <4>1. PICK r : r = Of(m) /\ r \in DOMAIN ownRollout
          BY <3>1
        <4>2. RolloutKept(r)'
          <5>1. CASE Target(r) = ownRollout[r].content
            <6>1. CopyKeyOf(m)[1] = r
              BY <4>1 DEF CopyKeyOf
            <6> QED BY <1>2, <3>1, <4>1, <5>1, <6>1 DEF RolloutKept
          <5>2. CASE RolloutKept(r)
            BY <1>6, <4>1, <5>2
          <5> QED BY <4>1, <5>1, <5>2 DEF RolloutInv
        <4> QED BY <1>4, <4>1, <4>2 DEF RolloutKept, SharedName
      <3> QED BY <1>1, <1>2, <1>4, <2>1, <3>1 DEF Rewrites
    <2>2. CASE o # m
      <3>1. Of(o)' = Of(o) /\ CopyKeyOf(o)' = CopyKeyOf(o) /\ mover'[o].step = mover[o].step
        BY <1>1, <1>4, <2>2
      <3>2. SharedName(Of(o)) => SharedName(Of(o))'
        BY <1>1, <3>1, SMTT(20) DEF SharedName
      <3>3. Of(o) \in DOMAIN ownRollout /\ RolloutKept(Of(o)) => RolloutKept(Of(o))'
        <4>1. PICK r : r = Of(o)
          OBVIOUS
        <4> QED BY <1>6, <3>1, <4>1 DEF RolloutKept, SharedName
      <3> QED BY <1>2, <1>7, <2>2, <3>1, <3>2, <3>3 DEF RolloutInv
    <2> QED BY <2>1, <2>2
  <1>9. ASSUME NEW r \in DOMAIN ownRollout' PROVE Target(r)' = ownRollout'[r].content \/ RolloutKept(r)'
    BY <1>6 DEF RolloutInv, Target
  <1> QED BY <1>2, <1>3, <1>5, <1>8, <1>9 DEF RolloutInv

(* The file of the target is written: what was in it is in a backup.       *)
LEMMA WritingIs ==
  ASSUME RolloutShape, NEW r, NEW content \in Content, WritesTarget(r, content)
  PROVE  /\ sessions' = [home \in Homes |-> sessions'[home]] /\ sessions'["from"] = sessions["from"]
         /\ DOMAIN sessions'["to"] = DOMAIN sessions["to"] \cup {r} /\ sessions'["to"][r] = content
         /\ sessions'["to"] = [x \in DOMAIN sessions'["to"] |-> sessions'["to"][x]]
         /\ \A x \in DOMAIN sessions["to"] \ {r} : sessions'["to"][x] = sessions["to"][x]
         /\ \A x \in DOMAIN sessions'["to"] : sessions'["to"][x] \in Content
  <1>1. PICK written : written = [x \in DOMAIN sessions["to"] \cup {r} |-> IF x = r THEN content ELSE sessions["to"][x]]
    OBVIOUS
  <1>2. sessions' = [sessions EXCEPT !["to"] = written]
    BY <1>1 DEF WritesTarget, With
  <1>3. /\ sessions' = [home \in Homes |-> sessions'[home]] /\ sessions'["from"] = sessions["from"]
        /\ sessions'["to"] = written
    BY <1>2 DEF RolloutShape, Homes
  <1>4. \A x \in DOMAIN sessions'["to"] : sessions'["to"][x] \in Content
    <2>1. ASSUME NEW x \in DOMAIN written PROVE written[x] \in Content
      <3>1. CASE x = r
        BY <1>1, <3>1
      <3>2. CASE x # r
        BY <1>1, <3>2 DEF RolloutShape
      <3> QED BY <3>1, <3>2
    <2> QED BY <1>3, <2>1
  <1> QED BY <1>1, <1>3, <1>4

LEMMA ReplacingKeeps ==
  ASSUME RolloutInv, NEW m \in Movers, NEW to \in AnyMover, mover' = [mover EXCEPT ![m] = to],
         mover[m].step \in {"write", "writing"}, to.step \in {"writing", "statCopy", "crashed"},
         to.backup = mover[m].backup, to.rollout = mover[m].rollout,
         NEW content \in Content, WritesTarget(Of(m), content),
         UNCHANGED <<rolloutCopies, ownRollout, stamp>>
  PROVE  RolloutInv'
  <1>1. /\ mover' \in [Movers -> AnyMover] /\ mover'[m] = to
        /\ \A o \in Movers \ {m} : mover'[o] = mover[o]
        /\ \A r : SharedName(r) => SharedName(r)'
    BY OneMoves DEF Unnamed, Of
  <1>2. PICK r : r = Of(m) /\ WritesTarget(r, content)
    OBVIOUS
  <1>3. /\ sessions' = [home \in Homes |-> sessions'[home]] /\ sessions'["from"] = sessions["from"]
        /\ DOMAIN sessions'["to"] = DOMAIN sessions["to"] \cup {r}
        /\ sessions'["to"] = [x \in DOMAIN sessions'["to"] |-> sessions'["to"][x]]
        /\ \A x \in DOMAIN sessions["to"] \ {r} : sessions'["to"][x] = sessions["to"][x]
        /\ \A x \in DOMAIN sessions'["to"] : sessions'["to"][x] \in Content
    BY <1>2, WritingIs DEF RolloutInv
  <1>4. RolloutShape'
    BY <1>1, <1>3 DEF RolloutInv, RolloutShape
  <1>5. ASSUME NEW o \in Movers
        PROVE  Of(o)' = Of(o) /\ CopyKeyOf(o)' = CopyKeyOf(o)
    BY <1>1 DEF Of, CopyKeyOf
  <1>6. ASSUME NEW o \in Movers PROVE MoverShape(o)'
    <2>1. CASE o = m
      BY <1>1, <1>3, <2>1 DEF RolloutInv, MoverShape, Of, InTarget, Unnamed
    <2>2. CASE o # m
      BY <1>1, <1>3, <2>2 DEF RolloutInv, MoverShape, Of, InTarget
    <2> QED BY <2>1, <2>2
  <1>7. \A x : RolloutKept(x) => RolloutKept(x)'
    BY <1>1 DEF RolloutKept
  <1>8. ASSUME NEW o \in Movers
        PROVE  /\ mover'[o].step = "backup" => CopyKeyOf(o)' \notin DOMAIN rolloutCopies' \/ SharedName(Of(o))'
               /\ mover'[o].step = "backingUp" =>
                    /\ CopyKeyOf(o)' \in DOMAIN rolloutCopies'
                    /\ rolloutCopies'[CopyKeyOf(o)'].lines = 0 \/ SharedName(Of(o))'
               /\ mover'[o].step \in Rewrites /\ Of(o)' \in DOMAIN ownRollout' => RolloutKept(Of(o))'
    <2>1. SharedName(Of(o)) => SharedName(Of(o))'
      BY <1>1, <1>5 DEF SharedName
    <2>2. RolloutKept(Of(o)) => RolloutKept(Of(o))'
      BY <1>5, <2>1 DEF RolloutKept
    <2>3. mover'[o].step = mover[o].step \/ o = m
      BY <1>1
    <2> QED BY <1>1, <1>5, <2>1, <2>2, <2>3 DEF RolloutInv, Rewrites
  <1>9. ASSUME NEW x \in DOMAIN ownRollout' PROVE Target(x)' = ownRollout'[x].content \/ RolloutKept(x)'
    <2>1. CASE x = r
      BY <1>2, <1>7, <2>1 DEF RolloutInv, Rewrites
    <2>2. CASE x # r
      <3>1. Target(x)' = Target(x)
        BY <1>3, <2>2 DEF RolloutInv, RolloutShape, Target
      <3> QED BY <1>7, <3>1 DEF RolloutInv
    <2> QED BY <2>1, <2>2
  <1> QED BY <1>4, <1>6, <1>8, <1>9 DEF RolloutInv

LEMMA TextIs ==
  ASSUME RolloutInv, NEW m \in Movers, mover[m].step \in {"write", "writing"}
  PROVE  Text(m) \in Content /\ Text(m).lines \in 0..MaxLines /\ SourceOf(m) \in Content
  <1>1. Of(m) \in Rollouts /\ mover[m].text \in Content
    BY DEF RolloutInv, RolloutShape, MoverShape, AnyMover
  <1>2. SourceOf(m) \in Content
    BY <1>1 DEF RolloutInv, RolloutShape, SourceOf
  <1>3. Text(m) \in Content
    BY <1>1, <1>2 DEF Text
  <1> QED BY <1>2, <1>3 DEF Content

LEMMA WritingSteps ==
  ASSUME RolloutInv, NEW m \in Movers,
         BeginBackup(m) \/ EndBackup(m) \/ BeginWrite(m) \/ EndWrite(m) \/ CrashMover(m)
  PROVE  RolloutInv'
  <1>1. mover[m] \in AnyMover /\ MoverShape(m) /\ 0 \in 0..MaxLines
    BY RolloutConstants DEF RolloutInv, RolloutShape
  <1>2. UNCHANGED <<stamp, ownRollout>>
    BY DEF BeginBackup, EndBackup, BeginWrite, EndWrite, CrashMover, Alone
  <1>3. PICK step \in {"backingUp", "read", "writing", "statCopy", "crashed"} :
          mover' = [mover EXCEPT ![m].step = step]
    BY DEF BeginBackup, EndBackup, BeginWrite, EndWrite, CrashMover, Goes
  <1>4. PICK to : to = [mover[m] EXCEPT !.step = step]
    OBVIOUS
  <1>5. /\ to \in AnyMover /\ to.step = step /\ to.backup = mover[m].backup
        /\ to.rollout = mover[m].rollout /\ mover' = [mover EXCEPT ![m] = to]
    BY <1>1, <1>3, <1>4 DEF AnyMover, Unnamed, Rewrites
  <1>6. /\ BeginBackup(m) => mover[m].step = "backup" /\ step = "backingUp"
        /\ EndBackup(m) => mover[m].step = "backingUp" /\ step = "read"
        /\ BeginWrite(m) => mover[m].step = "write" /\ step = "writing"
        /\ EndWrite(m) => mover[m].step = "writing" /\ step = "statCopy"
        /\ CrashMover(m) => mover[m].step \in {"writing", "backingUp"} /\ step = "crashed"
    <2>1. mover'[m].step = step
      BY <1>3 DEF RolloutInv, RolloutShape
    <2>2. \A s : mover' = [mover EXCEPT ![m].step = s] => mover'[m].step = s
      BY DEF RolloutInv, RolloutShape
    <2> QED BY <2>1, <2>2 DEF BeginBackup, EndBackup, BeginWrite, EndWrite, CrashMover, Goes
  <1>7. mover[m].step \in {"backup", "backingUp"} => Target(Of(m)) \in Content /\ Target(Of(m)).lines \in 0..MaxLines
    BY <1>1 DEF RolloutInv, RolloutShape, MoverShape, InTarget, Target, Content
  <1>8. CASE BeginBackup(m)
    <2>1. PICK content \in Content : content = Prefix(Target(Of(m)), 0) /\ content.lines = 0
      BY <1>1, <1>6, <1>7, <1>8, ContentsAre
    <2> QED BY <1>2, <1>5, <1>6, <1>8, <2>1, CopyingKeeps DEF BeginBackup
  <1>9. CASE EndBackup(m)
    <2>1. PICK content \in Content : content = Target(Of(m))
      BY <1>6, <1>7, <1>9
    <2> QED BY <1>2, <1>5, <1>6, <1>9, <2>1, CopyingKeeps DEF EndBackup
  <1>10. CASE BeginWrite(m)
    <2>1. PICK content \in Content : content = Prefix(SourceOf(m), 0)
      BY <1>1, <1>6, <1>10, TextIs, ContentsAre
    <2> QED BY <1>2, <1>5, <1>6, <1>10, <2>1, ReplacingKeeps DEF BeginWrite
  <1>11. CASE EndWrite(m)
    <2>1. PICK content \in Content : content = Text(m)
      BY <1>6, <1>11, TextIs
    <2> QED BY <1>2, <1>5, <1>6, <1>11, <2>1, ReplacingKeeps DEF EndWrite
  <1>12. CASE CrashMover(m)
    <2>1. CASE mover[m].step = "writing"
      <3>1. PICK n \in 0..Text(m).lines : WritesTarget(Of(m), Prefix(Text(m), n))
        BY <1>12, <2>1 DEF CrashMover
      <3>2. n \in 0..MaxLines /\ Text(m) \in Content /\ rolloutCopies' = rolloutCopies
        BY <1>12, <2>1, <3>1, TextIs, RolloutConstants DEF CrashMover
      <3>3. PICK content \in Content : content = Prefix(Text(m), n)
        BY <3>2, ContentsAre
      <3> QED BY <1>2, <1>5, <1>6, <1>12, <2>1, <3>1, <3>2, <3>3, ReplacingKeeps
    <2>2. CASE mover[m].step = "backingUp"
      <3>1. PICK n \in 0..Target(Of(m)).lines : WritesBackup(m, Prefix(Target(Of(m)), n))
        BY <1>12, <2>2 DEF CrashMover
      <3>2. n \in 0..MaxLines /\ sessions' = sessions
        BY <1>7, <1>12, <2>2, <3>1, RolloutConstants DEF CrashMover
      <3>3. PICK content \in Content : content = Prefix(Target(Of(m)), n)
        BY <1>7, <2>2, <3>2, ContentsAre
      <3> QED BY <1>2, <1>5, <1>6, <1>12, <2>2, <3>1, <3>2, <3>3, CopyingKeeps
    <2> QED BY <1>6, <1>12, <2>1, <2>2
  <1> QED BY <1>8, <1>9, <1>10, <1>11, <1>12

----------------------------------------------------------------------------
(* The threads write on.                                                   *)
LEMMA ThreadSteps ==
  ASSUME RolloutInv, NEW r \in Rollouts, SourceGrows(r) \/ TargetGrows(r)
  PROVE  RolloutInv'
  <1>1. UNCHANGED <<rolloutCopies, stamp, mover>>
    BY DEF SourceGrows, TargetGrows
  <1>2. \A x : SharedName(x)' = SharedName(x)
    BY <1>1 DEF SharedName, Of
  <1>3. \A o \in Movers : Of(o)' = Of(o) /\ CopyKeyOf(o)' = CopyKeyOf(o)
    BY <1>1 DEF Of, CopyKeyOf
  <1>4. CASE SourceGrows(r)
    <2>1. /\ sessions["from"][r].lines < MaxLines /\ ownRollout' = ownRollout
          /\ sessions' = [sessions EXCEPT !["from"][r].lines = @ + 1]
      BY <1>4 DEF SourceGrows
    <2>2. sessions["from"][r] \in Content /\ sessions["from"][r].lines + 1 \in 0..MaxLines
      <3>1. sessions["from"][r] \in Content
        BY DEF RolloutInv, RolloutShape
      <3>2. PICK n \in 0..MaxLines : n = sessions["from"][r].lines
        BY <3>1 DEF Content
      <3>3. n + 1 \in 0..MaxLines
        BY <2>1, <3>2, RolloutConstants
      <3> QED BY <3>1, <3>2, <3>3
    <2>3. PICK content : content = [sessions["from"][r] EXCEPT !.lines = @ + 1]
      OBVIOUS
    <2>4. content \in Content
      BY <2>2, <2>3 DEF Content
    <2>5. PICK from : from = [sessions["from"] EXCEPT ![r] = content]
      OBVIOUS
    <2>6. sessions' = [sessions EXCEPT !["from"] = from]
      BY <2>1, <2>3, <2>5
    <2>7. /\ sessions' = [home \in Homes |-> sessions'[home]] /\ sessions'["to"] = sessions["to"]
          /\ sessions'["from"] = from
      BY <2>6 DEF RolloutInv, RolloutShape, Homes
    <2>8. DOMAIN from = Rollouts /\ \A x \in Rollouts : from[x] \in Content
      BY <2>4, <2>5 DEF RolloutInv, RolloutShape
    <2>9. RolloutShape'
      BY <1>1, <2>1, <2>7, <2>8, ZenonT(20) DEF RolloutInv, RolloutShape
    <2>10. \A x : RolloutKept(x)' = RolloutKept(x) /\ Target(x)' = Target(x)
      BY <1>1, <1>2, <2>1, <2>7 DEF RolloutKept, Target
    <2> QED BY <1>1, <1>2, <1>3, <2>1, <2>7, <2>9, <2>10 DEF RolloutInv, MoverShape, InTarget, Of, CopyKeyOf, RolloutKept, SharedName
  <1>5. CASE TargetGrows(r)
    <2>1. /\ r \in DOMAIN ownRollout /\ r \in DOMAIN sessions["to"] /\ Target(r) \in Content
          /\ Target(r).lines < MaxLines
      BY <1>5 DEF TargetGrows, InTarget, RolloutInv, RolloutShape, Target
    <2>2. PICK content : content = [Target(r) EXCEPT !.lines = @ + 1] /\ WritesTarget(r, content)
      BY <1>5 DEF TargetGrows
    <2>3. content \in Content /\ content.lines # 0
      BY <2>1, <2>2, RolloutConstants DEF Content
    <2>4. /\ sessions' = [home \in Homes |-> sessions'[home]] /\ sessions'["from"] = sessions["from"]
          /\ DOMAIN sessions'["to"] = DOMAIN sessions["to"] \cup {r} /\ sessions'["to"][r] = content
          /\ sessions'["to"] = [x \in DOMAIN sessions'["to"] |-> sessions'["to"][x]]
          /\ \A x \in DOMAIN sessions["to"] \ {r} : sessions'["to"][x] = sessions["to"][x]
          /\ \A x \in DOMAIN sessions'["to"] : sessions'["to"][x] \in Content
      BY <2>2, <2>3, WritingIs DEF RolloutInv
    <2>5. PICK late \in BOOLEAN : late = \E m \in Movers : Replacing(m, r)
      OBVIOUS
    <2>6. ownRollout' = [ownRollout EXCEPT ![r] = [content |-> content, late |-> late]]
      <3>1. Target(r)' = content
        BY <2>4 DEF Target
      <3> QED BY <1>5, <2>5, <3>1 DEF TargetGrows
    <2>7. /\ DOMAIN ownRollout' = DOMAIN ownRollout /\ ownRollout' = [x \in DOMAIN ownRollout' |-> ownRollout'[x]]
          /\ ownRollout'[r].content = content /\ ownRollout'[r].late = late
          /\ ownRollout'[r] \in [content : {x \in Content : x.lines # 0}, late : BOOLEAN]
          /\ \A x \in DOMAIN ownRollout \ {r} : ownRollout'[x] = ownRollout[x]
      BY <2>1, <2>3, <2>6 DEF RolloutInv, RolloutShape
    <2>8. RolloutShape'
      BY <1>1, <2>1, <2>4, <2>7 DEF RolloutInv, RolloutShape
    <2>9. \A x \in DOMAIN ownRollout \ {r} : RolloutKept(x) => RolloutKept(x)'
      BY <1>1, <1>2, <2>7 DEF RolloutKept
    <2>10. ASSUME NEW o \in Movers, mover[o].step \in Rewrites, Of(o) \in DOMAIN ownRollout'
           PROVE  RolloutKept(Of(o))'
      <3>1. CASE Of(o) = r
        <4>1. late
          BY <2>5, <2>10, <3>1 DEF Replacing, Rewrites
        <4> QED BY <1>3, <2>7, <3>1, <4>1 DEF RolloutKept
      <3>2. CASE Of(o) # r
        <4>1. PICK x \in DOMAIN ownRollout \ {r} : x = Of(o)
          BY <2>7, <2>10, <3>2
        <4>2. RolloutKept(x)'
          BY <2>9, <2>10, <4>1 DEF RolloutInv
        <4> QED BY <1>3, <4>1, <4>2 DEF RolloutKept, SharedName
      <3> QED BY <3>1, <3>2
    <2>11. ASSUME NEW x \in DOMAIN ownRollout' PROVE Target(x)' = ownRollout'[x].content \/ RolloutKept(x)'
      <3>1. CASE x = r
        BY <2>4, <2>7, <3>1 DEF Target
      <3>2. CASE x # r
        <4>1. Target(x)' = Target(x)
          BY <2>4, <2>7, <3>2 DEF RolloutInv, RolloutShape, Target
        <4> QED BY <2>7, <2>9, <3>2, <4>1 DEF RolloutInv
      <3> QED BY <3>1, <3>2
    <2>12. ASSUME NEW o \in Movers PROVE MoverShape(o)'
      BY <1>1, <2>4 DEF RolloutInv, MoverShape, InTarget, Of
    <2>13. ASSUME NEW o \in Movers
           PROVE  /\ mover'[o].step = "backup" => CopyKeyOf(o)' \notin DOMAIN rolloutCopies' \/ SharedName(Of(o))'
                  /\ mover'[o].step = "backingUp" =>
                       /\ CopyKeyOf(o)' \in DOMAIN rolloutCopies'
                       /\ rolloutCopies'[CopyKeyOf(o)'].lines = 0 \/ SharedName(Of(o))'
      BY <1>1, <1>3 DEF RolloutInv, SharedName, Of
    <2> QED BY <1>1, <1>3, <2>8, <2>10, <2>11, <2>12, <2>13 DEF RolloutInv
  <1> QED BY <1>4, <1>5

LEMMA NoRolloutStep == RolloutInv /\ UNCHANGED rolloutVars => RolloutInv'
  <1> SUFFICES ASSUME RolloutInv, UNCHANGED rolloutVars PROVE RolloutInv'
    OBVIOUS
  <1>1. RolloutShape' /\ \A m \in Movers : MoverShape(m)'
    BY DEF rolloutVars, RolloutInv, RolloutShape, MoverShape, Of, InTarget
  <1> QED BY <1>1 DEF rolloutVars, RolloutInv, CopyKeyOf, Of, RolloutKept, SharedName, Target

(* What a thread of the target home wrote to its rollout is in the file or *)
(* in a backup (installThreadRollout with --replace): the name of the      *)
(* backup was free and what the file held is in it before it is replaced,  *)
(* whatever dies and whoever else replaces it, unless two took one name or *)
(* the line came while the file was being replaced.                        *)
THEOREM ReplacedRolloutIsKept == RolloutSpec => []ReplacedRolloutSurvives
  <1>1. RolloutInv /\ [RolloutNext]_rolloutVars => RolloutInv'
    BY QuietMoves, NamingKeeps, WritingSteps, ThreadSteps, NoRolloutStep DEF RolloutNext, MoverStep
  <1>2. RolloutInv => ReplacedRolloutSurvives
    BY DEF RolloutInv, RolloutKept, ReplacedRolloutSurvives
  <1> QED BY <1>1, <1>2, RolloutsStart, PTL DEF RolloutSpec

-----------------------------------------------------------------------------
(***************************************************************************)
(* Moving memories, for any transplants and files.                         *)
(***************************************************************************)
Overwriting == {"read", "merging", "copy", "copying"}
AtFile == Overwriting \cup {"backup", "backingUp"}

(* What a transplant has in hand.                                          *)
TShape(x) ==
  /\ x = [step |-> x.step, ask |-> x.ask, todo |-> x.todo, plan |-> x.plan, file |-> x.file,
          stamps |-> x.stamps]
  /\ x.plan = [f \in DOMAIN x.plan |-> x.plan[f]] /\ x.stamps = [f \in DOMAIN x.stamps |-> x.stamps[f]]
  /\ x.todo \cap DOMAIN x.plan = {} /\ x.todo \cap DOMAIN x.stamps = {}
  /\ x.step = "idle" => DOMAIN x.plan = {} /\ DOMAIN x.stamps = {}
  /\ \A f \in DOMAIN x.plan : x.plan[f] \in {"overwrite", "merge"} => f \in DOMAIN x.stamps
  /\ x.step \in AtFile => x.file \in DOMAIN x.plan /\ x.plan[x.file] \in {"add", "overwrite", "merge"}
  /\ x.step \in {"backup", "backingUp"} => x.plan[x.file] # "add"

(* It has copied file f away, or will not.                                 *)
Past(x, f) ==
  \/ f \in DOMAIN x.plan /\ x.plan[f] = "handled"
  \/ x.file = f /\ x.step \in {"backingUp", "failed"} \cup Overwriting
Owns(x, b) == b[1] \in DOMAIN x.stamps /\ x.stamps[b[1]] = b[2] /\ Past(x, b[1])

TextKept(f) ==
  \/ \E b \in DOMAIN memoryCopies : b[1] = f /\ memoryCopies[b] = ownMemory[f].text
  \/ ownMemory[f].late \/ SameInstant(f) \/ WithoutBackup(f)

MemoryShape ==
  /\ transplant = [t \in Transplants |-> transplant[t]]
  /\ \A t \in Transplants : TShape(transplant[t])
  /\ memories = [f \in DOMAIN memories |-> memories[f]]
  /\ memoryCopies = [b \in DOMAIN memoryCopies |-> memoryCopies[b]]
  /\ ownMemory = [f \in DOMAIN ownMemory |-> ownMemory[f]]
  /\ DOMAIN ownMemory \subseteq DOMAIN memories
  /\ \A f \in DOMAIN ownMemory : ownMemory[f].text # Torn

BackupKeyOf(x) == <<x.file, x.stamps[x.file]>>

(* Whoever is about to replace a file has copied it away, or was asked not *)
(* to; what was planned as missing came too late.                          *)
MemoryInv ==
  /\ MemoryShape
  /\ \A b \in DOMAIN memoryCopies : \E t \in Transplants : Owns(transplant[t], b)
  /\ \A t \in Transplants :
       /\ transplant[t].step = "backingUp" =>
            /\ BackupKeyOf(transplant[t]) \in DOMAIN memoryCopies
            /\ memoryCopies[BackupKeyOf(transplant[t])] = Torn \/ SameInstant(FileOf(t))
       /\ \A f \in DOMAIN transplant[t].plan \cap DOMAIN ownMemory : transplant[t].plan[f] = "add" => TextKept(f)
       /\ transplant[t].step \in Overwriting /\ FileOf(t) \in DOMAIN ownMemory => TextKept(FileOf(t))
  /\ \A f \in DOMAIN ownMemory : memories[f] = ownMemory[f].text \/ TextKept(f)

LEMMA OwnIsNotTorn == \A n : OwnText(n) # Torn
  <1> SUFFICES ASSUME NEW n PROVE OwnText(n) # Torn
    OBVIOUS
  <1>1. OwnText(n)[1] = "own" /\ Torn[1] = "torn"
    BY DEF OwnText, Torn
  <1> QED BY <1>1

LEMMA MemoriesStart == MemoryInit => MemoryInv
  <1> SUFFICES ASSUME MemoryInit PROVE MemoryInv
    OBVIOUS
  <1>1. PICK there \in SUBSET MemoryFiles :
          /\ memories = [f \in there |-> OwnText(0)]
          /\ ownMemory = [f \in there |-> [text |-> OwnText(0), late |-> FALSE]]
    BY DEF MemoryInit
  <1>2. PICK own : own = OwnText(0) /\ own # Torn
    BY OwnIsNotTorn
  <1>3. \A f \in there : memories[f] = own /\ ownMemory[f].text = own
    BY <1>1, <1>2
  <1>4. /\ IdleTransplant.step = "idle" /\ DOMAIN IdleTransplant.plan = {} /\ DOMAIN IdleTransplant.stamps = {}
        /\ TShape(IdleTransplant)
    BY DEF IdleTransplant, TShape, AtFile, Overwriting
  <1>5. /\ transplant = [t \in Transplants |-> transplant[t]]
        /\ \A t \in Transplants : transplant[t] = IdleTransplant
    BY DEF MemoryInit
  <1>6. memoryCopies = [b \in DOMAIN memoryCopies |-> memoryCopies[b]] /\ DOMAIN memoryCopies = {}
    BY DEF MemoryInit
  <1>7. MemoryShape
    BY <1>1, <1>2, <1>3, <1>4, <1>5, <1>6 DEF MemoryShape
  <1> QED BY <1>1, <1>3, <1>4, <1>5, <1>6, <1>7 DEF MemoryInv, Overwriting

----------------------------------------------------------------------------
(* A step of a transplant: what it has planned and copied, it has.         *)
Proceeds(x, to) ==
  /\ \A f \in DOMAIN x.stamps : f \in DOMAIN to.stamps /\ to.stamps[f] = x.stamps[f]
  /\ \A f \in DOMAIN x.plan : f \in DOMAIN to.plan /\ to.plan[f] \in {x.plan[f], "handled"}
  /\ to.ask = x.ask \/ DOMAIN x.plan = {}
  /\ \A f : Past(x, f) => Past(to, f)

LEMMA OneTransplants ==
  ASSUME MemoryShape, NEW t \in Transplants, NEW to, transplant' = [transplant EXCEPT ![t] = to],
         TShape(to), Proceeds(transplant[t], to)
  PROVE  /\ transplant' = [s \in Transplants |-> transplant'[s]] /\ transplant'[t] = to
         /\ \A s \in Transplants \ {t} : transplant'[s] = transplant[s]
         /\ \A s \in Transplants : TShape(transplant'[s])
         /\ \A f : SameInstant(f) => SameInstant(f)'
         /\ \A f : WithoutBackup(f) => WithoutBackup(f)'
         /\ \A s \in Transplants : \A b : Owns(transplant[s], b) => Owns(transplant'[s], b)
  <1>1. /\ transplant' = [s \in Transplants |-> transplant'[s]] /\ transplant'[t] = to
        /\ \A s \in Transplants \ {t} : transplant'[s] = transplant[s]
    BY DEF MemoryShape
  <1>2. \A s \in Transplants : TShape(transplant'[s])
    BY <1>1 DEF MemoryShape
  <1>3. \A s \in Transplants :
          /\ \A f \in DOMAIN transplant[s].stamps :
               f \in DOMAIN transplant'[s].stamps /\ transplant'[s].stamps[f] = transplant[s].stamps[f]
          /\ \A f \in DOMAIN transplant[s].plan :
               f \in DOMAIN transplant'[s].plan /\ transplant'[s].plan[f] \in {transplant[s].plan[f], "handled"}
          /\ transplant'[s].ask = transplant[s].ask \/ DOMAIN transplant[s].plan = {}
          /\ \A f : Past(transplant[s], f) => Past(transplant'[s], f)
    BY <1>1 DEF Proceeds
  <1>4. ASSUME NEW f, SameInstant(f) PROVE SameInstant(f)'
    BY <1>3, <1>4 DEF SameInstant
  <1>5. ASSUME NEW f, WithoutBackup(f) PROVE WithoutBackup(f)'
    BY <1>3, <1>5 DEF WithoutBackup
  <1>6. \A s \in Transplants : \A b : Owns(transplant[s], b) => Owns(transplant'[s], b)
    BY <1>3 DEF Owns
  <1> QED BY <1>1, <1>2, <1>4, <1>5, <1>6

(* The steps that write no file.                                           *)
LEMMA QuietMemory ==
  ASSUME MemoryInv, NEW t \in Transplants, NEW to, transplant' = [transplant EXCEPT ![t] = to],
         TShape(to), Proceeds(transplant[t], to), MemoryKept, UNCHANGED ownMemory,
         \A f \in DOMAIN to.plan \cap DOMAIN ownMemory : to.plan[f] = "add" =>
           (f \in DOMAIN transplant[t].plan /\ transplant[t].plan[f] = "add") \/ ~to.ask.planned,
         to.step # "backingUp",
         to.step \in Overwriting =>
           \/ transplant[t].step \in Overwriting /\ to.file = FileOf(t)
           \/ to.plan[to.file] = "add"
           \/ ~to.ask.backup
  PROVE  MemoryInv'
  <1>1. /\ transplant' = [s \in Transplants |-> transplant'[s]] /\ transplant'[t] = to
        /\ \A s \in Transplants \ {t} : transplant'[s] = transplant[s]
        /\ \A s \in Transplants : TShape(transplant'[s])
        /\ \A f : SameInstant(f) => SameInstant(f)'
        /\ \A f : WithoutBackup(f) => WithoutBackup(f)'
        /\ \A s \in Transplants : \A b : Owns(transplant[s], b) => Owns(transplant'[s], b)
    BY OneTransplants DEF MemoryInv
  <1>2. UNCHANGED <<memories, memoryCopies, ownMemory>>
    BY DEF MemoryKept
  <1>3. MemoryShape'
    BY <1>1, <1>2 DEF MemoryInv, MemoryShape
  <1>4. \A f : TextKept(f) => TextKept(f)'
    BY <1>1, <1>2 DEF TextKept
  <1>5. \A b \in DOMAIN memoryCopies' : \E s \in Transplants : Owns(transplant'[s], b)
    BY <1>1, <1>2 DEF MemoryInv
  <1>6. ASSUME NEW f \in DOMAIN to.plan \cap DOMAIN ownMemory, to.plan[f] = "add" PROVE TextKept(f)'
    <2>1. CASE f \in DOMAIN transplant[t].plan /\ transplant[t].plan[f] = "add"
      BY <1>4, <2>1 DEF MemoryInv
    <2>2. CASE ~to.ask.planned
      BY <1>1, <2>2 DEF TextKept, WithoutBackup
    <2> QED BY <1>6, <2>1, <2>2
  <1>7. ASSUME to.step \in Overwriting, to.file \in DOMAIN ownMemory PROVE TextKept(to.file)'
    <2>1. to.file \in DOMAIN to.plan /\ to.plan[to.file] \in {"add", "overwrite", "merge"}
      BY <1>7 DEF TShape, AtFile
    <2>2. CASE transplant[t].step \in Overwriting /\ to.file = FileOf(t)
      <3>1. TextKept(to.file)
        BY <1>7, <2>2 DEF MemoryInv
      <3> QED BY <1>4, <3>1
    <2>3. CASE to.plan[to.file] = "add"
      BY <1>6, <1>7, <2>1, <2>3
    <2>4. CASE ~to.ask.backup /\ to.plan[to.file] # "add"
      BY <1>1, <2>1, <2>4 DEF TextKept, WithoutBackup
    <2> QED BY <1>7, <2>2, <2>3, <2>4
  <1>8. ASSUME NEW s \in Transplants
        PROVE  /\ transplant'[s].step = "backingUp" =>
                    /\ BackupKeyOf(transplant'[s]) \in DOMAIN memoryCopies'
                    /\ memoryCopies'[BackupKeyOf(transplant'[s])] = Torn \/ SameInstant(FileOf(s))'
               /\ \A f \in DOMAIN transplant'[s].plan \cap DOMAIN ownMemory' :
                    transplant'[s].plan[f] = "add" => TextKept(f)'
               /\ transplant'[s].step \in Overwriting /\ FileOf(s)' \in DOMAIN ownMemory' => TextKept(FileOf(s))'
    <2>1. CASE s = t
      <3>1. FileOf(t)' = to.file
        BY <1>1 DEF FileOf
      <3>2. to.step \in Overwriting /\ to.file \in DOMAIN ownMemory => TextKept(FileOf(t))'
        BY <1>7, <3>1 DEF TextKept, SameInstant, WithoutBackup
      <3> QED BY <1>1, <1>2, <1>6, <2>1, <3>1, <3>2
    <2>2. CASE s # t
      <3>1. FileOf(s)' = FileOf(s) /\ transplant'[s] = transplant[s]
        BY <1>1, <2>2 DEF FileOf
      <3>2. SameInstant(FileOf(s)) => SameInstant(FileOf(s))'
        BY <1>1, <3>1 DEF SameInstant
      <3>3. TextKept(FileOf(s)) => TextKept(FileOf(s))'
        BY <1>4, <3>1 DEF TextKept, SameInstant, WithoutBackup
      <3> QED BY <1>2, <1>4, <3>1, <3>2, <3>3 DEF MemoryInv
    <2> QED BY <2>1, <2>2
  <1>9. ASSUME NEW f \in DOMAIN ownMemory' PROVE memories'[f] = ownMemory'[f].text \/ TextKept(f)'
    BY <1>2, <1>4 DEF MemoryInv
  <1> QED BY <1>3, <1>5, <1>8, <1>9 DEF MemoryInv

(* A step that changes where a transplant is, and the file it is at.       *)
MovedTo(x, to, file, step) ==
  /\ to.step = step /\ to.file = file /\ to.plan = x.plan /\ to.ask = x.ask /\ to.stamps = x.stamps
  /\ to.todo = x.todo
  /\ to = [step |-> to.step, ask |-> to.ask, todo |-> to.todo, plan |-> to.plan, file |-> to.file,
           stamps |-> to.stamps]

LEMMA StepMoves ==
  ASSUME MemoryShape, NEW t \in Transplants, NEW step, transplant' = [transplant EXCEPT ![t].step = step]
  PROVE  \E to : transplant' = [transplant EXCEPT ![t] = to] /\ MovedTo(transplant[t], to, FileOf(t), step)
  <1>1. PICK to : to = [transplant[t] EXCEPT !.step = step]
    OBVIOUS
  <1>2. transplant' = [transplant EXCEPT ![t] = to]
    BY <1>1
  <1>3. transplant[t] = [step |-> transplant[t].step, ask |-> transplant[t].ask, todo |-> transplant[t].todo,
                         plan |-> transplant[t].plan, file |-> transplant[t].file, stamps |-> transplant[t].stamps]
    BY DEF MemoryShape, TShape
  <1>4. MovedTo(transplant[t], to, FileOf(t), step)
    BY ONLY <1>1, <1>3 DEF MovedTo, FileOf
  <1> QED BY <1>2, <1>4

LEMMA StepIs ==
  ASSUME NEW x, TShape(x), NEW file, NEW step, NEW to, MovedTo(x, to, file, step),
         step # "idle",
         step \in AtFile => file \in DOMAIN x.plan /\ x.plan[file] \in {"add", "overwrite", "merge"},
         step \in {"backup", "backingUp"} => x.plan[file] # "add",
         \/ x.step \notin {"backingUp", "failed"} \cup Overwriting
         \/ file = x.file /\ step \in {"backingUp", "failed"} \cup Overwriting
  PROVE  TShape(to) /\ Proceeds(x, to)
  <1>1. TShape(to)
    BY DEF MovedTo, TShape
  <1>2. Proceeds(x, to)
    BY DEF MovedTo, Proceeds, Past
  <1> QED BY <1>1, <1>2

LEMMA PlansAre ==
  ASSUME NEW ask, NEW f, NEW exists
  PROVE  /\ planned(ask, f, exists) \in {"add", "merge", "overwrite", "copy"}
         /\ planned(ask, f, exists) = "add" => ~exists
  BY DEF planned

LEMMA QuietTransplants ==
  ASSUME MemoryInv, NEW t \in Transplants,
         \/ \E ask \in TransplantAsks[t] : Order(t, ask)
         \/ PlanFile(t) \/ EndPlan(t) \/ NextFile(t) \/ StartMerge(t) \/ EndMerge(t)
  PROVE  MemoryInv'
  <1>1. PICK x : x = transplant[t] /\ TShape(x)
    BY DEF MemoryInv, MemoryShape
  <1>2. x = [step |-> x.step, ask |-> x.ask, todo |-> x.todo, plan |-> x.plan, file |-> x.file, stamps |-> x.stamps]
    BY <1>1 DEF TShape
  <1>3. MemoryKept /\ UNCHANGED ownMemory
    BY DEF Order, PlanFile, EndPlan, NextFile, StartMerge, EndMerge, ElseKept
  <1>4. ASSUME NEW ask \in TransplantAsks[t], Order(t, ask) PROVE MemoryInv'
    <2>1. PICK todo, plan, step, to :
            /\ to = [x EXCEPT !.ask = ask, !.step = step, !.todo = todo, !.plan = plan]
            /\ transplant' = [transplant EXCEPT ![t] = to] /\ step \in {"plan", "next"}
            /\ plan = [f \in DOMAIN plan |-> plan[f]]
            /\ \/ ask.planned /\ DOMAIN plan = {}
               \/ ~ask.planned /\ todo = {} /\ \A f \in DOMAIN plan : plan[f] = "add"
      <3>1. PICK step : step = IF ask.planned THEN "plan" ELSE "next"
        OBVIOUS
      <3>2. PICK todo : todo = IF ask.planned THEN listMemoryFiles(t) ELSE {}
        OBVIOUS
      <3>3. PICK plan : plan = IF ask.planned THEN <<>> ELSE [f \in listCodexMemoryArtifacts(t) |-> "add"]
        OBVIOUS
      <3>4. transplant' = [transplant EXCEPT ![t].ask = ask, ![t].step = step, ![t].todo = todo, ![t].plan = plan]
        BY <1>4, <3>1, <3>2, <3>3 DEF Order
      <3>5. PICK to : to = [x EXCEPT !.ask = ask, !.step = step, !.todo = todo, !.plan = plan]
        OBVIOUS
      <3>6. transplant' = [transplant EXCEPT ![t] = to]
        BY <1>1, <3>4, <3>5
      <3>7. plan = [f \in DOMAIN plan |-> plan[f]] /\ (ask.planned => DOMAIN plan = {})
        <4>1. CASE ask.planned
          <5>1. plan = <<>>
            BY <3>3, <4>1
          <5>2. DOMAIN plan = {}
            BY <5>1
          <5>3. plan = [f \in DOMAIN plan |-> plan[f]]
            BY <5>1, <5>2
          <5> QED BY <5>2, <5>3
        <4>2. CASE ~ask.planned
          BY <3>3, <4>2
        <4> QED BY <4>1, <4>2
      <3>8. ~ask.planned => todo = {} /\ \A f \in DOMAIN plan : plan[f] = "add"
        BY <3>2, <3>3
      <3> QED BY <3>1, <3>5, <3>6, <3>7, <3>8
    <2>2. /\ to.ask = ask /\ to.step = step /\ to.todo = todo /\ to.plan = plan /\ to.file = x.file
          /\ to.stamps = x.stamps
          /\ to = [step |-> to.step, ask |-> to.ask, todo |-> to.todo, plan |-> to.plan, file |-> to.file,
                   stamps |-> to.stamps]
      BY ONLY <1>2, <2>1
    <2>3. x.step = "idle" /\ DOMAIN x.plan = {} /\ DOMAIN x.stamps = {}
      BY <1>1, <1>4 DEF Order, TShape
    <2>4. TShape(to)
      BY <1>1, <2>1, <2>2, <2>3 DEF TShape, AtFile, Overwriting
    <2>5. Proceeds(x, to)
      BY <2>2, <2>3 DEF Proceeds, Past, Overwriting
    <2> QED BY <1>1, <1>3, <2>1, <2>2, <2>4, <2>5, QuietMemory DEF Overwriting
  <1>5. ASSUME PlanFile(t) PROVE MemoryInv'
    <2>1. PICK f \in FirstOf(transplant[t].todo), now \in memoryStamp..MaxMemoryStamp :
            transplant' = [transplant EXCEPT ![t].todo = @ \ {f}, ![t].stamps = Put(@, f, now),
              ![t].plan = Put(@, f, planned(AskOf(t), f, f \in DOMAIN memories))]
      BY <1>5 DEF PlanFile
    <2>2. PICK action : /\ action = planned(AskOf(t), f, f \in DOMAIN memories)
                        /\ action \in {"add", "merge", "overwrite", "copy"}
                        /\ action = "add" => f \notin DOMAIN memories
      BY PlansAre
    <2>3. PICK plan : plan = [g \in DOMAIN x.plan \cup {f} |-> IF g = f THEN action ELSE x.plan[g]]
      OBVIOUS
    <2>4. PICK stamps : stamps = [g \in DOMAIN x.stamps \cup {f} |-> IF g = f THEN now ELSE x.stamps[g]]
      OBVIOUS
    <2>5. plan = Put(x.plan, f, planned(AskOf(t), f, f \in DOMAIN memories)) /\ stamps = Put(x.stamps, f, now)
      BY <2>2, <2>3, <2>4 DEF Put
    <2>6. PICK to : /\ to = [x EXCEPT !.todo = @ \ {f}, !.stamps = stamps, !.plan = plan]
                    /\ transplant' = [transplant EXCEPT ![t] = to]
      <3>1. transplant' = [transplant EXCEPT ![t].todo = @ \ {f}, ![t].stamps = stamps, ![t].plan = plan]
        BY <1>1, <2>1, <2>5
      <3>2. PICK to : to = [x EXCEPT !.todo = @ \ {f}, !.stamps = stamps, !.plan = plan]
        OBVIOUS
      <3> QED BY <1>1, <3>1, <3>2
    <2>7. /\ to.ask = x.ask /\ to.step = x.step /\ to.todo = x.todo \ {f} /\ to.plan = plan
          /\ to.file = x.file /\ to.stamps = stamps
          /\ to = [step |-> to.step, ask |-> to.ask, todo |-> to.todo, plan |-> to.plan, file |-> to.file,
                   stamps |-> to.stamps]
      BY ONLY <1>2, <2>6
    <2>8. f \notin DOMAIN x.plan /\ f \notin DOMAIN x.stamps /\ x.step = "plan"
      BY <1>1, <1>5, <2>1 DEF TShape, PlanFile, FirstOf
    <2>9. TShape(to)
      BY <1>1, <2>2, <2>3, <2>4, <2>7, <2>8 DEF TShape, AtFile, Overwriting
    <2>10. Proceeds(x, to)
      BY <2>3, <2>4, <2>7, <2>8 DEF Proceeds, Past, Overwriting
    <2>11. \A g \in DOMAIN to.plan \cap DOMAIN ownMemory : to.plan[g] = "add" => g \in DOMAIN x.plan /\ x.plan[g] = "add"
      BY <2>2, <2>3, <2>7 DEF MemoryInv, MemoryShape
    <2> QED BY <1>1, <1>3, <2>6, <2>7, <2>8, <2>9, <2>10, <2>11, QuietMemory DEF Overwriting
  <1>6. ASSUME NEW file, NEW step, NEW to, transplant' = [transplant EXCEPT ![t] = to], MovedTo(x, to, file, step),
               step \notin {"idle", "backingUp"},
               step \in AtFile => file \in DOMAIN x.plan /\ x.plan[file] \in {"add", "overwrite", "merge"},
               step = "backup" => x.plan[file] # "add",
               \/ x.step \notin {"backingUp", "failed"} \cup Overwriting
               \/ x.step \in Overwriting /\ file = x.file /\ step \in {"failed"} \cup Overwriting,
               step \in Overwriting => \/ x.step \in Overwriting
                                       \/ x.plan[file] = "add"
                                       \/ ~x.ask.backup
        PROVE  MemoryInv'
    <2>1. TShape(to) /\ Proceeds(x, to)
      BY <1>1, <1>6, StepIs
    <2>2. to.step = step /\ to.file = file /\ to.plan = x.plan /\ to.ask = x.ask
      BY <1>6 DEF MovedTo
    <2> QED BY <1>1, <1>3, <1>6, <2>1, <2>2, QuietMemory DEF FileOf
  <1>7. ASSUME NEW step, transplant' = [transplant EXCEPT ![t].step = step]
        PROVE  \E to : transplant' = [transplant EXCEPT ![t] = to] /\ MovedTo(x, to, x.file, step)
    <2>1. MemoryShape /\ FileOf(t) = x.file
      BY <1>1 DEF MemoryInv, FileOf
    <2>2. \E to : transplant' = [transplant EXCEPT ![t] = to] /\ MovedTo(transplant[t], to, FileOf(t), step)
      BY <1>7, <2>1, StepMoves
    <2> QED BY <1>1, <2>1, <2>2
  <1>8. ASSUME EndPlan(t) PROVE MemoryInv'
    <2>1. PICK step \in {"next", "done"} : transplant' = [transplant EXCEPT ![t].step = step]
      BY <1>8 DEF EndPlan, Moves
    <2>2. x.step = "plan"
      BY <1>1, <1>8 DEF EndPlan, Moves
    <2>3. PICK to : transplant' = [transplant EXCEPT ![t] = to] /\ MovedTo(x, to, x.file, step)
      BY <1>7, <2>1
    <2> QED BY <1>6, <2>2, <2>3 DEF AtFile, Overwriting
  <1>9. ASSUME NextFile(t) PROVE MemoryInv'
    <2>0. x.step = "next"
      BY <1>1, <1>9 DEF NextFile
    <2>1. CASE transplant' = [transplant EXCEPT ![t].step = "done"]
      <3>1. PICK step \in {"done"} : transplant' = [transplant EXCEPT ![t].step = step]
        BY <2>1
      <3>2. PICK to : transplant' = [transplant EXCEPT ![t] = to] /\ MovedTo(x, to, x.file, step)
        BY <1>7, <3>1
      <3> QED BY <1>6, <2>0, <3>2 DEF AtFile, Overwriting
    <2>2. ASSUME NEW f \in Left(t), NEW step, step = firstStep(AskOf(t), x.plan[f]),
                 transplant' = [transplant EXCEPT ![t].file = f, ![t].step = step]
          PROVE  MemoryInv'
      <3>1. f \in DOMAIN x.plan /\ x.plan[f] \in {"add", "overwrite", "merge"}
        BY <1>1 DEF Left
      <3>2. /\ step \in {"copy", "read", "backup"}
            /\ step = "backup" => x.plan[f] # "add"
            /\ step \in {"copy", "read"} => x.plan[f] = "add" \/ ~x.ask.backup
        BY <1>1, <2>2, <3>1 DEF firstStep, AskOf
      <3>3. PICK to : to = [x EXCEPT !.file = f, !.step = step]
        OBVIOUS
      <3>4. transplant' = [transplant EXCEPT ![t] = to]
        BY <1>1, <2>2, <3>3
      <3>5. MovedTo(x, to, f, step)
        BY ONLY <1>2, <3>3 DEF MovedTo
      <3> QED BY <1>6, <2>0, <3>1, <3>2, <3>4, <3>5 DEF AtFile, Overwriting
    <2> QED BY <1>1, <1>9, <2>1, <2>2 DEF NextFile, FirstOf
  <1>10. ASSUME StartMerge(t) \/ EndMerge(t) PROVE MemoryInv'
    <2>1. PICK step \in {"merging", "copy", "failed"} : transplant' = [transplant EXCEPT ![t].step = step]
      BY <1>10 DEF StartMerge, EndMerge, Moves
    <2>2. x.step \in {"read", "merging"}
      BY <1>1, <1>10 DEF StartMerge, EndMerge, Moves
    <2>3. x.file \in DOMAIN x.plan /\ x.plan[x.file] \in {"add", "overwrite", "merge"}
      BY <1>1, <2>2 DEF TShape, AtFile, Overwriting
    <2>4. PICK to : transplant' = [transplant EXCEPT ![t] = to] /\ MovedTo(x, to, x.file, step)
      BY <1>7, <2>1
    <2> QED BY <1>6, <2>2, <2>3, <2>4 DEF AtFile, Overwriting
  <1> QED BY <1>4, <1>5, <1>8, <1>9, <1>10

----------------------------------------------------------------------------
(* The file a transplant copies away has a stamp; whoever else has its     *)
(* name, planned it in the same instant.                                   *)
LEMMA Stamped ==
  ASSUME MemoryShape, NEW t \in Transplants, transplant[t].step \in {"backup", "backingUp"}
  PROVE  /\ FileOf(t) \in DOMAIN transplant[t].stamps
         /\ FileOf(t) \in DOMAIN transplant[t].plan /\ transplant[t].plan[FileOf(t)] \in {"overwrite", "merge"}
  BY DEF MemoryShape, TShape, AtFile, FileOf

LEMMA OneName ==
  ASSUME MemoryInv, NEW t \in Transplants, transplant[t].step \in {"backup", "backingUp"}
  PROVE  /\ transplant[t].step = "backup" /\ BackupKeyOf(transplant[t]) \in DOMAIN memoryCopies => SameInstant(FileOf(t))
         /\ \A s \in Transplants \ {t} :
              transplant[s].step \in {"backup", "backingUp"} /\ BackupKeyOf(transplant[s]) = BackupKeyOf(transplant[t])
              => SameInstant(FileOf(s))
  <1>1. PICK f, at : f = FileOf(t) /\ at = transplant[t].stamps[f] /\ f \in DOMAIN transplant[t].stamps
    BY Stamped DEF MemoryInv
  <1>2. BackupKeyOf(transplant[t]) = <<f, at>>
    BY <1>1 DEF BackupKeyOf, FileOf
  <1>3. ASSUME NEW s \in Transplants \ {t}, f \in DOMAIN transplant[s].stamps, transplant[s].stamps[f] = at
        PROVE  SameInstant(f)
    BY <1>1, <1>3 DEF SameInstant
  <1>4. ASSUME transplant[t].step = "backup", BackupKeyOf(transplant[t]) \in DOMAIN memoryCopies PROVE SameInstant(f)
    <2>1. PICK s \in Transplants : Owns(transplant[s], <<f, at>>)
      BY <1>2, <1>4 DEF MemoryInv
    <2>2. f \in DOMAIN transplant[s].stamps /\ transplant[s].stamps[f] = at /\ Past(transplant[s], f)
      BY <2>1 DEF Owns
    <2>3. ~Past(transplant[t], f)
      <3>1. transplant[t].plan[f] # "handled"
        BY <1>1, Stamped DEF MemoryInv
      <3> QED BY <1>4, <3>1 DEF Past, Overwriting
    <2> QED BY <1>3, <2>2, <2>3
  <1>5. ASSUME NEW s \in Transplants \ {t}, transplant[s].step \in {"backup", "backingUp"},
               BackupKeyOf(transplant[s]) = BackupKeyOf(transplant[t])
        PROVE  SameInstant(FileOf(s))
    <2>1. FileOf(s) \in DOMAIN transplant[s].stamps
      BY <1>5, Stamped DEF MemoryInv
    <2>2. FileOf(s) = f /\ transplant[s].stamps[FileOf(s)] = at
      BY <1>2, <1>5 DEF BackupKeyOf, FileOf
    <2> QED BY <1>3, <2>1, <2>2
  <1> QED BY <1>1, <1>4, <1>5

LEMMA CopyAwayKeeps ==
  ASSUME MemoryInv, NEW t \in Transplants, NEW step \in {"backingUp", "read", "copy"}, NEW to, NEW text,
         transplant' = [transplant EXCEPT ![t] = to], MovedTo(transplant[t], to, FileOf(t), step),
         WritesCopy(t, text), UNCHANGED <<memories, ownMemory>>,
         \/ transplant[t].step = "backup" /\ step = "backingUp" /\ text = Torn
         \/ transplant[t].step = "backingUp" /\ step \in {"read", "copy"} /\ text = memories[FileOf(t)]
  PROVE  MemoryInv'
  <1>1. PICK x, f, key : /\ x = transplant[t] /\ f = FileOf(t) /\ key = BackupKeyOf(x) /\ TShape(x)
    BY DEF MemoryInv, MemoryShape
  <1>2. /\ f \in DOMAIN x.stamps /\ f \in DOMAIN x.plan /\ x.plan[f] \in {"overwrite", "merge"}
        /\ f = x.file /\ key = <<f, x.stamps[f]>> /\ key[1] = f /\ key[2] = x.stamps[f]
    BY <1>1, Stamped DEF MemoryInv, BackupKeyOf, FileOf
  <1>3. /\ to.step = step /\ to.file = f /\ to.plan = x.plan /\ to.ask = x.ask /\ to.stamps = x.stamps
    BY <1>1 DEF MovedTo
  <1>4. TShape(to) /\ Proceeds(x, to)
    BY <1>1, <1>2, StepIs DEF AtFile, Overwriting, FileOf
  <1>5. /\ transplant' = [s \in Transplants |-> transplant'[s]] /\ transplant'[t] = to
        /\ \A s \in Transplants \ {t} : transplant'[s] = transplant[s]
        /\ \A s \in Transplants : TShape(transplant'[s])
        /\ \A g : SameInstant(g) => SameInstant(g)'
        /\ \A g : WithoutBackup(g) => WithoutBackup(g)'
        /\ \A s \in Transplants : \A b : Owns(transplant[s], b) => Owns(transplant'[s], b)
    BY <1>1, <1>4, OneTransplants DEF MemoryInv
  <1>6. memoryCopies' = [b \in DOMAIN memoryCopies \cup {key} |-> IF b = key THEN text ELSE memoryCopies[b]]
    BY <1>1, <1>2 DEF WritesCopy, Put
  <1>7. MemoryShape'
    BY <1>5, <1>6 DEF MemoryInv, MemoryShape
  <1>8. ASSUME NEW g \in DOMAIN ownMemory, TextKept(g) PROVE TextKept(g)'
    <2>1. CASE ownMemory[g].late \/ SameInstant(g) \/ WithoutBackup(g)
      BY <1>5, <2>1 DEF TextKept
    <2>2. ASSUME NEW b \in DOMAIN memoryCopies, b[1] = g, memoryCopies[b] = ownMemory[g].text PROVE TextKept(g)'
      <3>1. CASE b # key
        BY <1>6, <2>2, <3>1 DEF TextKept
      <3>2. CASE b = key
        <4>1. g = f /\ memoryCopies[key] # Torn /\ key \in DOMAIN memoryCopies
          BY <1>2, <2>2, <3>2 DEF MemoryInv, MemoryShape
        <4>2. SameInstant(f)
          BY <1>1, <4>1, OneName DEF MemoryInv
        <4> QED BY <1>5, <4>1, <4>2 DEF TextKept
      <3> QED BY <3>1, <3>2
    <2> QED BY <1>8, <2>1, <2>2 DEF TextKept
  <1>9. ASSUME NEW b \in DOMAIN memoryCopies' PROVE \E s \in Transplants : Owns(transplant'[s], b)
    <2>1. CASE b \in DOMAIN memoryCopies
      BY <1>5, <2>1 DEF MemoryInv
    <2>2. CASE b = key
      BY <1>2, <1>3, <1>5, <2>2 DEF Owns, Past, Overwriting
    <2> QED BY <1>6, <2>1, <2>2
  <1>10. ASSUME step \in {"read", "copy"}, f \in DOMAIN ownMemory PROVE TextKept(f)'
    <2>1. CASE memories[f] = ownMemory[f].text
      BY <1>1, <1>2, <1>6, <1>10, <2>1 DEF TextKept
    <2>2. CASE TextKept(f)
      BY <1>8, <1>10, <2>2
    <2> QED BY <1>10, <2>1, <2>2 DEF MemoryInv
  <1>11. ASSUME NEW s \in Transplants
         PROVE  /\ transplant'[s].step = "backingUp" =>
                     /\ BackupKeyOf(transplant'[s]) \in DOMAIN memoryCopies'
                     /\ memoryCopies'[BackupKeyOf(transplant'[s])] = Torn \/ SameInstant(FileOf(s))'
                /\ \A g \in DOMAIN transplant'[s].plan \cap DOMAIN ownMemory' :
                     transplant'[s].plan[g] = "add" => TextKept(g)'
                /\ transplant'[s].step \in Overwriting /\ FileOf(s)' \in DOMAIN ownMemory' => TextKept(FileOf(s))'
    <2>1. CASE s = t
      <3>1. FileOf(t)' = f /\ BackupKeyOf(transplant'[t]) = key
        BY <1>2, <1>3, <1>5 DEF FileOf, BackupKeyOf
      <3>2. step = "backingUp" => memoryCopies'[key] = Torn /\ key \in DOMAIN memoryCopies'
        BY <1>6
      <3>3. \A g \in DOMAIN x.plan \cap DOMAIN ownMemory : x.plan[g] = "add" => TextKept(g)'
        BY <1>1, <1>8 DEF MemoryInv
      <3>4. step \in Overwriting /\ f \in DOMAIN ownMemory => TextKept(FileOf(t))'
        BY <1>10, <3>1 DEF TextKept, SameInstant, WithoutBackup, Overwriting
      <3> QED BY <1>3, <1>5, <2>1, <3>1, <3>2, <3>3, <3>4
    <2>2. CASE s # t
      <3>1. FileOf(s)' = FileOf(s) /\ transplant'[s] = transplant[s]
        BY <1>5, <2>2 DEF FileOf
      <3>2. SameInstant(FileOf(s)) => SameInstant(FileOf(s))'
        BY <1>5, <3>1 DEF SameInstant
      <3>3. FileOf(s) \in DOMAIN ownMemory /\ TextKept(FileOf(s)) => TextKept(FileOf(s))'
        <4>1. PICK g : g = FileOf(s)
          OBVIOUS
        <4> QED BY <1>8, <3>1, <4>1 DEF TextKept, SameInstant, WithoutBackup
      <3>4. transplant[s].step = "backingUp" /\ BackupKeyOf(transplant[s]) = key => SameInstant(FileOf(s))
        BY <1>1, <2>2, OneName
      <3>5. transplant[s].step = "backingUp" =>
              /\ BackupKeyOf(transplant[s]) \in DOMAIN memoryCopies'
              /\ memoryCopies'[BackupKeyOf(transplant[s])] = Torn \/ SameInstant(FileOf(s))
        BY <1>6, <3>4 DEF MemoryInv
      <3>6. \A g \in DOMAIN transplant[s].plan \cap DOMAIN ownMemory : transplant[s].plan[g] = "add" => TextKept(g)'
        BY <1>8 DEF MemoryInv
      <3> QED BY <3>1, <3>2, <3>3, <3>5, <3>6 DEF MemoryInv
    <2> QED BY <2>1, <2>2
  <1>12. ASSUME NEW g \in DOMAIN ownMemory' PROVE memories'[g] = ownMemory'[g].text \/ TextKept(g)'
    BY <1>8 DEF MemoryInv
  <1> QED BY <1>7, <1>9, <1>11, <1>12 DEF MemoryInv

LEMMA CopyAway ==
  ASSUME MemoryInv, NEW t \in Transplants, BeginCopyAway(t) \/ EndCopyAway(t)
  PROVE  MemoryInv'
  <1>1. MemoryShape
    BY DEF MemoryInv
  <1>2. CASE BeginCopyAway(t)
    <2>1. /\ transplant[t].step = "backup" /\ WritesCopy(t, Torn)
          /\ transplant' = [transplant EXCEPT ![t].step = "backingUp"]
          /\ UNCHANGED <<memories, ownMemory>>
      BY <1>2 DEF BeginCopyAway, Moves, ElseKept
    <2>2. PICK step \in {"backingUp"} : transplant' = [transplant EXCEPT ![t].step = step]
      BY <2>1
    <2>3. PICK to : transplant' = [transplant EXCEPT ![t] = to] /\ MovedTo(transplant[t], to, FileOf(t), step)
      BY <1>1, <2>2, StepMoves
    <2> QED BY <2>1, <2>3, CopyAwayKeeps
  <1>3. CASE EndCopyAway(t)
    <2>1. PICK step \in {"read", "copy"} :
            /\ transplant[t].step = "backingUp" /\ WritesCopy(t, memories[FileOf(t)])
            /\ transplant' = [transplant EXCEPT ![t].step = step]
            /\ UNCHANGED <<memories, ownMemory>>
      BY <1>3 DEF EndCopyAway, Moves, ElseKept
    <2>2. PICK to : transplant' = [transplant EXCEPT ![t] = to] /\ MovedTo(transplant[t], to, FileOf(t), step)
      BY <1>1, <2>1, StepMoves
    <2> QED BY <2>1, <2>2, CopyAwayKeeps
  <1> QED BY <1>2, <1>3

(* What was in a file that is replaced is kept already.                    *)
StillAdds(x, to) ==
  \A f \in DOMAIN to.plan : to.plan[f] = "add" => f \in DOMAIN x.plan /\ x.plan[f] = "add"

CopiesOver(t, to, f, text) ==
  /\ f = FileOf(t) /\ transplant[t].step \in {"copy", "copying"}
  /\ transplant' = [transplant EXCEPT ![t] = to] /\ TShape(to) /\ Proceeds(transplant[t], to)
  /\ StillAdds(transplant[t], to) /\ to.file = f /\ to.step \in {"copying", "next"}
  /\ memories' = Put(memories, f, text) /\ UNCHANGED <<memoryCopies, ownMemory>>

LEMMA CopyTextKeeps ==
  ASSUME MemoryInv, NEW t \in Transplants, NEW to, NEW f, NEW text, CopiesOver(t, to, f, text)
  PROVE  MemoryInv'
  <1>1. /\ transplant' = [s \in Transplants |-> transplant'[s]] /\ transplant'[t] = to
        /\ \A s \in Transplants \ {t} : transplant'[s] = transplant[s]
        /\ \A s \in Transplants : TShape(transplant'[s])
        /\ \A g : SameInstant(g) => SameInstant(g)'
        /\ \A g : WithoutBackup(g) => WithoutBackup(g)'
        /\ \A s \in Transplants : \A b : Owns(transplant[s], b) => Owns(transplant'[s], b)
    BY OneTransplants DEF MemoryInv, CopiesOver
  <1>2. /\ f = FileOf(t) /\ transplant[t].step \in {"copy", "copying"} /\ to.file = f /\ to.step \in {"copying", "next"}
        /\ StillAdds(transplant[t], to) /\ UNCHANGED <<memoryCopies, ownMemory>>
    BY DEF CopiesOver
  <1>3. memories' = [g \in DOMAIN memories \cup {f} |-> IF g = f THEN text ELSE memories[g]]
    BY DEF CopiesOver, Put
  <1>4. MemoryShape'
    BY <1>1, <1>2, <1>3 DEF MemoryInv, MemoryShape
  <1>5. \A g : TextKept(g) => TextKept(g)'
    BY <1>1, <1>2 DEF TextKept
  <1>6. \A b \in DOMAIN memoryCopies' : \E s \in Transplants : Owns(transplant'[s], b)
    BY <1>1, <1>2 DEF MemoryInv
  <1>7. f \in DOMAIN ownMemory => TextKept(f)'
    <2>1. f \in DOMAIN ownMemory => TextKept(f)
      BY <1>2 DEF MemoryInv, Overwriting, TextKept, SameInstant, WithoutBackup
    <2> QED BY <1>5, <2>1
  <1>8. ASSUME NEW s \in Transplants
        PROVE  /\ transplant'[s].step = "backingUp" =>
                    /\ BackupKeyOf(transplant'[s]) \in DOMAIN memoryCopies'
                    /\ memoryCopies'[BackupKeyOf(transplant'[s])] = Torn \/ SameInstant(FileOf(s))'
               /\ \A g \in DOMAIN transplant'[s].plan \cap DOMAIN ownMemory' :
                    transplant'[s].plan[g] = "add" => TextKept(g)'
               /\ transplant'[s].step \in Overwriting /\ FileOf(s)' \in DOMAIN ownMemory' => TextKept(FileOf(s))'
    <2>1. CASE s = t
      <3>1. FileOf(t)' = f
        BY <1>1, <1>2 DEF FileOf
      <3>2. f \in DOMAIN ownMemory => TextKept(FileOf(t))'
        BY <1>7, <3>1 DEF TextKept, SameInstant, WithoutBackup
      <3>3. \A g \in DOMAIN to.plan \cap DOMAIN ownMemory : to.plan[g] = "add" => TextKept(g)'
        BY <1>2, <1>5 DEF MemoryInv, StillAdds
      <3> QED BY <1>1, <1>2, <2>1, <3>1, <3>2, <3>3
    <2>2. CASE s # t
      <3>1. FileOf(s)' = FileOf(s) /\ transplant'[s] = transplant[s]
        BY <1>1, <2>2 DEF FileOf
      <3>2. SameInstant(FileOf(s)) => SameInstant(FileOf(s))'
        BY <1>1, <3>1 DEF SameInstant
      <3>3. TextKept(FileOf(s)) => TextKept(FileOf(s))'
        BY <1>5, <3>1 DEF TextKept, SameInstant, WithoutBackup
      <3> QED BY <1>2, <1>5, <3>1, <3>2, <3>3 DEF MemoryInv
    <2> QED BY <2>1, <2>2
  <1>9. ASSUME NEW g \in DOMAIN ownMemory' PROVE memories'[g] = ownMemory'[g].text \/ TextKept(g)'
    <2>1. CASE g = f
      BY <1>2, <1>7, <1>9, <2>1
    <2>2. CASE g # f
      BY <1>2, <1>3, <1>5, <1>9, <2>2 DEF MemoryInv, MemoryShape
    <2> QED BY <2>1, <2>2
  <1> QED BY <1>4, <1>6, <1>8, <1>9 DEF MemoryInv

LEMMA CopySteps ==
  ASSUME MemoryInv, NEW t \in Transplants, BeginCopy(t) \/ EndCopy(t)
  PROVE  MemoryInv'
  <1>1. PICK x, f : x = transplant[t] /\ f = FileOf(t) /\ f = x.file /\ TShape(x) /\ MemoryShape
    BY DEF MemoryInv, MemoryShape, FileOf
  <1>2. x.step \in {"copy", "copying"} /\ UNCHANGED <<memoryCopies, ownMemory>>
    BY <1>1 DEF BeginCopy, EndCopy, Moves, ElseKept
  <1>3. f \in DOMAIN x.plan /\ x.plan[f] \in {"add", "overwrite", "merge"}
    BY <1>1, <1>2 DEF TShape, AtFile, Overwriting
  <1>4. x = [step |-> x.step, ask |-> x.ask, todo |-> x.todo, plan |-> x.plan, file |-> x.file, stamps |-> x.stamps]
    BY <1>1 DEF TShape
  <1>5. CASE BeginCopy(t)
    <2>1. PICK step \in {"copying"} : transplant' = [transplant EXCEPT ![t].step = step]
      BY <1>5 DEF BeginCopy, Moves
    <2>2. PICK to : transplant' = [transplant EXCEPT ![t] = to] /\ MovedTo(x, to, f, step)
      <3>1. \E to : transplant' = [transplant EXCEPT ![t] = to] /\ MovedTo(transplant[t], to, FileOf(t), step)
        BY <1>1, <2>1, StepMoves
      <3> QED BY <1>1, <3>1
    <2>3. TShape(to) /\ Proceeds(x, to)
      BY <1>1, <1>2, <1>3, <2>2, StepIs DEF AtFile, Overwriting
    <2>4. to.file = f /\ to.step = step /\ to.plan = x.plan
      BY <2>2 DEF MovedTo
    <2>5. PICK text : memories' = Put(memories, f, text)
      BY <1>1, <1>5 DEF BeginCopy, WritesMemory
    <2>6. StillAdds(x, to)
      BY <2>4 DEF StillAdds
    <2>7. CopiesOver(t, to, f, text)
      BY <1>1, <1>2, <2>2, <2>3, <2>4, <2>5, <2>6 DEF CopiesOver
    <2> QED BY <2>7, CopyTextKeeps
  <1>6. CASE EndCopy(t)
    <2>1. PICK plan : plan = [x.plan EXCEPT ![f] = "handled"]
      OBVIOUS
    <2>2. transplant' = [transplant EXCEPT ![t].step = "next", ![t].plan[f] = "handled"]
      BY <1>1, <1>6 DEF EndCopy
    <2>3. PICK to : to = [x EXCEPT !.step = "next", !.plan = plan]
      OBVIOUS
    <2>4. transplant' = [transplant EXCEPT ![t] = to]
      BY <1>1, <2>1, <2>2, <2>3
    <2>5. /\ to.ask = x.ask /\ to.step = "next" /\ to.todo = x.todo /\ to.plan = plan /\ to.file = x.file
          /\ to.stamps = x.stamps
          /\ to = [step |-> to.step, ask |-> to.ask, todo |-> to.todo, plan |-> to.plan, file |-> to.file,
                   stamps |-> to.stamps]
      BY ONLY <1>4, <2>3
    <2>6. plan = [g \in DOMAIN x.plan |-> IF g = f THEN "handled" ELSE x.plan[g]] /\ DOMAIN plan = DOMAIN x.plan
      BY <1>1, <2>1 DEF TShape
    <2>7. TShape(to)
      BY <1>1, <2>5, <2>6 DEF TShape, AtFile, Overwriting
    <2>8. Proceeds(x, to)
      BY <1>1, <1>2, <1>3, <2>5, <2>6 DEF Proceeds, Past, Overwriting
    <2>9. PICK text : memories' = Put(memories, f, text)
      BY <1>1, <1>6 DEF EndCopy, WritesMemory
    <2>10. StillAdds(x, to)
      BY <2>5, <2>6 DEF StillAdds
    <2>11. CopiesOver(t, to, f, text)
      BY <1>1, <1>2, <2>4, <2>5, <2>7, <2>8, <2>9, <2>10 DEF CopiesOver
    <2> QED BY <2>11, CopyTextKeeps
  <1> QED BY <1>5, <1>6

(* What Codex writes is too late for whoever would replace it unseen.      *)
LEMMA OwnWriteSteps ==
  ASSUME MemoryInv, NEW f \in MemoryFiles, CodexWrites(f)
  PROVE  MemoryInv'
  <1>1. PICK text : text = OwnText(ownWrites') /\ text # Torn
    BY OwnIsNotTorn
  <1>2. memories' = [g \in DOMAIN memories \cup {f} |-> IF g = f THEN text ELSE memories[g]]
    BY <1>1 DEF CodexWrites, WritesMemory, Put
  <1>3. PICK now : now = [text |-> text, late |-> Late(f)] /\ now.text = text /\ (Late(f) => now.late)
    <2>1. PICK now : now = [text |-> text, late |-> Late(f)]
      OBVIOUS
    <2>2. now.text = text
      BY <2>1
    <2>3. now.late = Late(f)
      BY ONLY <2>1, Zenon
    <2> QED BY <2>1, <2>2, <2>3
  <1>4. ownMemory' = [g \in DOMAIN ownMemory \cup {f} |-> IF g = f THEN now ELSE ownMemory[g]]
    BY <1>1, <1>3 DEF CodexWrites, Put
  <1>5. UNCHANGED <<memoryCopies, transplant>>
    BY DEF CodexWrites
  <1>6. MemoryShape'
    <2>1. ownMemory' = [g \in DOMAIN ownMemory' |-> ownMemory'[g]] /\ memories' = [g \in DOMAIN memories' |-> memories'[g]]
      BY <1>2, <1>4
    <2>2. \A g \in DOMAIN ownMemory' : g \in DOMAIN memories' /\ ownMemory'[g].text # Torn
      BY <1>1, <1>2, <1>3, <1>4 DEF MemoryInv, MemoryShape
    <2> QED BY <1>5, <2>1, <2>2 DEF MemoryInv, MemoryShape
  <1>7. /\ \A g : SameInstant(g)' = SameInstant(g)
        /\ \A g : WithoutBackup(g)' = WithoutBackup(g)
        /\ \A s \in Transplants : FileOf(s)' = FileOf(s)
    BY <1>5 DEF SameInstant, WithoutBackup, FileOf
  <1>8. ASSUME NEW g \in DOMAIN ownMemory, g # f, TextKept(g) PROVE TextKept(g)'
    BY <1>4, <1>5, <1>7, <1>8 DEF TextKept
  <1>9. Late(f) => TextKept(f)'
    BY <1>3, <1>4 DEF TextKept
  <1>10. ASSUME NEW s \in Transplants
         PROVE  /\ transplant'[s].step = "backingUp" =>
                     /\ BackupKeyOf(transplant'[s]) \in DOMAIN memoryCopies'
                     /\ memoryCopies'[BackupKeyOf(transplant'[s])] = Torn \/ SameInstant(FileOf(s))'
                /\ \A g \in DOMAIN transplant'[s].plan \cap DOMAIN ownMemory' :
                     transplant'[s].plan[g] = "add" => TextKept(g)'
                /\ transplant'[s].step \in Overwriting /\ FileOf(s)' \in DOMAIN ownMemory' => TextKept(FileOf(s))'
    <2>1. PICK at : at = FileOf(s) /\ at = FileOf(s)' /\ SameInstant(FileOf(s))' = SameInstant(at)
      BY <1>5 DEF FileOf, SameInstant
    <2>2. transplant[s].step = "backingUp" =>
            /\ BackupKeyOf(transplant[s]) \in DOMAIN memoryCopies
            /\ memoryCopies[BackupKeyOf(transplant[s])] = Torn \/ SameInstant(at)
      BY <2>1 DEF MemoryInv
    <2>3. ASSUME NEW g \in DOMAIN transplant[s].plan \cap DOMAIN ownMemory', transplant[s].plan[g] = "add" PROVE TextKept(g)'
      <3>1. CASE g = f
        BY <1>9, <2>3, <3>1 DEF Late
      <3>2. CASE g # f
        BY <1>4, <1>8, <2>3, <3>2 DEF MemoryInv
      <3> QED BY <3>1, <3>2
    <2>4. ASSUME transplant[s].step \in Overwriting, at \in DOMAIN ownMemory' PROVE TextKept(at)'
      <3>1. CASE at = f
        BY <1>9, <2>1, <2>4, <3>1 DEF Late, Overwriting
      <3>2. CASE at # f
        <4>1. at \in DOMAIN ownMemory /\ TextKept(at)
          BY <1>4, <2>1, <2>4, <3>2 DEF MemoryInv
        <4> QED BY <1>8, <3>2, <4>1
      <3> QED BY <3>1, <3>2
    <2>5. transplant[s].step \in Overwriting /\ FileOf(s)' \in DOMAIN ownMemory' => TextKept(FileOf(s))'
      BY <2>1, <2>4 DEF TextKept, SameInstant, WithoutBackup
    <2> QED BY <1>5, <2>1, <2>2, <2>3, <2>5
  <1>11. ASSUME NEW g \in DOMAIN ownMemory' PROVE memories'[g] = ownMemory'[g].text \/ TextKept(g)'
    <2>1. CASE g = f
      BY <1>2, <1>3, <1>4, <2>1
    <2>2. CASE g # f
      BY <1>2, <1>4, <1>8, <2>2 DEF MemoryInv, MemoryShape
    <2> QED BY <2>1, <2>2
  <1>12. \A b \in DOMAIN memoryCopies' : \E s \in Transplants : Owns(transplant'[s], b)
    BY <1>5 DEF MemoryInv
  <1> QED BY <1>6, <1>10, <1>11, <1>12 DEF MemoryInv

LEMMA IdleMemory == ASSUME MemoryInv, UNCHANGED memoryVars PROVE MemoryInv'
  <1>1. UNCHANGED <<memories, memoryCopies, transplant, ownMemory>>
    BY DEF memoryVars
  <1> QED BY <1>1 DEF MemoryInv, MemoryShape, TextKept, SameInstant, WithoutBackup, FileOf

(* Whatever Codex wrote last to a memory file of the destination is still  *)
(* in the file or in one of its backups, however many transplants follow   *)
(* each other, overlap, fail or die (planCodexMemoryTransplant and         *)
(* transplantCodexMemories), but for the texts that the code does not look *)
(* at again, was told not to back up or names alike.                       *)
THEOREM ReplacedMemoryIsKept == MemorySpec => []ReplacedMemorySurvives
  <1>1. MemoryInit => MemoryInv
    BY MemoriesStart
  <1>2. MemoryInv /\ [MemoryNext]_memoryVars => MemoryInv'
    <2> SUFFICES ASSUME MemoryInv, [MemoryNext]_memoryVars PROVE MemoryInv'
      OBVIOUS
    <2>1. ASSUME NEW t \in Transplants, TransplantStep(t) PROVE MemoryInv'
      BY <2>1, QuietTransplants, CopyAway, CopySteps DEF TransplantStep
    <2>2. ASSUME NEW f \in MemoryFiles, CodexWrites(f) PROVE MemoryInv'
      BY <2>2, OwnWriteSteps
    <2> QED BY <2>1, <2>2, IdleMemory DEF MemoryNext
  <1>3. MemoryInv => ReplacedMemorySurvives
    BY DEF MemoryInv, TextKept, ReplacedMemorySurvives
  <1> QED BY <1>1, <1>2, <1>3, PTL DEF MemorySpec

=============================================================================
