------------------------------ MODULE KitInstall ------------------------------
(***************************************************************************)
(* "kit add --apply": discover the items of a kit, plan what to do with    *)
(* each, copy them one by one, register the plugins in the marketplace     *)
(* file and the items in the lock file.  Nothing is locked, and only the   *)
(* directories that are replaced have a backup, in a directory named by    *)
(* the millisecond of the plan.                                            *)
(***************************************************************************)
EXTENDS Naturals, FiniteSets

CONSTANTS
  Installers,  \* processes of "kit add"
  Offer,       \* [Installers -> set of [kind, name, path, quality, content]]
  Options,     \* [Installers -> [overwrite, include, exclude]]
  Setup,       \* the key of the setup skill, which can be retired
  Stamps,      \* the milliseconds a plan can be made in
  KitEdits, KitCrashes   \* bounds

ASSUME KitConstants == KitEdits \in Nat /\ KitCrashes \in Nat /\ 0 \notin Stamps

VARIABLES
  installer,   \* the processes
  dest,        \* what is at the destination of a key
  backups,     \* what kit-backups hold of a key, by the stamp of the plan
  market,      \* marketplace.json: the entry of every plugin
  lockFile,    \* kit-lock.json: the content hash of every key
  kitEdits, kitCrashes,
  disturbed,   \* history: installers whose plan others have outdated
  lateEdits,   \* history: contents a user wrote while somebody installed
  stamped,     \* history: the stamps of the plans so far,
  shared,      \* those of more than one plan
  replaced     \* history: what a user wrote at a key and an install took away

placed == <<dest, replaced>>
saved == <<backups, stamped, shared>>
files == <<market, lockFile>>
kitVars == <<installer, placed, saved, files, kitEdits, kitCrashes, disturbed, lateEdits>>

(* The destination depends on kind and name only.                          *)
KeyOf(item) == <<item.kind, item.name>>
KitKeys == {KeyOf(item) : item \in UNION {Offer[p] : p \in Installers}}

Missing == <<"missing", 0>>
Partial == <<"partial", 0>>   \* a copy that is not complete,
Mixed == <<"mixed", 0>>       \* or was made into something else
KitContent(c) == <<"kit", c>>
RetiredContent(c) == <<"retired", c>>
UserContent(n) == <<"user", n>>

NoStamp == 0
NoEntry == 0
EmptyFile == [text |-> "empty", entries |-> [k \in KitKeys |-> NoEntry]]
TornFile == [EmptyFile EXCEPT !.text = "torn"]
IntactFile(entries) == [text |-> "whole", entries |-> entries]

(* What is written into a file that is no longer empty replaces only as    *)
(* much of it: the end of a longer text of another sticks out.             *)
WrittenInPlace(file, entries) ==
  {IntactFile(entries)} \cup (IF file.text = "empty" THEN {} ELSE {TornFile})
Own == 1      \* an entry of the marketplace with the expected path
Foreign == 2  \* or with another

IdleInstaller == [pc |-> "idle", plan |-> [k \in KitKeys |-> "none"], todo |-> {},
                  cur |-> <<"none", "none">>, seen |-> [k \in KitKeys |-> NoEntry],
                  lock |-> [k \in KitKeys |-> NoEntry], stamp |-> NoStamp]

KitInit ==
  /\ installer = [p \in Installers |-> IdleInstaller]
  /\ \E taken \in SUBSET KitKeys :
       dest = [k \in KitKeys |-> IF k \in taken THEN UserContent(0) ELSE Missing]
  /\ backups = [k \in KitKeys |-> [s \in Stamps |-> Missing]]
  /\ \E entry \in {NoEntry, Foreign} :
       market = IntactFile([k \in KitKeys |-> IF k[1] = "plugin" THEN entry ELSE NoEntry])
  /\ lockFile = IntactFile([k \in KitKeys |-> NoEntry])
  /\ kitEdits = 0 /\ kitCrashes = 0 /\ disturbed = {} /\ lateEdits = {}
  /\ stamped = {} /\ shared = {} /\ replaced = {}

----------------------------------------------------------------------------
(* An item without a safe name or its kind's file is left out with a       *)
(* warning; one whose path leaves the kit, or a plugin whose own manifest  *)
(* is no JSON, ends the command.  Of two with one key the one with the     *)
(* smaller path is kept.                                                   *)
discoverKit(p) ==
  {item \in Offer[p] :
     /\ item.quality = "good"
     /\ \A other \in Offer[p] :
          other.quality = "good" /\ KeyOf(other) = KeyOf(item) => item.path <= other.path}
DiscoveryFails(p) == \E item \in Offer[p] : item.quality = "broken"

Names(keys, item) ==
  \E key \in keys : key.name = item.name /\ key.kind \in {"any", item.kind}

Selected(p, item) ==
  /\ Options[p].include # {} => Names(Options[p].include, item)
  /\ ~Names(Options[p].exclude, item)

(* Equal hashes, or the setup skill with its file renamed.                 *)
Matches(key, content, hash) ==
  content = KitContent(hash) \/ (key = Setup /\ content = RetiredContent(hash))

(* A marketplace entry of another source, under a name no lock entry owns. *)
MarketplaceConflict(key) ==
  key[1] = "plugin" /\ market.entries[key] = Foreign /\ lockFile.entries[key] = NoEntry

PlannedAction(p, item) ==
  LET key == KeyOf(item)
      replace == IF Options[p].overwrite THEN "overwrite" ELSE "conflict"
  IN CASE ~Selected(p, item) -> "skip"
       [] Selected(p, item) /\ MarketplaceConflict(key) /\ ~Options[p].overwrite -> "conflict"
       [] OTHER -> IF dest[key] = Missing THEN "add"
                   ELSE IF Matches(key, dest[key], item.content) THEN "unchanged"
                   ELSE replace

ItemOf(p, key) == CHOOSE item \in discoverKit(p) : KeyOf(item) = key
Installable(p) ==
  {k \in KitKeys : installer[p].plan[k] \in {"add", "overwrite", "unchanged"}}

InstallStep(p, from, to) ==
  /\ installer[p].pc = from
  /\ installer' = [installer EXCEPT ![p] = to]
  /\ disturbed' = (disturbed \cup {q \in Installers \ {p} : installer[q].pc # "idle"})
                  \ (IF from = "idle" THEN {p} ELSE {})
  /\ UNCHANGED <<kitEdits, lateEdits>>

(* A lock or marketplace file that cannot be parsed ends every later plan. *)
(* A plan that replaces anything has a directory for the backups.          *)
buildKitAddPlan(p) ==
  LET items == discoverKit(p)
      plan == [k \in KitKeys |-> IF \E item \in items : KeyOf(item) = k
                                 THEN PlannedAction(p, ItemOf(p, k)) ELSE "none"]
      backsUp == \E k \in KitKeys : plan[k] = "overwrite"
  IN /\ ~DiscoveryFails(p)
     /\ lockFile.text = "whole"
     /\ (\E item \in items : item.kind = "plugin" /\ Selected(p, item)) => market.text = "whole"
     /\ \E stamp \in (IF backsUp THEN Stamps ELSE {NoStamp}) :
          /\ InstallStep(p, "idle", [IdleInstaller EXCEPT !.pc = "apply", !.plan = plan,
               !.todo = {k \in KitKeys : plan[k] \in {"add", "overwrite"}},
               !.seen = lockFile.entries, !.stamp = stamp])
          /\ shared' = shared \cup ({stamp} \cap stamped)
          /\ stamped' = IF backsUp THEN stamped \cup {stamp} ELSE stamped
     /\ UNCHANGED <<placed, backups, files, kitCrashes>>

(* applyPlan, item by item; a replaced directory is backed up and removed. *)
TakeItem(p) ==
  /\ \E k \in installer[p].todo :
       InstallStep(p, "apply", [installer[p] EXCEPT !.cur = k, !.todo = @ \ {k},
         !.pc = IF installer[p].plan[k] = "overwrite" THEN "backup" ELSE "copy"])
  /\ UNCHANGED <<placed, saved, files, kitCrashes>>

(* What is at the destination of a key becomes something else.             *)
Replace(k, content) ==
  /\ dest' = [dest EXCEPT ![k] = content]
  /\ replaced' = IF dest[k][1] = "user" THEN replaced \cup {<<k, dest[k]>>} ELSE replaced

(* Mutant of BackUpItem: the directory is removed before it is copied.     *)
RemoveItemFirst(p) ==
  /\ InstallStep(p, "backup", [installer[p] EXCEPT !.pc = "remove"])
  /\ dest[installer[p].cur] # Missing
  /\ Replace(installer[p].cur, Missing)
  /\ UNCHANGED <<saved, files, kitCrashes>>

(* cp with force: into what a plan of the same millisecond has put there.  *)
BackUpItem(p) ==
  LET k == installer[p].cur IN
  /\ InstallStep(p, "backup", [installer[p] EXCEPT !.pc = "remove"])
  /\ dest[k] # Missing
  /\ backups' = [backups EXCEPT ![k][installer[p].stamp] = IF @ = Missing THEN dest[k] ELSE Mixed]
  /\ UNCHANGED <<placed, stamped, shared, files, kitCrashes>>

RemoveReplaced(p) ==
  /\ InstallStep(p, "remove", [installer[p] EXCEPT !.pc = "copy"])
  /\ Replace(installer[p].cur, Missing)
  /\ UNCHANGED <<saved, files, kitCrashes>>

(* cp with force: into whatever is there by now.                           *)
CopyStarts(p) ==
  LET k == installer[p].cur IN
  /\ InstallStep(p, "copy", [installer[p] EXCEPT !.pc = "fill"])
  /\ Replace(k, IF dest[k] = Missing THEN Partial ELSE Mixed)
  /\ UNCHANGED <<saved, files, kitCrashes>>

CopyEnds(p) ==
  LET k == installer[p].cur IN
  /\ InstallStep(p, "fill", [installer[p] EXCEPT !.pc = "apply"])
  /\ Replace(k, IF dest[k] = Partial THEN KitContent(ItemOf(p, k).content) ELSE Mixed)
  /\ UNCHANGED <<saved, files, kitCrashes>>

(* The marketplace file is read, then emptied and written in place.        *)
HasPlugins(p) == \E k \in Installable(p) : k[1] = "plugin"

ReadMarketplace(p) ==
  /\ installer[p].todo = {} /\ HasPlugins(p) /\ market.text = "whole"
  /\ InstallStep(p, "apply", [installer[p] EXCEPT !.pc = "market", !.lock = market.entries])
  /\ UNCHANGED <<placed, saved, files, kitCrashes>>

OpenMarketplace(p) ==
  /\ InstallStep(p, "market", [installer[p] EXCEPT !.pc = "marketWrite"])
  /\ market' = EmptyFile
  /\ UNCHANGED <<placed, saved, lockFile, kitCrashes>>

updateMarketplace(p) ==
  /\ InstallStep(p, "marketWrite", [installer[p] EXCEPT !.pc = "lock"])
  /\ market' \in WrittenInPlace(market, [k \in KitKeys |->
       IF k \in Installable(p) /\ k[1] = "plugin" THEN Own ELSE installer[p].lock[k]])
  /\ UNCHANGED <<placed, saved, lockFile, kitCrashes>>

NoPlugins(p) ==
  /\ installer[p].todo = {} /\ ~HasPlugins(p)
  /\ InstallStep(p, "apply", [installer[p] EXCEPT !.pc = "lock"])
  /\ UNCHANGED <<placed, saved, files, kitCrashes>>

(* And so is the lock file.                                                *)
ReadLock(p) ==
  /\ lockFile.text = "whole"
  /\ InstallStep(p, "lock", [installer[p] EXCEPT !.pc = "lockOpen", !.lock = lockFile.entries])
  /\ UNCHANGED <<placed, saved, files, kitCrashes>>

OpenLock(p) ==
  /\ InstallStep(p, "lockOpen", [installer[p] EXCEPT !.pc = "write"])
  /\ lockFile' = EmptyFile
  /\ UNCHANGED <<placed, saved, market, kitCrashes>>

(* Mutant of updateKitLock: what was unchanged is not registered.          *)
updateKitLockForCopies(p) ==
  /\ InstallStep(p, "write", [installer[p] EXCEPT !.pc = "done"])
  /\ lockFile' \in WrittenInPlace(lockFile, [k \in KitKeys |->
       IF installer[p].plan[k] \in {"add", "overwrite"} THEN ItemOf(p, k).content
       ELSE installer[p].lock[k]])
  /\ UNCHANGED <<placed, saved, market, kitCrashes>>

updateKitLock(p) ==
  /\ InstallStep(p, "write", [installer[p] EXCEPT !.pc = "done"])
  /\ lockFile' \in WrittenInPlace(lockFile, [k \in KitKeys |->
       IF k \in Installable(p) THEN ItemOf(p, k).content ELSE installer[p].lock[k]])
  /\ UNCHANGED <<placed, saved, market, kitCrashes>>

(* The process ends: after its work, after an error, or because it died.   *)
InstallEnds(p) ==
  /\ \/ installer[p].pc = "done"
     \/ installer[p].pc = "backup" /\ dest[installer[p].cur] = Missing
     \/ /\ installer[p].pc = "apply" /\ installer[p].todo = {}
        /\ HasPlugins(p) /\ market.text # "whole"
     \/ installer[p].pc = "lock" /\ lockFile.text # "whole"
  /\ InstallStep(p, installer[p].pc, IdleInstaller)
  /\ UNCHANGED <<placed, saved, files, kitCrashes>>

InstallDies(p) ==
  /\ kitCrashes < KitCrashes /\ kitCrashes' = kitCrashes + 1
  /\ installer[p].pc \notin {"idle", "done"}
  /\ InstallStep(p, installer[p].pc, IdleInstaller)
  /\ UNCHANGED <<placed, saved, files>>

----------------------------------------------------------------------------
Edit(k, content) ==
  /\ dest' = [dest EXCEPT ![k] = content]
  /\ disturbed' = disturbed \cup {q \in Installers : installer[q].pc # "idle"}
  /\ UNCHANGED <<installer, saved, replaced, files, kitCrashes>>

(* A user writes something of their own at a destination.                  *)
UserEdits(k) ==
  /\ kitEdits < KitEdits /\ kitEdits' = kitEdits + 1
  /\ Edit(k, UserContent(kitEdits'))
  /\ lateEdits' = IF \E q \in Installers : installer[q].pc # "idle"
                  THEN lateEdits \cup {UserContent(kitEdits')} ELSE lateEdits

(* The setup skill retires itself when it is done: its file is renamed.    *)
retireSetupSkill ==
  /\ Setup \in KitKeys /\ dest[Setup][1] = "kit"
  /\ Edit(Setup, RetiredContent(dest[Setup][2]))
  /\ UNCHANGED <<kitEdits, lateEdits>>

KitNext ==
  \/ \E p \in Installers :
       \/ buildKitAddPlan(p) \/ TakeItem(p) \/ BackUpItem(p) \/ RemoveReplaced(p)
       \/ CopyStarts(p) \/ CopyEnds(p) \/ ReadMarketplace(p) \/ OpenMarketplace(p)
       \/ updateMarketplace(p) \/ NoPlugins(p) \/ ReadLock(p) \/ OpenLock(p)
       \/ updateKitLock(p) \/ InstallEnds(p) \/ InstallDies(p)
  \/ \E k \in KitKeys : UserEdits(k)
  \/ retireSetupSkill

KitSpec == KitInit /\ [][KitNext]_kitVars

----------------------------------------------------------------------------
(***************************************************************************)
(* "Changed destinations are conflicts unless overwrite is explicit", and  *)
(* "overwrite backs up replaced item directories": what a user wrote       *)
(* before an install began, and an install has taken away - even one that  *)
(* crashed and was repeated, or ran beside another - is still in a backup, *)
(* unless plans of the same millisecond have written theirs over it.       *)
(***************************************************************************)
Held(k, content) ==
  \/ content \in lateEdits
  \/ \E s \in Stamps :
       \/ backups[k][s] = content
       \/ s \in shared /\ backups[k][s] # Missing

ReplacedIsBackedUp == \A taken \in replaced : Held(taken[1], taken[2])

(***************************************************************************)
(* An install that ends undisturbed leaves every item it did not skip      *)
(* installed, registered and locked under its own hash, whatever an        *)
(* earlier install that died has left, and loses no other lock entry.      *)
(***************************************************************************)
EndedInstallIsComplete ==
  \A p \in Installers : installer[p].pc = "done" /\ p \notin disturbed =>
    \A k \in KitKeys :
      IF k \in Installable(p)
      THEN /\ Matches(k, dest[k], ItemOf(p, k).content)
           /\ lockFile.entries[k] = ItemOf(p, k).content
           /\ k[1] = "plugin" => market.entries[k] = Own
      ELSE lockFile.entries[k] = installer[p].seen[k]

=============================================================================
