--------------------------- MODULE InstallTransaction ---------------------------
(***************************************************************************)
(* The network settings over installations, upgrades and removals of the   *)
(* product and their rollbacks: the order of the installer's script        *)
(* (installSequence.wxs, driverInstall.wxs), the backup file that one      *)
(* product writes and the next one reads, and what the driver actions do   *)
(* to the adapters meanwhile.                                              *)
(*                                                                         *)
(* An upgrade is the old product's removal followed by the new product's   *)
(* installation, in one transaction.  NicConfigFile and NicRestore show    *)
(* the two custom actions SaveSettings and RestoreSettings step by step;   *)
(* here a save is one step and a restore one step for each adapter.        *)
(***************************************************************************)
EXTENDS Naturals, Sequences, FiniteSets

CONSTANTS
    Nics,      \* network adapters of the netkvm driver
    Statics,   \* static configurations a user may give an adapter
    Dhcp,      \* the configuration of an adapter nobody configured
    Leased,    \* the addresses of a DHCP lease, taken for a static configuration
    Dirs,      \* the directories INSTALLERDIR may name
    NoDir,     \* the product is not installed
    NoFile     \* no record, no file, nothing parsed

Settings == Statics \cup {Dhcp, Leased}

\* What the backup file says: a configuration for some of the adapters.
Records == [Nics -> Statics \cup {Leased, NoFile}]

ASSUME SettingsAssumption == {Dhcp, Leased, NoFile} \cap Statics = {}
ASSUME DistinctAssumption == /\ Dhcp # Leased /\ Leased # NoFile /\ Dhcp # NoFile
                             /\ NoFile \notin Records
ASSUME DirsAssumption == NoDir \notin Dirs

VARIABLES
    home,      \* the directory of the installed product, or NoDir
    target,    \* the directory the running installation copies to
    kind,      \* "none" | "install" | "upgrade" | "remove"
    phase,     \* "idle" | "run" | "rollback" | "over"
    step,      \* the entry of the script that is next, or is to be undone
    files,     \* the .inf the driver actions look for is on disk
    published, \* a netkvm package is in the driver store
    driver,    \* the adapters netkvm drives
    settings,  \* the configuration of each adapter
    backup,    \* [Dirs -> Records \cup {NoFile}]: viocfg.cfg
    loaded,    \* ConfigRead::adapters while a restore runs, else NoFile
    pending,   \* adapters with a record that is not in `restored` yet
    applied,   \* history: adapters the last restore configured
    asSaved,   \* history: the configurations when the last removal began
    current,   \* history: directories whose file that removal has written
    missed     \* history: adapters that its save, or a restore since, has left out

guest == <<published, driver, settings>>
restoring == <<loaded, pending, applied>>
history == <<asSaved, current, missed>>
vars == <<home, target, kind, phase, step, files, guest, backup, restoring, history>>

-------------------------------------------------------------------------------
(* The script: what each entry does, and what undoes it *)

Entry(do, undo) == [do |-> do, undo |-> undo]

\* Mutant: the settings are saved last.
RemovalSavedLast ==
    << Entry("RemoveFiles", "RestoreFiles"),
       Entry("UninstallPackages", "InstallPackages"),
       Entry("SaveSettings", "nothing") >>

\* REMOVE="ALL": CA_SaveVIOConfig after InstallInitialize, RemoveFiles, and the
\* driver actions, which ProcessDriverPackages schedules after InstallFiles.
Removal ==
    << Entry("SaveSettings", "nothing"),
       Entry("RemoveFiles", "RestoreFiles"),
       Entry("UninstallPackages", "InstallPackages") >>

\* Mutant: the rollback restore is scheduled last.
InstallationRollbackLast ==
    << Entry("CopyFiles", "RemoveFiles"),
       Entry("InstallPackages", "UninstallPackages"),
       Entry("RestoreSettings", "RestoreSettings") >>

\* NOT Installed: CA_RollbackRestoreVIOConfig after RemoveFiles, the files, the
\* drivers, CA_RestoreVIOConfig before InstallFinalize.
Installation ==
    << Entry("nothing", "RestoreSettings"),
       Entry("CopyFiles", "RemoveFiles"),
       Entry("InstallPackages", "UninstallPackages"),
       Entry("RestoreSettings", "nothing") >>

\* RemoveExistingProducts comes right after InstallInitialize.
Script == CASE kind = "remove" -> Removal
            [] kind = "install" -> Installation
            [] kind = "upgrade" -> Removal \o Installation
            [] OTHER -> << >>

\* Entry `step` is at its action a.
At(a) == /\ step \in DOMAIN Script
         /\ \/ phase = "run" /\ Script[step].do = a
            \/ phase = "rollback" /\ Script[step].undo = a

\* It has returned: the script goes on, or a failure or the user's cancel starts
\* the rollback with this very entry.  No undoing action stops the rollback.
Returns == \/ phase = "run" /\ step' = step + 1 /\ UNCHANGED phase
           \/ phase = "run" /\ phase' = "rollback" /\ UNCHANGED step
           \/ phase = "rollback" /\ step' = step - 1 /\ UNCHANGED phase

-------------------------------------------------------------------------------
\* The product is absent, and so is its file.  A netkvm driver may have been
\* installed by hand.
Init ==
    /\ home = NoDir
    /\ target = NoDir
    /\ kind = "none"
    /\ phase = "idle"
    /\ step = 0
    /\ files = FALSE
    /\ published \in BOOLEAN
    /\ driver \in SUBSET IF published THEN Nics ELSE {}
    /\ settings = [n \in Nics |-> Dhcp]
    /\ backup = [d \in Dirs |-> NoFile]
    /\ loaded = NoFile
    /\ pending = {}
    /\ applied = {}
    /\ asSaved = [n \in Nics |-> Dhcp]
    /\ current = {}
    /\ missed = {}

\* A transaction begins: a removal, or an installation into directory d.
Begin(k, d) ==
    /\ phase = "idle"
    /\ CASE k = "install" -> home = NoDir
         [] k = "upgrade" -> home # NoDir
         [] k = "remove" -> home # NoDir /\ d = home
    /\ kind' = k
    /\ target' = d
    /\ phase' = "run"
    /\ step' = 1
    /\ applied' = {}
    /\ IF k = "install" THEN UNCHANGED history
                        ELSE asSaved' = settings /\ current' = {} /\ missed' = {}
    /\ UNCHANGED <<home, files, guest, backup, loaded, pending>>

-------------------------------------------------------------------------------
(* CA_SaveVIOConfig: SaveSettings with [INSTALLERDIR]viocfg.cfg *)

\* Mutant: an adapter on DHCP is saved too.
StaticNicsAny == driver

\* What ConfigWrite::Run looks for: adapters netkvm drives, DHCPEnabled false.
StaticNics == {n \in driver : settings[n] # Dhcp}

\* Mutant: only the adapters found are overwritten in the file.
SaveSettingsKeepingOld ==
    /\ At("SaveSettings")
    /\ \E found \in SUBSET StaticNics :
           /\ backup' = [backup EXCEPT ![home] =
                             [n \in Nics |-> IF n \in found THEN settings[n]
                                             ELSE IF backup[home] = NoFile THEN NoFile
                                             ELSE backup[home][n]]]
           /\ missed' = {n \in Nics : settings[n] # Dhcp} \ found
    /\ current' = {home}
    /\ Returns
    /\ UNCHANGED <<home, target, kind, files, guest, restoring, asSaved>>

\* The file is opened, which empties it, before WMI is asked: only the adapters
\* found get a record, none when the query fails.  An adapter on DHCP whose
\* property DHCPEnabled cannot be read is taken for a static one.
SaveSettings ==
    /\ At("SaveSettings")
    /\ \E found \in SUBSET StaticNics,
          misread \in SUBSET {n \in driver : settings[n] = Dhcp} :
           /\ backup' = [backup EXCEPT ![home] =
                             [n \in Nics |-> CASE n \in found -> settings[n]
                                               [] n \in misread -> Leased
                                               [] OTHER -> NoFile]]
           /\ missed' = {n \in Nics : settings[n] # Dhcp} \ found
    /\ current' = {home}
    /\ Returns
    /\ UNCHANGED <<home, target, kind, files, guest, restoring, asSaved>>

\* The file cannot be opened: Open does not notice (errno is not negative), and
\* the lines are dropped.
SaveUnopened ==
    /\ At("SaveSettings")
    /\ Returns
    /\ UNCHANGED <<home, target, kind, files, guest, backup, restoring, history>>

-------------------------------------------------------------------------------
(* CA_RestoreVIOConfig and CA_RollbackRestoreVIOConfig: RestoreSettings *)

NoRecords == [n \in Nics |-> NoFile]

\* What the file in directory d gives: nothing when it is missing or cannot be
\* opened, which is no error either.
Parsed(d) == {NoRecords} \cup ({backup[d]} \ {NoFile})

\* The file is parsed.
RestoreBegins ==
    /\ At("RestoreSettings")
    /\ loaded = NoFile
    /\ loaded' \in Parsed(target)
    /\ pending' = {n \in Nics : loaded'[n] # NoFile}
    /\ applied' = {}
    /\ missed' = IF loaded' = backup[target] THEN missed ELSE Nics
    /\ UNCHANGED <<home, target, kind, phase, step, files, guest, backup, asSaved, current>>

\* An attempt comes upon adapter n, which is started by now; its record is
\* applied, or WMI fails.  It is done with either way.
RestoreOne(n) ==
    /\ loaded # NoFile
    /\ n \in pending \cap driver
    /\ pending' = pending \ {n}
    /\ \/ /\ settings' = [settings EXCEPT ![n] = loaded[n]]
          /\ applied' = applied \cup {n}
          /\ UNCHANGED missed
       \/ /\ missed' = missed \cup {n}
          /\ UNCHANGED <<settings, applied>>
    /\ UNCHANGED <<home, target, kind, phase, step, files, published, driver, backup,
                   loaded, asSaved, current>>

\* Every record is done with, or the attempts are used up.
RestoreEnds ==
    /\ loaded # NoFile
    /\ loaded' = NoFile
    /\ pending' = {}
    /\ missed' = missed \cup pending
    /\ Returns
    /\ UNCHANGED <<home, target, kind, files, guest, backup, applied, asSaved, current>>

\* COM cannot be initialised, or the parser throws at a damaged file: the two ways
\* these actions fail.  A restore that fails so has configured no adapter.
SettingsActionFails ==
    /\ \/ At("SaveSettings") /\ UNCHANGED applied
       \/ At("RestoreSettings") /\ loaded = NoFile /\ applied' = {}
    /\ IF phase = "run" THEN phase' = "rollback" /\ UNCHANGED step
                        ELSE step' = step - 1 /\ UNCHANGED phase
    /\ UNCHANGED <<home, target, kind, files, guest, backup, loaded, pending, history>>

-------------------------------------------------------------------------------
(* The driver actions and the files *)

\* InstallPackages needs the .inf.  The package is published and some adapters
\* are bound to it, or it fails and "continues anyway".
InstallPackages ==
    /\ At("InstallPackages")
    /\ IF files
       THEN /\ published' \in {published, TRUE}
            /\ driver' \in {driver \cup new : new \in SUBSET IF published' THEN Nics ELSE {}}
       ELSE UNCHANGED <<published, driver>>
    /\ Returns
    /\ UNCHANGED <<home, target, kind, files, settings, backup, restoring, history>>

\* UninstallPackages removes device nodes, and with a node its settings; the
\* package leaves the store only when nothing is bound to it any more.
UninstallPackages ==
    /\ At("UninstallPackages")
    /\ \E gone \in SUBSET driver :
           /\ driver' = driver \ gone
           /\ published' \in {published} \cup (IF gone = driver THEN {FALSE} ELSE {})
           /\ \E lost \in SUBSET gone :
                  settings' = [n \in Nics |-> IF n \in lost THEN Dhcp ELSE settings[n]]
    /\ Returns
    /\ UNCHANGED <<home, target, kind, files, backup, restoring, history>>

\* Copying, removing and putting back files.  viocfg.cfg is none of the product's
\* files: it stays where it is.
MoveFiles ==
    /\ \/ At("CopyFiles") /\ files' = TRUE
       \/ At("RestoreFiles") /\ files' = TRUE
       \/ At("RemoveFiles") /\ files' = FALSE
    /\ Returns
    /\ UNCHANGED <<home, target, kind, guest, backup, restoring, history>>

Pass ==
    /\ At("nothing")
    /\ Returns
    /\ UNCHANGED <<home, target, kind, files, guest, backup, restoring, history>>

-------------------------------------------------------------------------------
(* Windows Installer *)

\* Anything else of the installation fails, or the user cancels: what was reached
\* is undone.
OtherActionFails ==
    /\ phase = "run"
    /\ loaded = NoFile
    /\ phase' = "rollback"
    /\ step' = step - 1
    /\ UNCHANGED <<home, target, kind, files, guest, backup, restoring, history>>

\* InstallFinalize.
Commit ==
    /\ phase = "run"
    /\ step > Len(Script)
    /\ phase' = "over"
    /\ home' = IF kind = "remove" THEN NoDir ELSE target
    /\ UNCHANGED <<target, kind, step, files, guest, backup, restoring, history>>

RolledBack ==
    /\ phase = "rollback"
    /\ step = 0
    /\ phase' = "over"
    /\ UNCHANGED <<home, target, kind, step, files, guest, backup, restoring, history>>

Finish ==
    /\ phase = "over"
    /\ phase' = "idle"
    /\ kind' = "none"
    /\ step' = 0
    /\ UNCHANGED <<home, target, files, guest, backup, restoring, history>>

-------------------------------------------------------------------------------
(* The guest *)

\* Plug and Play gives an adapter a published driver.
StartNic(n) ==
    /\ published
    /\ n \notin driver
    /\ driver' = driver \cup {n}
    /\ UNCHANGED <<home, target, kind, phase, step, files, published, settings, backup,
                   restoring, history>>

\* Between two transactions a user configures an adapter, or installs the driver
\* without the product.
Configure(n, s) ==
    /\ phase = "idle"
    /\ n \in driver
    /\ settings' = [settings EXCEPT ![n] = s]
    /\ UNCHANGED <<home, target, kind, phase, step, files, published, driver, backup,
                   restoring, history>>
PublishByHand ==
    /\ phase = "idle"
    /\ ~published
    /\ published' = TRUE
    /\ UNCHANGED <<home, target, kind, phase, step, files, driver, settings, backup,
                   restoring, history>>

-------------------------------------------------------------------------------
Actions == \/ SaveSettings \/ SaveUnopened \/ SettingsActionFails
           \/ RestoreBegins \/ RestoreEnds \/ \E n \in Nics : RestoreOne(n)
           \/ InstallPackages \/ UninstallPackages \/ MoveFiles \/ Pass
Installer == Actions \/ OtherActionFails \/ Commit \/ RolledBack \/ Finish
User == \/ \E k \in {"install", "upgrade", "remove"}, d \in Dirs : Begin(k, d)
        \/ \E n \in Nics : StartNic(n) \/ \E s \in Statics \cup {Dhcp} : Configure(n, s)
        \/ PublishByHand

Next == Installer \/ User

Spec == Init /\ [][Next]_vars

-------------------------------------------------------------------------------
(* Properties *)

\* Every variable keeps its type, and the script's place is in the script.
TypeOK ==
    /\ home \in Dirs \cup {NoDir} /\ target \in Dirs \cup {NoDir}
    /\ kind \in {"none", "install", "upgrade", "remove"}
    /\ phase \in {"idle", "run", "rollback", "over"}
    /\ step \in 0..(Len(Script) + 1)
    /\ files \in BOOLEAN /\ published \in BOOLEAN
    /\ driver \subseteq Nics /\ pending \subseteq Nics /\ applied \subseteq Nics
    /\ settings \in [Nics -> Settings] /\ asSaved \in [Nics -> Settings]
    /\ backup \in [Dirs -> Records \cup {NoFile}]
    /\ loaded \in Records \cup {NoFile}
    /\ current \subseteq Dirs /\ missed \subseteq Nics

\* What an adapter that had configuration s may have got from its own record: a
\* lease may have been taken for a static configuration.
OwnRecord(s) == IF s = Dhcp THEN {Leased} ELSE {s}

\* Whatever fails, is cancelled or rolled back, an upgrade never gives an adapter
\* a configuration other than the one it had when the upgrade began: it keeps it,
\* loses it, or gets it back, although the file may hold an older backup and two
\* products' actions work on it.  (The new product must use the same directory,
\* and the old one have been able to open the file.)
UpgradeNeverWrong ==
    kind \in {"upgrade", "remove"} /\ target \in current =>
        \A n \in Nics : settings[n] \in {asSaved[n], Dhcp} \cup OwnRecord(asSaved[n])

\* An adapter the last restore has configured ends the transaction, committed or
\* rolled back, with what it had when the backup was made: no later entry of the
\* script, and no earlier one that is undone later, takes it away.
RestoredStays ==
    phase = "over" /\ target \in current =>
        \A n \in applied : settings[n] \in OwnRecord(asSaved[n])

\* Once an upgrade is committed, an adapter that had a static configuration has it
\* again, although its node, its driver and the product were removed and installed
\* anew and another product's action read the file: unless the save or the restore
\* failed for this very adapter, or its driver was not there in time.
UpgradeKeepsSettings ==
    phase = "over" /\ step # 0 /\ kind = "upgrade" /\ target \in current =>
        \A n \in Nics \ missed : asSaved[n] # Dhcp => settings[n] = asSaved[n]

-------------------------------------------------------------------------------
(* The inductive invariant of the proofs *)

\* The entry of CA_RollbackRestoreVIOConfig, the first of the installation.
First == Len(Script) - Len(Installation) + 1

\* The place of the two settings actions: a file is loaded at a restore only, and
\* nothing has been configured before the one that ends the script.
PlaceInv ==
    /\ loaded # NoFile => At("RestoreSettings")
    /\ phase = "run" /\ (kind = "remove" \/ step < Len(Script)) => applied = {}
    /\ phase = "run" => step >= 1
    /\ phase = "over" => step = 0 \/ step > Len(Script)
    /\ IF phase = "idle" THEN kind = "none" ELSE kind # "none" /\ target # NoDir
    /\ kind = "remove" => applied = {}
    /\ phase \in {"run", "rollback"} /\ kind \in {"upgrade", "remove"} => home # NoDir

\* Until the save the settings are those of the beginning.
UnsavedInv ==
    phase = "run" /\ kind \in {"upgrade", "remove"} /\ step = 1 => settings = asSaved

\* Record r says of each adapter nothing, or what it had.
OwnOnly(r) == \A n \in Nics : r[n] \in {NoFile} \cup OwnRecord(asSaved[n])

\* So does the file the last removal has written, and what is loaded from it.
BackupInv ==
    /\ \A d \in current : backup[d] # NoFile /\ OwnOnly(backup[d])
    /\ loaded # NoFile /\ target \in current => OwnOnly(loaded)
    /\ pending \subseteq {n \in Nics : loaded # NoFile /\ loaded[n] # NoFile}

\* `applied` is true except between the undoing of InstallPackages and the restore
\* that follows it in the rollback.
AppliedCounts ==
    \/ phase \in {"run", "over"}
    \/ phase = "rollback" /\ (loaded # NoFile \/ kind = "remove" \/ step < First)
AppliedInv ==
    target \in current /\ AppliedCounts =>
        \A n \in applied : settings[n] \in OwnRecord(asSaved[n])

\* An adapter that was not missed has its record in the file, and in what is loaded
\* from it, until it is configured.
Kept(n) == n \notin missed /\ asSaved[n] # Dhcp
KeptInv ==
    /\ \A d \in current, n \in Nics : Kept(n) => backup[d][n] = asSaved[n]
    /\ loaded # NoFile /\ target \in current =>
           \A n \in Nics : Kept(n) => n \in pending \cup applied
    /\ phase \in {"run", "over"} /\ step > Len(Script) /\ kind = "upgrade"
           /\ target \in current => \A n \in Nics : Kept(n) => n \in applied

IInv == /\ TypeOK /\ PlaceInv /\ UnsavedInv /\ BackupInv /\ UpgradeNeverWrong
        /\ AppliedInv /\ KeptInv
===============================================================================
