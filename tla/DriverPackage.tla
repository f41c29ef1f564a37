----------------------------- MODULE DriverPackage -----------------------------
(***************************************************************************)
(* One driver package and the guest's devices (DevProps and DevDriver,     *)
(* src/DrvInst/DrvInstCA/DevProps.cpp), through the installations, repairs *)
(* and removals of the product and their rollbacks.                        *)
(*                                                                         *)
(* State outside of the DLL: the .inf in the product's directory, the      *)
(* driver store (packages published under oem<slot>.inf), the device       *)
(* nodes and the driver each is bound to, and the component's registry     *)
(* key.  Plug and Play, and other tools that publish or delete packages,   *)
(* act between any two calls of the DLL.                                   *)
(***************************************************************************)
EXTENDS Naturals, Sequences, FiniteSets

CONSTANTS
    Devices,         \* hardware the package may drive
    HwidOf,          \* [Devices -> SUBSET Hwids]
    Versions,        \* versions of the package: contents of the .inf
    InfHwids,        \* [Versions -> Seq(Hwids)]: the order of the Models section
    ReleaseOf,       \* class, provider, catalog and build/100 of a version
    Shipped,         \* the versions some product ships
    Slots,           \* the numbers n of oem<n>.inf
    None,            \* no version, no slot, no driver
    HasDiUninstall,  \* newdev.dll exports DiUninstallDriverW
    Meddling         \* other tools work on the driver store meanwhile

ASSUME DeviceAssumption == Shipped \subseteq Versions /\ None \notin Versions \cup Slots
ASSUME InfAssumption == \A v \in Versions : InfHwids[v] \in Seq(UNION {HwidOf[d] : d \in Devices})
ASSUME SwitchAssumption == HasDiUninstall \in BOOLEAN /\ Meddling \in BOOLEAN

VARIABLES
    stage,      \* what Windows Installer is doing with the product
    product,    \* the version of the product that is or was being installed
    plugged,    \* hardware present in the guest
    nodes,      \* device nodes, those of absent hardware included
    bound,      \* the version each node's driver comes from
    store,      \* [Slots -> Versions \cup {None}]: the published packages
    key,        \* Components\<name>: the values oem and strongname
    pc,         \* the place in DevDriver::Install or UnInstall
    inf,        \* m_FullPath: the .inf that was opened
    oemName,    \* m_OemName
    strongName, \* m_StrongName
    ids,        \* m_HWID
    tried,      \* how many of them UpdateDriver has tried
    todo,       \* devices RemoveDevices has still to look at
    rebootNeeded, \* m_bRebootNeeded
    named       \* history: m_OemName was read from the key when the object was made

guest == <<plugged, nodes, bound>>
object == <<inf, oemName, strongName, ids, tried, todo, rebootNeeded, named>>
vars == <<stage, product, guest, store, key, pc, object>>

\* The .inf in the product's directory.
file == IF stage \in {"copied", "placed", "undone", "installed", "repaired", "restored"}
        THEN product ELSE None

NoKey == [oem |-> None, strong |-> None]

Published == {store[s] : s \in Slots} \ {None}
SlotsOf(v) == {s \in Slots : store[s] = v}

\* The packages a product ships, and those FindOemFile cannot tell from them.
Own(v) == \E w \in Shipped : ReleaseOf[v] = ReleaseOf[w]

\* The hardware IDs of a list, those a device has in common with it, and the
\* devices a version can drive.
Listed(list) == {list[k] : k \in DOMAIN list}
Common(d, list) == HwidOf[d] \cap Listed(list)
Drives(v, d) == Common(d, InfHwids[v]) # {}

\* What FindCommon says: ten (empty) names when either list is empty, so that
\* the device is then taken for one of the package's (lines 289-300).
Matches(d, list) == list = << >> \/ HwidOf[d] = {} \/ Common(d, list) # {}
MatchedTwice(d, list) == list = << >> \/ HwidOf[d] = {} \/ Cardinality(Common(d, list)) > 1

\* The store after v is published: a published package is not copied again, a
\* new one takes a free slot.
Publish(v) ==
    IF v \in Published THEN {store}
    ELSE {[store EXCEPT ![s] = v] : s \in SlotsOf(None)}

-------------------------------------------------------------------------------
\* The product is absent; other packages may be published and drive devices.
Init ==
    /\ stage = "absent"
    /\ product = None
    /\ plugged \in SUBSET Devices
    /\ nodes = plugged
    /\ store \in [Slots -> (Versions \ Shipped) \cup {None}]
    /\ \A s, t \in Slots : store[s] = store[t] => s = t \/ store[s] = None
    /\ bound \in [Devices -> Published \cup {None}]
    /\ \A d \in Devices : bound[d] # None => d \in nodes /\ Drives(bound[d], d)
    /\ key = NoKey
    /\ pc = "idle"
    /\ inf = None /\ oemName = None /\ strongName = None
    /\ ids = << >> /\ tried = 0
    /\ todo = {}
    /\ rebootNeeded = FALSE
    /\ named = FALSE

-------------------------------------------------------------------------------
(* DevDriver::Install *)

\* ObtainDevHWIDs: no IDs when the .inf cannot be opened; Init does not mind.
ReadIds(v) == {InfHwids[v], << >>}

\* The constructor, then Init(true), which needs the file (lines 45-56).
BeginInstall(after) ==
    /\ pc = "idle"
    /\ stage' = after
    /\ inf' = file
    /\ oemName' = None /\ strongName' = None /\ named' = FALSE
    /\ rebootNeeded' = FALSE /\ todo' = {} /\ tried' = 0
    /\ IF file = None
       THEN pc' = "idle" /\ ids' = << >>
       ELSE pc' = "update" /\ ids' \in ReadIds(file)
    /\ UNCHANGED <<product, guest, store, key>>

\* The present devices UpdateDriverForPlugAndPlayDevices finds for an ID.
Targets(h) == {d \in plugged \cap nodes : h \in HwidOf[d]}

\* UpdateDriver tries an ID, and stops at the first that succeeds.
TryHwid ==
    /\ pc = "update"
    /\ tried < Len(ids)
    /\ tried' = tried + 1
    /\ \/ /\ Targets(ids[tried + 1]) = {}   \* ERROR_NO_SUCH_DEVINST
          /\ UNCHANGED <<pc, store, bound, rebootNeeded>>
       \/ /\ Targets(ids[tried + 1]) # {}
          /\ store' \in Publish(inf)
          /\ bound' = [d \in Devices |-> IF d \in Targets(ids[tried + 1])
                                        THEN inf ELSE bound[d]]
          /\ rebootNeeded' \in BOOLEAN
          /\ pc' = "name"
       \/ /\ Targets(ids[tried + 1]) # {}     \* another error, logged
          /\ store' \in {store} \cup Publish(inf)
          /\ rebootNeeded' \in BOOLEAN
          /\ UNCHANGED <<pc, bound>>
    /\ UNCHANGED <<stage, product, plugged, nodes, key, inf, oemName, strongName,
                   ids, todo, named>>

\* No ID succeeded: ERROR_NO_SUCH_DEVINST, and InstallOEMInf is called.
CopyOemInf ==
    /\ pc = "update"
    /\ tried = Len(ids)
    /\ \/ /\ store' \in Publish(inf)
          /\ oemName' \in {s \in Slots : store'[s] = inf}
          /\ pc' = "name"
       \/ /\ pc' = "idle"                  \* SetupCopyOEMInf failed
          /\ UNCHANGED <<store, oemName>>
    /\ UNCHANGED <<stage, product, guest, key, inf, strongName, ids, tried, todo,
                   rebootNeeded, named>>

\* Mutant: any published package will do.
AnyRelease(v) == {s \in Slots : store[s] # None}

\* FindOemFile: the first oem*.inf of the same class, provider, catalog and build.
SameRelease(v) == {s \in Slots : store[s] # None /\ ReleaseOf[store[s]] = ReleaseOf[v]}

\* SetupGetInfDriverStoreLocation: the package published under a slot, if any.
Location(s) == IF s = None THEN {None} ELSE {store[s], None}

\* FindStrongName.  (Before it the code looks for absent devices to reinstall;
\* the list is always dropped, because Err is never NO_ERROR at line 1096.)
FindStrongName ==
    /\ pc = "name"
    /\ IF oemName # None THEN UNCHANGED oemName
                         ELSE oemName' \in SameRelease(inf) \cup {None}
    /\ strongName' \in Location(oemName')
    /\ pc' = "record"
    /\ UNCHANGED <<stage, product, guest, store, key, inf, ids, tried, todo,
                   rebootNeeded, named>>

\* Mutant: the two values are swapped.
SetComponentRegKeySwapped ==
    /\ pc = "record"
    /\ pc' = "idle"
    /\ key' \in [oem : {key.oem} \cup ({strongName} \ {None}),
               strong : {key.strong} \cup ({oemName} \ {None})]
    /\ UNCHANGED <<stage, product, guest, store, object>>

\* SetComponentRegKey: each value is written by itself.  The old one stays when the
\* name is empty, the write fails or the key cannot be opened.
SetComponentRegKey ==
    /\ pc = "record"
    /\ pc' = "idle"
    /\ key' \in [oem : {key.oem} \cup ({oemName} \ {None}),
               strong : {key.strong} \cup ({strongName} \ {None})]
    /\ UNCHANGED <<stage, product, guest, store, object>>

-------------------------------------------------------------------------------
(* DevDriver::UnInstall *)

\* Init(false) finds the file: nothing is known of the published package.
BeginUninstallFromFile(after) ==
    /\ pc = "idle"
    /\ file # None
    /\ stage' = after
    /\ inf' = file
    /\ oemName' = None /\ strongName' = None /\ named' = FALSE
    /\ rebootNeeded' = FALSE
    /\ ids' \in ReadIds(file) /\ tried' = 0
    /\ todo' = nodes
    /\ pc' = "remove"
    /\ UNCHANGED <<product, guest, store, key>>

\* Mutant: the key is read and kept.
BeginUninstallKeepingKey(after) ==
    /\ pc = "idle"
    /\ file = None
    /\ stage' = after
    /\ oemName' \in {key.oem, None}
    /\ inf' \in {None} \cup ({key.strong} \cap Published)
    /\ strongName' \in Location(oemName')
    /\ named' = (oemName' # None)
    /\ rebootNeeded' = FALSE
    /\ tried' = 0
    /\ IF inf' = None
       THEN pc' = "idle" /\ todo' = {} /\ ids' = << >>
       ELSE pc' = "remove" /\ todo' = nodes /\ ids' \in ReadIds(inf')
    /\ UNCHANGED <<product, guest, store, key>>

\* The file is gone: GetComponentRegKey takes the names from the key, as far as it
\* can read them, and deletes it (RegDeleteKey is taken to succeed).  Init fails
\* unless the .inf in the driver store is known and there (lines 40-45).
BeginUninstallFromKey(after) ==
    /\ pc = "idle"
    /\ file = None
    /\ stage' = after
    /\ \/ /\ key' = NoKey
          /\ oemName' \in {key.oem, None}
          /\ inf' \in {None} \cup ({key.strong} \cap Published)
       \/ UNCHANGED key /\ oemName' = None /\ inf' = None  \* it cannot be opened
    /\ strongName' \in Location(oemName')
    /\ named' = (oemName' # None)
    /\ rebootNeeded' = FALSE
    /\ tried' = 0
    /\ IF inf' = None
       THEN pc' = "idle" /\ todo' = {} /\ ids' = << >>
       ELSE pc' = "remove" /\ todo' = nodes /\ ids' \in ReadIds(inf')
    /\ UNCHANGED <<product, guest, store>>

\* RemoveDevices passes over a device: it has no hardware ID of the .inf, or its
\* properties cannot be read.
SkipDevice(d) ==
    /\ pc = "remove"
    /\ d \in todo
    /\ todo' = todo \ {d}
    /\ UNCHANGED <<stage, product, guest, store, key, pc, inf, oemName, strongName,
                   ids, tried, rebootNeeded, named>>

\* Mutant: the .inf of the driver replaces the name that was there.
RemoveNodeOverwriting(d) ==
    /\ d \in nodes /\ bound[d] # None
    /\ oemName' \in SlotsOf(bound[d])
    /\ \/ nodes' = nodes \ {d} /\ bound' = [bound EXCEPT ![d] = None]
       \/ UNCHANGED <<nodes, bound>>

\* The .inf of the device's driver is remembered if none was (line 949), and the
\* node is removed, or DIF_REMOVE fails.
RemoveNode(d) ==
    /\ d \in nodes /\ bound[d] # None
    /\ IF oemName # None THEN UNCHANGED oemName ELSE oemName' \in SlotsOf(bound[d])
    /\ \/ nodes' = nodes \ {d} /\ bound' = [bound EXCEPT ![d] = None]
       \/ UNCHANGED <<nodes, bound>>

\* RemoveDevices comes to a device of the package, and goes on.
RemoveDevice(d) ==
    /\ pc = "remove"
    /\ d \in todo
    /\ Matches(d, ids)
    /\ RemoveNode(d)
    /\ todo' = todo \ {d}
    /\ UNCHANGED <<stage, product, plugged, store, key, pc, inf, strongName, ids,
                   tried, rebootNeeded, named>>

\* It gives up: there is no driver to look up, or a call fails.  A call fails too
\* when a device that has just been removed is visited for a second common ID.
GiveUpRemoving(d) ==
    /\ pc = "remove"
    /\ d \in todo
    /\ Matches(d, ids)
    /\ \/ UNCHANGED <<nodes, bound, oemName>>
       \/ MatchedTwice(d, ids) /\ RemoveNode(d)
    /\ todo' = {}
    /\ pc' = "delete"
    /\ UNCHANGED <<stage, product, plugged, store, key, inf, strongName, ids, tried,
                   rebootNeeded, named>>

DevicesRemoved ==
    /\ pc = "remove"
    /\ todo = {}
    /\ pc' = "delete"
    /\ UNCHANGED <<stage, product, guest, store, key, object>>

\* Mutant: the package leaves the store only.
DeleteFromStoreOnly ==
    /\ pc = "delete"
    /\ HasDiUninstall
    /\ strongName \in Published
    /\ store' = [s \in Slots |-> IF store[s] = strongName THEN None ELSE store[s]]
    /\ rebootNeeded' \in BOOLEAN
    /\ pc' = "idle"
    /\ UNCHANGED <<stage, product, guest, key, inf, oemName, strongName, ids, tried,
                   todo, named>>

\* UnInstallOEMInf with DiUninstallDriver: the package leaves its devices too.
DeleteWithDevices ==
    /\ pc = "delete"
    /\ HasDiUninstall
    /\ strongName \in Published
    /\ store' = [s \in Slots |-> IF store[s] = strongName THEN None ELSE store[s]]
    /\ bound' = [d \in Devices |-> IF bound[d] = strongName THEN None ELSE bound[d]]
    /\ rebootNeeded' \in BOOLEAN
    /\ pc' = "idle"
    /\ UNCHANGED <<stage, product, plugged, nodes, key, inf, oemName, strongName, ids,
                   tried, todo, named>>

\* With SetupUninstallOEMInf: refused while a device node uses the package.
InUse(v) == \E d \in nodes : bound[d] = v
DeleteUnused ==
    /\ pc = "delete"
    /\ ~HasDiUninstall
    /\ oemName # None
    /\ store[oemName] # None
    /\ ~InUse(store[oemName])
    /\ store' = [store EXCEPT ![oemName] = None]
    /\ pc' = "idle"
    /\ UNCHANGED <<stage, product, guest, key, object>>

\* The call fails, for one because it has no name to work on.
DeleteFails ==
    /\ pc = "delete"
    /\ pc' = "idle"
    /\ UNCHANGED <<stage, product, guest, store, key, object>>

BeginUninstall(after) == BeginUninstallFromFile(after) \/ BeginUninstallFromKey(after)

-------------------------------------------------------------------------------
(* Windows Installer *)

\* A product is installed: its files are copied, the package is installed, the
\* transaction is committed; or rolled back, which uninstalls the package while
\* the file is still there, and then removes the file.
CopyFiles(v) ==
    /\ stage = "absent" /\ pc = "idle"
    /\ v \in Shipped
    /\ product' = v
    /\ stage' = "copied"
    /\ UNCHANGED <<guest, store, key, pc, object>>
InstallPackage == stage = "copied" /\ BeginInstall("placed")
CommitInstall ==
    /\ stage = "placed" /\ pc = "idle"
    /\ stage' = "installed"
    /\ UNCHANGED <<product, guest, store, key, pc, object>>
RollBackInstall == stage \in {"copied", "placed"} /\ BeginUninstall("undone")
UndoFiles ==
    /\ stage = "undone" /\ pc = "idle"
    /\ product' = None
    /\ stage' = "absent"
    /\ UNCHANGED <<guest, store, key, pc, object>>

\* It is repaired: the same, with the product in place before and after.
RepairPackage == stage = "installed" /\ BeginInstall("repaired")
RollBackRepair == stage = "repaired" /\ BeginUninstall("restored")
CommitRepair ==
    /\ stage \in {"repaired", "restored"} /\ pc = "idle"
    /\ stage' = "installed"
    /\ UNCHANGED <<product, guest, store, key, pc, object>>

\* It is removed: its files first, then the package; the rollback installs the
\* package, and then puts the files back.
RemoveFiles ==
    /\ stage = "installed" /\ pc = "idle"
    /\ stage' = "stripped"
    /\ UNCHANGED <<product, guest, store, key, pc, object>>
UninstallPackage == stage = "stripped" /\ BeginUninstall("removed")
CommitRemoval ==
    /\ stage = "removed" /\ pc = "idle"
    /\ product' = None
    /\ stage' = "absent"
    /\ UNCHANGED <<guest, store, key, pc, object>>
RollBackRemoval == stage \in {"stripped", "removed"} /\ BeginInstall("regained")
RestoreFiles ==
    /\ stage = "regained" /\ pc = "idle"
    /\ stage' = "installed"
    /\ UNCHANGED <<product, guest, store, key, pc, object>>

-------------------------------------------------------------------------------
(* Plug and Play, and other tools *)

Plug(d) ==
    /\ d \notin plugged
    /\ plugged' = plugged \cup {d}
    /\ nodes' = nodes \cup {d}
    /\ UNCHANGED <<stage, product, bound, store, key, pc, object>>
Unplug(d) ==
    /\ d \in plugged
    /\ plugged' = plugged \ {d}
    /\ UNCHANGED <<stage, product, nodes, bound, store, key, pc, object>>

\* A bus is enumerated, by itself or by ScanForHardwareChanges: a present device
\* gets a node, and a node without a driver gets a published one.
Enumerate(d) ==
    /\ d \in plugged \ nodes
    /\ nodes' = nodes \cup {d}
    /\ UNCHANGED <<stage, product, plugged, bound, store, key, pc, object>>
Bind(d, v) ==
    /\ d \in plugged \cap nodes
    /\ bound[d] = None
    /\ v \in Published
    /\ Drives(v, d)
    /\ bound' = [bound EXCEPT ![d] = v]
    /\ UNCHANGED <<stage, product, plugged, nodes, store, key, pc, object>>

\* Other tools publish packages of any vendor.  They delete none of the product's.
PublishOther(v) ==
    /\ Meddling
    /\ v \notin Published
    /\ store' \in Publish(v)
    /\ UNCHANGED <<stage, product, guest, key, pc, object>>
DeleteOther(s) ==
    /\ Meddling
    /\ store[s] # None
    /\ ~Own(store[s])
    /\ ~InUse(store[s])
    /\ store' = [store EXCEPT ![s] = None]
    /\ UNCHANGED <<stage, product, guest, key, pc, object>>

-------------------------------------------------------------------------------
InstallSteps == TryHwid \/ CopyOemInf \/ FindStrongName \/ SetComponentRegKey
UninstallSteps == \/ \E d \in Devices : SkipDevice(d) \/ RemoveDevice(d) \/ GiveUpRemoving(d)
                  \/ DevicesRemoved \/ DeleteWithDevices \/ DeleteUnused \/ DeleteFails
Installer == \/ \E v \in Versions : CopyFiles(v)
             \/ InstallPackage \/ CommitInstall \/ RollBackInstall \/ UndoFiles
             \/ RepairPackage \/ RollBackRepair \/ CommitRepair
             \/ RemoveFiles \/ UninstallPackage \/ CommitRemoval
             \/ RollBackRemoval \/ RestoreFiles
PlugAndPlay == \E d \in Devices : Plug(d) \/ Unplug(d) \/ Enumerate(d)
                                  \/ \E v \in Versions : Bind(d, v)
OtherTools == (\E v \in Versions : PublishOther(v)) \/ \E s \in Slots : DeleteOther(s)

Next == InstallSteps \/ UninstallSteps \/ Installer \/ PlugAndPlay \/ OtherTools

Spec == Init /\ [][Next]_vars
-------------------------------------------------------------------------------
(* Properties *)

Names(versions) == [oem : Slots \cup {None}, strong : versions \cup {None}]

\* Every variable keeps its type.
TypeOK ==
    /\ stage \in {"absent", "copied", "placed", "undone", "installed", "repaired",
                  "restored", "stripped", "removed", "regained"}
    /\ product \in Shipped \cup {None}
    /\ plugged \subseteq Devices /\ nodes \subseteq Devices
    /\ bound \in [Devices -> Versions \cup {None}]
    /\ store \in [Slots -> Versions \cup {None}]
    /\ key \in Names(Versions)
    /\ pc \in {"idle", "update", "name", "record", "remove", "delete"}
    /\ inf \in Versions \cup {None}
    /\ oemName \in Slots \cup {None} /\ strongName \in Versions \cup {None}
    /\ ids \in {InfHwids[v] : v \in Versions} \cup {<< >>}
    /\ tried \in 0..Len(ids)
    /\ todo \subseteq Devices
    /\ rebootNeeded \in BOOLEAN /\ named \in BOOLEAN

\* A device node never refers to a package that is not published: a package
\* leaves the store with its devices (DiUninstallDriver) or when no node, present
\* or not, uses it (SetupUninstallOEMInf without SUOI_FORCEDELETE, line 1200).
NoDanglingDriver ==
    \A d \in Devices : bound[d] # None => d \in nodes /\ bound[d] \in Published

\* The key names packages of the product only, over any sequence of installations,
\* repairs, removals and rollbacks, although the OEM name is guessed from the
\* store, values are written one by one and left in place when they cannot be, and
\* slots are used again, by the product and by others.
KeyNamesOwn ==
    /\ key.strong # None => Own(key.strong)
    /\ key.oem # None => store[key.oem] = None \/ Own(store[key.oem])

\* What the key names is there to be uninstalled: nothing deletes the package and
\* leaves the key.  (With DiUninstallDriver: see the README for the other case.)
KeyResolves ==
    /\ key.oem # None => store[key.oem] # None
    /\ key.strong # None => key.strong \in Published

\* A package that the removal of the product deletes is the product's, never one of
\* another vendor that drives the same devices (lines 1193-1215), whatever was
\* written to the key and read from it.  SetupUninstallOEMInf alone needs the OEM
\* name from the key for that: without it, line 949 takes the name of any driver.
RemovalDeletesOwn ==
    [][stage = "removed" /\ pc = "delete" /\ pc' # pc /\ (HasDiUninstall \/ named) =>
           \A s \in Slots : store[s] # None /\ store'[s] = None => Own(store[s])]_vars

\* "Rolling back installing Windows Virtio-Win Drivers." (driverInstall.wxs, line
\* 54): once RollbackInstall has run, the package the installation published is
\* gone.
RollbackUninstalls ==
    stage = "undone" /\ pc = "idle" => \A v \in Shipped : v \notin Published

\* "Rolling back uninstalling Windows Virtio-Win Drivers." (driverInstall.wxs, line
\* 55): when a removal that has taken the driver from its devices is rolled back,
\* RollbackUninstall sets about installing the package again.
RollbackReinstalls ==
    [][stage = "removed" /\ stage' = "regained" => pc' = "update"]_vars
-------------------------------------------------------------------------------
(* The inductive invariant of the proofs *)

Installing == pc \in {"update", "name", "record"}
Uninstalling == pc \in {"remove", "delete"}

\* A slot that holds nothing of another vendor.
OwnSlot(s) == store[s] = None \/ Own(store[s])

\* The object of an installation was made for a product's file, and starts without
\* names.
ObjectInv ==
    /\ Installing => inf \in Shipped
    /\ pc = "update" => oemName = None

\* The names are the product's own: in the key, on their way into it, and on their
\* way from it.
OwnInv ==
    /\ KeyNamesOwn
    /\ Installing => (oemName # None => OwnSlot(oemName))
    /\ pc \in {"record", "remove", "delete"} => (strongName # None => Own(strongName))
    /\ ~HasDiUninstall /\ Uninstalling /\ named => oemName # None /\ OwnSlot(oemName)

\* The names exist in the store, and the key is empty while what it named is
\* being deleted.
ResolveInv ==
    /\ KeyResolves
    /\ Installing => (oemName # None => store[oemName] # None)
    /\ pc = "record" => (strongName # None => strongName \in Published)
    /\ Uninstalling => (strongName # None => key = NoKey)

IInv == /\ TypeOK
        /\ NoDanglingDriver
        /\ ObjectInv
        /\ ~Meddling \/ HasDiUninstall => OwnInv
        /\ HasDiUninstall => ResolveInv
===============================================================================
