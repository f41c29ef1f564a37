-------------------------- MODULE DriverPackageProofs --------------------------
(***************************************************************************)
(* The safety properties of DriverPackage, for every set of devices,       *)
(* hardware IDs, versions of the package and slots of the driver store.    *)
(***************************************************************************)
EXTENDS DriverPackage, TLAPS

-------------------------------------------------------------------------------
(* Lemmas about the store, the names and the lists of IDs *)

IdLists == {InfHwids[v] : v \in Versions} \cup {<< >>}

\* A list of hardware IDs has a length, whether or not the .inf was read.
LEMMA IdListFacts ==
    ASSUME NEW list \in IdLists
    PROVE  Len(list) \in Nat
<1>1. CASE list = << >>
    BY <1>1
<1>2. CASE list # << >>
    <2> DEFINE Hwids == UNION {HwidOf[d] : d \in Devices}
    <2>1. list \in Seq(Hwids)
        BY <1>2, InfAssumption DEF IdLists
    <2> HIDE DEF Hwids
    <2> QED BY <2>1
<1> QED BY <1>1, <1>2

\* Reading the IDs of a version, or failing to, gives such a list.
LEMMA ReadIdsFacts ==
    ASSUME NEW v \in Versions
    PROVE  ReadIds(v) \subseteq IdLists
BY DEF ReadIds, IdLists

\* The product's file is one that some product ships.
LEMMA FileFacts ==
    ASSUME TypeOK, file # None
    PROVE  file \in Shipped /\ file \in Versions /\ file = product
BY DeviceAssumption DEF TypeOK, file

\* Publishing a version keeps what is published and, if it is a version, adds it;
\* a slot changes only from free to that version.
LEMMA PublishFacts ==
    ASSUME TypeOK, NEW v \in Versions, NEW st \in Publish(v)
    PROVE  /\ st \in [Slots -> Versions \cup {None}]
           /\ \A s \in Slots : store[s] # None => st[s] = store[s]
           /\ \A s \in Slots : st[s] \in {store[s], v}
           /\ \E s \in Slots : st[s] = v
BY DeviceAssumption DEF TypeOK, Publish, Published, SlotsOf

-------------------------------------------------------------------------------
(* Types *)

\* All types hold before the first product is installed.
LEMMA TypeInit == Init => TypeOK
<1> SUFFICES ASSUME Init PROVE TypeOK
    OBVIOUS
<1>1. bound \in [Devices -> Versions \cup {None}]
    BY DeviceAssumption DEF Init, Published
<1>2. ids = << >> /\ tried = 0 /\ tried \in 0..Len(ids)
    BY DEF Init
<1> QED BY <1>1, <1>2 DEF Init, TypeOK, NoKey, Names

\* The steps of DevDriver::Install keep the types.
LEMMA TypeInstall ==
    ASSUME TypeOK, ObjectInv, InstallSteps
    PROVE  TypeOK'
<1>1. CASE TryHwid
    <2>1. inf \in Versions
        BY <1>1, DeviceAssumption DEF ObjectInv, Installing, TryHwid
    <2>2. store' \in [Slots -> Versions \cup {None}]
        BY <1>1, <2>1, PublishFacts DEF TryHwid, TypeOK
    <2>3. tried' \in 0..Len(ids)
        BY <1>1, IdListFacts DEF TryHwid, TypeOK, IdLists
    <2>4. bound' \in [Devices -> Versions \cup {None}]
        BY <1>1, <2>1 DEF TryHwid, TypeOK
    <2> QED BY <1>1, <2>2, <2>3, <2>4 DEF TryHwid, TypeOK
<1>2. CASE CopyOemInf
    <2>1. inf \in Versions
        BY <1>2, DeviceAssumption DEF ObjectInv, Installing, CopyOemInf
    <2>2. store' \in [Slots -> Versions \cup {None}]
        BY <1>2, <2>1, PublishFacts DEF CopyOemInf, TypeOK
    <2> QED BY <1>2, <2>2 DEF CopyOemInf, TypeOK, guest
<1>3. CASE FindStrongName
    <2>1. oemName' \in Slots \cup {None}
        BY <1>3 DEF FindStrongName, TypeOK, SameRelease
    <2>2. strongName' \in Versions \cup {None}
        BY <1>3, <2>1 DEF FindStrongName, TypeOK, Location
    <2> QED BY <1>3, <2>1, <2>2 DEF FindStrongName, TypeOK, guest
<1>4. CASE SetComponentRegKey
    <2>1. key' \in Names(Versions)
        BY <1>4 DEF SetComponentRegKey, TypeOK, Names
    <2> QED BY <1>4, <2>1 DEF SetComponentRegKey, TypeOK, guest, object
<1> QED BY <1>1, <1>2, <1>3, <1>4 DEF InstallSteps

\* The steps of DevDriver::UnInstall keep the types.
LEMMA TypeUninstall ==
    ASSUME TypeOK, UninstallSteps
    PROVE  TypeOK'
<1>1. ASSUME NEW d \in Devices, SkipDevice(d) PROVE TypeOK'
    BY <1>1 DEF SkipDevice, TypeOK, guest
<1>2. ASSUME NEW d \in Devices, RemoveDevice(d) PROVE TypeOK'
    BY <1>2 DEF RemoveDevice, RemoveNode, TypeOK, SlotsOf
<1>3. ASSUME NEW d \in Devices, GiveUpRemoving(d) PROVE TypeOK'
    BY <1>3 DEF GiveUpRemoving, RemoveNode, TypeOK, SlotsOf
<1>4. CASE DevicesRemoved
    BY <1>4 DEF DevicesRemoved, TypeOK, guest, object
<1>5. CASE DeleteWithDevices
    BY <1>5 DEF DeleteWithDevices, TypeOK
<1>6. CASE DeleteUnused
    BY <1>6 DEF DeleteUnused, TypeOK, guest, object
<1>7. CASE DeleteFails
    BY <1>7 DEF DeleteFails, TypeOK, guest, object
<1> QED BY <1>1, <1>2, <1>3, <1>4, <1>5, <1>6, <1>7 DEF UninstallSteps

Stages == {"absent", "copied", "placed", "undone", "installed", "repaired",
           "restored", "stripped", "removed", "regained"}

\* The constructor and Init keep the types, whatever the installer calls them for.
LEMMA TypeBegin ==
    ASSUME TypeOK, NEW after \in Stages, BeginInstall(after) \/ BeginUninstall(after)
    PROVE  TypeOK'
<1> USE DEF Stages, IdLists
<1>0. << >> \in IdLists /\ \A list \in IdLists : 0 \in 0..Len(list)
    BY IdListFacts
<1>1. CASE BeginInstall(after)
    <2>1. ids' \in IdLists /\ inf' \in Versions \cup {None}
        BY <1>1, FileFacts, ReadIdsFacts DEF BeginInstall
    <2>2. tried' = 0
        BY <1>1 DEF BeginInstall
    <2> QED BY <1>0, <1>1, <2>1, <2>2 DEF BeginInstall, TypeOK, guest
<1>2. CASE BeginUninstallFromFile(after)
    <2>1. ids' \in IdLists /\ inf' \in Versions
        BY <1>2, FileFacts, ReadIdsFacts DEF BeginUninstallFromFile
    <2> QED BY <1>0, <1>2, <2>1 DEF BeginUninstallFromFile, TypeOK, guest
<1>3. CASE BeginUninstallFromKey(after)
    <2>1. inf' \in Versions \cup {None} /\ oemName' \in Slots \cup {None}
        BY <1>3 DEF BeginUninstallFromKey, TypeOK, Names
    <2>2. ids' \in IdLists
        BY <1>3, <2>1, ReadIdsFacts DEF BeginUninstallFromKey
    <2>3. strongName' \in Versions \cup {None}
        BY <1>3, <2>1 DEF BeginUninstallFromKey, TypeOK, Location
    <2>4. todo' \subseteq Devices
        BY <1>3 DEF BeginUninstallFromKey, TypeOK
    <2>5. pc' \in {"idle", "remove"}
        BY <1>3 DEF BeginUninstallFromKey
    <2>6. key' \in Names(Versions)
        BY <1>3 DEF BeginUninstallFromKey, TypeOK, NoKey, Names
    <2>7. named' \in BOOLEAN
        BY <1>3 DEF BeginUninstallFromKey
    <2> QED BY <1>0, <1>3, <2>1, <2>2, <2>3, <2>4, <2>5, <2>6, <2>7
            DEF BeginUninstallFromKey, TypeOK, guest
<1> QED BY <1>1, <1>2, <1>3 DEF BeginUninstall

\* The installer's own steps and Plug and Play keep the types.
LEMMA TypeOutside ==
    ASSUME TypeOK, Installer \/ PlugAndPlay \/ OtherTools
    PROVE  TypeOK'
<1> USE DEF TypeOK, guest, object
<1>1. CASE \E v \in Versions : CopyFiles(v)
    BY <1>1 DEF CopyFiles
<1>2. CASE InstallPackage \/ RepairPackage \/ RollBackRemoval
    BY <1>2, TypeBegin DEF InstallPackage, RepairPackage, RollBackRemoval, Stages
<1>3. CASE RollBackInstall \/ RollBackRepair \/ UninstallPackage
    BY <1>3, TypeBegin DEF RollBackInstall, RollBackRepair, UninstallPackage, Stages
<1>4. CASE CommitInstall \/ UndoFiles \/ CommitRepair \/ RemoveFiles
           \/ CommitRemoval \/ RestoreFiles
    BY <1>4 DEF CommitInstall, UndoFiles, CommitRepair, RemoveFiles, CommitRemoval,
                RestoreFiles
<1>5. CASE PlugAndPlay
    <2>1. PICK d \in Devices : Plug(d) \/ Unplug(d) \/ Enumerate(d)
                               \/ \E v \in Versions : Bind(d, v)
        BY <1>5 DEF PlugAndPlay
    <2> QED BY <2>1 DEF Plug, Unplug, Enumerate, Bind
<1>6. ASSUME NEW v \in Versions, PublishOther(v) PROVE TypeOK'
    <2>1. store' \in [Slots -> Versions \cup {None}]
        BY <1>6, PublishFacts DEF PublishOther
    <2> QED BY <1>6, <2>1 DEF PublishOther
<1>7. ASSUME NEW s \in Slots, DeleteOther(s) PROVE TypeOK'
    BY <1>7 DEF DeleteOther
<1> QED BY <1>1, <1>2, <1>3, <1>4, <1>5, <1>6, <1>7 DEF Installer, OtherTools

\* Every step keeps the types.
LEMMA TypeStep ==
    ASSUME TypeOK, ObjectInv, [Next]_vars
    PROVE  TypeOK'
<1>1. CASE UNCHANGED vars
    BY <1>1 DEF TypeOK, vars, guest, object
<1> QED BY <1>1, TypeInstall, TypeUninstall, TypeOutside DEF Next

-------------------------------------------------------------------------------
(* The steps that leave things alone *)

\* Only these steps change the driver store, the device nodes or their drivers.
LEMMA StoreFrame ==
    ASSUME [Next]_vars
    PROVE  \/ TryHwid \/ CopyOemInf
           \/ \E d \in Devices : RemoveDevice(d) \/ GiveUpRemoving(d)
           \/ DeleteWithDevices \/ DeleteUnused
           \/ \E d \in Devices : Plug(d) \/ Enumerate(d) \/ \E v \in Versions : Bind(d, v)
           \/ OtherTools
           \/ UNCHANGED <<nodes, bound, store>>
<1> USE DEF guest, object
<1>1. CASE InstallSteps
    BY <1>1 DEF InstallSteps, FindStrongName, SetComponentRegKey
<1>2. CASE UninstallSteps
    BY <1>2 DEF UninstallSteps, SkipDevice, DevicesRemoved, DeleteFails
<1>3. CASE Installer
    <2>1. ASSUME NEW after, BeginInstall(after) \/ BeginUninstall(after)
          PROVE  UNCHANGED <<nodes, bound, store>>
        BY <2>1 DEF BeginInstall, BeginUninstall, BeginUninstallFromFile,
                    BeginUninstallFromKey
    <2> QED BY <1>3, <2>1
            DEF Installer, CopyFiles, InstallPackage, CommitInstall, RollBackInstall,
                UndoFiles, RepairPackage, RollBackRepair, CommitRepair, RemoveFiles,
                UninstallPackage, CommitRemoval, RollBackRemoval, RestoreFiles
<1>4. CASE PlugAndPlay
    BY <1>4 DEF PlugAndPlay, Unplug
<1>5. CASE UNCHANGED vars
    BY <1>5 DEF vars
<1> QED BY <1>1, <1>2, <1>3, <1>4, <1>5 DEF Next

\* The calls and the key change only in the DLL and when the installer calls it.
LEMMA CallFrame ==
    ASSUME [Next]_vars
    PROVE  \/ InstallSteps \/ UninstallSteps
           \/ \E after \in Stages : BeginInstall(after)
           \/ \E after \in Stages \ {"removed"} : BeginUninstallFromFile(after)
           \/ \E after \in Stages : BeginUninstallFromKey(after)
           \/ /\ UNCHANGED <<key, pc, object>>
              /\ stage' = stage \/ pc = "idle"
<1> USE DEF Stages
<1>1. CASE Installer
    <2>1. CASE InstallPackage \/ RepairPackage \/ RollBackRemoval
        BY <2>1 DEF InstallPackage, RepairPackage, RollBackRemoval
    <2>2. CASE RollBackInstall \/ RollBackRepair \/ UninstallPackage
        <3>1. stage = "stripped" => ~BeginUninstallFromFile("removed")
            BY DEF BeginUninstallFromFile, file
        <3> QED BY <2>2, <3>1
                DEF RollBackInstall, RollBackRepair, UninstallPackage, BeginUninstall
    <2>3. CASE \E v \in Versions : CopyFiles(v)
        BY <2>3 DEF CopyFiles
    <2>4. CASE CommitInstall \/ UndoFiles \/ CommitRepair \/ RemoveFiles
               \/ CommitRemoval \/ RestoreFiles
        BY <2>4 DEF CommitInstall, UndoFiles, CommitRepair, RemoveFiles,
                    CommitRemoval, RestoreFiles
    <2> QED BY <1>1, <2>1, <2>2, <2>3, <2>4 DEF Installer
<1>2. CASE PlugAndPlay
    BY <1>2 DEF PlugAndPlay, Plug, Unplug, Enumerate, Bind
<1>3. CASE OtherTools
    BY <1>3 DEF OtherTools, PublishOther, DeleteOther
<1>4. CASE UNCHANGED vars
    BY <1>4 DEF vars
<1> QED BY <1>1, <1>2, <1>3, <1>4 DEF Next

-------------------------------------------------------------------------------
(* No device node keeps a driver that is gone *)

\* The nodes of the guest start with published drivers.
LEMMA DanglingInit == Init => NoDanglingDriver
BY DeviceAssumption DEF Init, NoDanglingDriver, Published

\* A package leaves the store only with its devices, or when no node uses it.
LEMMA DanglingStep ==
    ASSUME TypeOK, ObjectInv, NoDanglingDriver, [Next]_vars
    PROVE  NoDanglingDriver'
<1> USE DEF NoDanglingDriver
<1>a. ASSUME NEW v \in Versions, store' \in Publish(v)
      PROVE  Published \subseteq Published' /\ v \in Published'
    <2>1. \A s \in Slots : store[s] # None => store'[s] = store[s]
        BY <1>a, PublishFacts
    <2>2. \E s \in Slots : store'[s] = v
        BY <1>a, PublishFacts
    <2> QED BY <2>1, <2>2, DeviceAssumption DEF Published
<1>1. CASE TryHwid
    <2>1. inf \in Versions
        BY <1>1, DeviceAssumption DEF ObjectInv, Installing, TryHwid
    <2>2. store' = store => Published' = Published
        BY DEF Published
    <2>3. Published \subseteq Published'
        BY <1>1, <1>a, <2>1, <2>2 DEF TryHwid
    <2>4. bound' # bound => /\ store' \in Publish(inf)
                            /\ bound' = [d \in Devices |->
                                            IF d \in Targets(ids[tried + 1])
                                            THEN inf ELSE bound[d]]
        BY <1>1 DEF TryHwid
    <2>5. \A h : Targets(h) \subseteq nodes
        BY DEF Targets
    <2>6. nodes' = nodes
        BY <1>1 DEF TryHwid
    <2> QED BY <1>a, <2>1, <2>3, <2>4, <2>5, <2>6
<1>2. CASE CopyOemInf
    <2>1. inf \in Versions
        BY <1>2, DeviceAssumption DEF ObjectInv, Installing, CopyOemInf
    <2>2. Published \subseteq Published'
        BY <1>2, <1>a, <2>1 DEF CopyOemInf, Published
    <2> QED BY <1>2, <2>2 DEF CopyOemInf, guest
<1>3. ASSUME NEW d \in Devices, RemoveDevice(d) \/ GiveUpRemoving(d)
      PROVE  NoDanglingDriver'
    <2>1. store' = store /\ Published' = Published
        BY <1>3 DEF RemoveDevice, GiveUpRemoving, Published
    <2>2. \/ UNCHANGED <<nodes, bound>>
          \/ nodes' = nodes \ {d} /\ bound' = [bound EXCEPT ![d] = None]
        BY <1>3 DEF RemoveDevice, GiveUpRemoving, RemoveNode
    <2> QED BY <2>1, <2>2 DEF TypeOK
<1>4. CASE DeleteWithDevices
    <2>1. \A s \in Slots : store'[s] = IF store[s] = strongName THEN None ELSE store[s]
        BY <1>4 DEF DeleteWithDevices
    <2>2. \A d \in Devices : bound'[d] = IF bound[d] = strongName THEN None ELSE bound[d]
        BY <1>4 DEF DeleteWithDevices
    <2>3. nodes' = nodes
        BY <1>4 DEF DeleteWithDevices
    <2> QED BY <2>1, <2>2, <2>3 DEF Published
<1>5. CASE DeleteUnused
    <2>1. /\ nodes' = nodes /\ bound' = bound /\ oemName \in Slots
          /\ \A d \in nodes : bound[d] # store[oemName]
          /\ store' = [store EXCEPT ![oemName] = None]
        BY <1>5 DEF DeleteUnused, guest, InUse, TypeOK
    <2> QED BY <2>1 DEF Published, TypeOK
<1>6. ASSUME NEW d \in Devices,
             Plug(d) \/ Enumerate(d) \/ \E v \in Versions : Bind(d, v)
      PROVE  NoDanglingDriver'
    <2>1. store' = store /\ Published' = Published
        BY <1>6 DEF Plug, Enumerate, Bind, Published
    <2>2. CASE Plug(d) \/ Enumerate(d)
        BY <2>1, <2>2 DEF Plug, Enumerate
    <2>3. CASE \E v \in Versions : Bind(d, v)
        BY <2>1, <2>3 DEF Bind, TypeOK
    <2> QED BY <1>6, <2>2, <2>3
<1>7. CASE OtherTools
    <2>1. ASSUME NEW v \in Versions, PublishOther(v) PROVE NoDanglingDriver'
        BY <1>a, <2>1 DEF PublishOther, guest
    <2>2. ASSUME NEW s \in Slots, DeleteOther(s) PROVE NoDanglingDriver'
        <3>1. /\ nodes' = nodes /\ bound' = bound
              /\ \A d \in nodes : bound[d] # store[s]
              /\ store' = [store EXCEPT ![s] = None]
            BY <2>2 DEF DeleteOther, guest, InUse
        <3> QED BY <3>1 DEF Published, TypeOK
    <2> QED BY <1>7, <2>1, <2>2 DEF OtherTools
<1>8. CASE UNCHANGED <<nodes, bound, store>>
    BY <1>8 DEF Published
<1> QED BY <1>1, <1>2, <1>3, <1>4, <1>5, <1>6, <1>7, <1>8, StoreFrame

-------------------------------------------------------------------------------
(* The object of an installation *)

\* There are no names before the first installation.
LEMMA ObjectInit == Init => ObjectInv
BY DEF Init, ObjectInv, Installing

\* An installation works on a product's file, and UpdateDriver finds no names.
LEMMA ObjectStep ==
    ASSUME TypeOK, ObjectInv, [Next]_vars
    PROVE  ObjectInv'
<1> USE DEF ObjectInv, Installing
<1>1. CASE InstallSteps
    BY <1>1, DeviceAssumption
       DEF InstallSteps, TryHwid, CopyOemInf, FindStrongName, SetComponentRegKey, object
<1>2. CASE UninstallSteps
    BY <1>2 DEF UninstallSteps, SkipDevice, RemoveDevice, GiveUpRemoving,
                DevicesRemoved, DeleteWithDevices, DeleteUnused, DeleteFails
<1>3. ASSUME NEW after \in Stages, BeginInstall(after) PROVE ObjectInv'
    BY <1>3, FileFacts DEF BeginInstall
<1>4. ASSUME NEW after \in Stages,
             BeginUninstallFromFile(after) \/ BeginUninstallFromKey(after)
      PROVE  ObjectInv'
    BY <1>4 DEF BeginUninstallFromFile, BeginUninstallFromKey
<1>5. CASE UNCHANGED <<pc, object>>
    BY <1>5 DEF object
<1> QED BY <1>1, <1>2, <1>3, <1>4, <1>5, CallFrame

-------------------------------------------------------------------------------
(* The key names packages of the product only *)

\* A slot changes in five ways: the product's package is published there,
\* DiUninstallDriver deletes the named package, SetupUninstallOEMInf the named slot,
\* or another tool takes a free slot or deletes another vendor's package.
LEMMA SlotChange ==
    ASSUME TypeOK, ObjectInv, [Next]_vars, NEW s \in Slots
    PROVE  \/ store'[s] = store[s]
           \/ store[s] = None /\ store'[s] = inf /\ inf \in Shipped
           \/ DeleteWithDevices /\ store[s] = strongName /\ store'[s] = None
           \/ DeleteUnused /\ s = oemName /\ store'[s] = None
           \/ OtherTools /\ Meddling /\ store[s] = None
           \/ OtherTools /\ Meddling /\ ~Own(store[s]) /\ store'[s] = None
<1>1. CASE TryHwid \/ CopyOemInf
    <2>1. inf \in Shipped /\ inf \in Versions
        BY <1>1, DeviceAssumption DEF ObjectInv, Installing, TryHwid, CopyOemInf
    <2>2. store' = store \/ store' \in Publish(inf)
        BY <1>1 DEF TryHwid, CopyOemInf
    <2>3. CASE store' \in Publish(inf)
        BY <2>1, <2>3, PublishFacts
    <2> QED BY <2>2, <2>3
<1>2. CASE \E d \in Devices : RemoveDevice(d) \/ GiveUpRemoving(d)
    BY <1>2 DEF RemoveDevice, GiveUpRemoving
<1>3. CASE DeleteWithDevices
    BY <1>3 DEF DeleteWithDevices
<1>4. CASE DeleteUnused
    BY <1>4 DEF DeleteUnused, TypeOK
<1>5. CASE \E d \in Devices : Plug(d) \/ Enumerate(d) \/ \E v \in Versions : Bind(d, v)
    BY <1>5 DEF Plug, Enumerate, Bind
<1>6. ASSUME NEW v \in Versions, PublishOther(v), OtherTools
      PROVE  \/ store'[s] = store[s]
             \/ OtherTools /\ Meddling /\ store[s] = None
    <2>1. store' \in Publish(v) /\ Meddling
        BY <1>6 DEF PublishOther
    <2>2. store[s] # None => store'[s] = store[s]
        BY <2>1, PublishFacts
    <2> QED BY <1>6, <2>1, <2>2
<1>7. ASSUME NEW t \in Slots, DeleteOther(t), OtherTools
      PROVE  \/ store'[s] = store[s]
             \/ OtherTools /\ Meddling /\ ~Own(store[s]) /\ store'[s] = None
    BY <1>7 DEF DeleteOther, TypeOK
<1>8. CASE OtherTools
    BY <1>6, <1>7, <1>8 DEF OtherTools
<1> QED BY <1>1, <1>2, <1>3, <1>4, <1>5, <1>8, StoreFrame

\* A slot nobody else can take: there are no other tools, or it is not free.
Firm(s) == ~Meddling \/ store[s] # None

\* So such a slot, if it holds nothing of another vendor, never comes to.
LEMMA OwnSlotKept ==
    ASSUME TypeOK, ObjectInv, [Next]_vars, NEW s \in Slots, OwnSlot(s), Firm(s)
    PROVE  OwnSlot(s)'
<1>1. inf \in Shipped => Own(inf)
    BY DEF Own
<1>2. OwnSlot(s)' <=> (store'[s] = None \/ Own(store'[s]))
    BY DEF OwnSlot, Own
<1> QED BY <1>1, <1>2, SlotChange DEF OwnSlot, Firm

\* Neither the key nor the object names anything at first.
LEMMA OwnInit == Init => OwnInv
BY DEF Init, OwnInv, KeyNamesOwn, NoKey, Installing, Uninstalling

\* Other tools cannot get at a slot the names refer to: with DiUninstallDriver,
\* because it is never free.
Steady == ~Meddling \/ (HasDiUninstall /\ ResolveInv)

\* What an installation finds is its own package; so it may write either name to
\* the key without the other, and a removal start from what it can read there.
LEMMA OwnStep ==
    ASSUME TypeOK, ObjectInv, OwnInv, Steady, ~Meddling \/ HasDiUninstall, [Next]_vars
    PROVE  OwnInv'
<1> USE DEF Installing, Uninstalling
<1>a. \A s \in Slots : OwnSlot(s) /\ Firm(s) => OwnSlot(s)'
    BY OwnSlotKept
<1>b. key.oem \in Slots \cup {None} /\ oemName \in Slots \cup {None}
    BY DEF TypeOK, Names
<1>c. /\ key.strong # None => Own(key.strong)
      /\ key.oem # None => OwnSlot(key.oem) /\ Firm(key.oem)
    BY DEF OwnInv, KeyNamesOwn, OwnSlot, Steady, Firm, ResolveInv, KeyResolves
<1>d. ASSUME /\ key'.strong # None => Own(key'.strong)
             /\ key'.oem # None => OwnSlot(key.oem)'
      PROVE  KeyNamesOwn'
    BY <1>d DEF KeyNamesOwn, OwnSlot, Own
<1>e. key' = key => KeyNamesOwn'
    BY <1>a, <1>b, <1>c, <1>d
<1>f. Installing /\ oemName # None => OwnSlot(oemName) /\ Firm(oemName)
    BY DEF OwnInv, Steady, Firm, ResolveInv
<1>g. ~HasDiUninstall => \A s \in Slots : Firm(s)
    BY DEF Firm
<1> DEFINE NamesOwn ==
        /\ Installing => (oemName # None => OwnSlot(oemName))
        /\ pc \in {"record", "remove", "delete"} => (strongName # None => Own(strongName))
        /\ ~HasDiUninstall /\ Uninstalling /\ named => oemName # None /\ OwnSlot(oemName)
<1>i. KeyNamesOwn' /\ NamesOwn' => OwnInv'
    BY DEF OwnInv
<1>j. NamesOwn
    BY DEF OwnInv
<1>1. CASE TryHwid
    <2>1. oemName' = None /\ key' = key /\ pc' \in {"update", "name"}
        BY <1>1 DEF TryHwid, ObjectInv
    <2> QED BY <1>e, <1>i, <2>1
<1>2. CASE CopyOemInf
    <2>1. oemName' # oemName => /\ oemName' \in Slots /\ store'[oemName'] = inf
                               /\ inf \in Shipped
        BY <1>2 DEF CopyOemInf, ObjectInv
    <2>2. oemName' # None => OwnSlot(oemName)'
        BY <1>2, <2>1 DEF OwnSlot, Own, CopyOemInf, ObjectInv
    <2>3. key' = key /\ pc' \in {"name", "idle"}
        BY <1>2 DEF CopyOemInf
    <2> QED BY <1>e, <1>i, <2>2, <2>3
<1>3. CASE FindStrongName
    <2>1. oemName' \in Slots \cup {None} /\ store' = store /\ inf \in Shipped
        BY <1>3, <1>b DEF FindStrongName, SameRelease, ObjectInv
    <2>2. oemName' # None => OwnSlot(oemName')
        BY <1>3, <2>1 DEF FindStrongName, SameRelease, OwnSlot, Own, OwnInv
    <2>3. strongName' # None => Own(strongName')
        BY <1>3, <2>2 DEF FindStrongName, Location, OwnSlot
    <2>4. oemName' # None => OwnSlot(oemName)'
        BY <2>1, <2>2 DEF OwnSlot, Own
    <2>5. key' = key /\ pc' = "record" /\ (strongName' # None => Own(strongName)')
        BY <1>3, <2>3 DEF FindStrongName, Own
    <2> QED BY <1>e, <1>i, <2>4, <2>5
<1>4. CASE SetComponentRegKey
    <2>1. /\ oemName # None => OwnSlot(oemName) /\ Firm(oemName)
          /\ strongName # None => Own(strongName)
        BY <1>4, <1>f DEF SetComponentRegKey, OwnInv
    <2>2. /\ key'.oem = key.oem \/ key'.oem = oemName
          /\ key'.strong = key.strong \/ key'.strong = strongName
        BY <1>4 DEF SetComponentRegKey
    <2>3. key'.oem # None => OwnSlot(key.oem)'
        BY <1>a, <1>b, <1>c, <2>1, <2>2 DEF OwnSlot, Own
    <2>4. KeyNamesOwn'
        BY <1>c, <1>d, <2>1, <2>2, <2>3
    <2>5. pc' = "idle"
        BY <1>4 DEF SetComponentRegKey
    <2> QED BY <1>i, <2>4, <2>5
<1>5. CASE UninstallSteps
    <2>1. key' = key
        BY <1>5 DEF UninstallSteps, SkipDevice, RemoveDevice, GiveUpRemoving,
                    DevicesRemoved, DeleteWithDevices, DeleteUnused, DeleteFails
    <2>2. pc \in {"remove", "delete"} /\ pc' \in {"remove", "delete", "idle"}
        BY <1>5 DEF UninstallSteps, SkipDevice, RemoveDevice, GiveUpRemoving,
                    DevicesRemoved, DeleteWithDevices, DeleteUnused, DeleteFails
    <2>3. /\ strongName' = strongName /\ named' = named
          /\ oemName # None => oemName' = oemName
        BY <1>5 DEF UninstallSteps, SkipDevice, RemoveDevice, GiveUpRemoving, RemoveNode,
                    DevicesRemoved, DeleteWithDevices, DeleteUnused, DeleteFails,
                    object
    <2>4. strongName' # None => Own(strongName)'
        BY <1>j, <2>2, <2>3 DEF Own
    <2>5. ~HasDiUninstall /\ named' => oemName' # None /\ OwnSlot(oemName)'
        BY <1>a, <1>b, <1>g, <1>j, <2>2, <2>3 DEF OwnSlot, Own
    <2> QED BY <1>e, <1>i, <2>1, <2>2, <2>4, <2>5
<1>6. ASSUME NEW after \in Stages, BeginInstall(after) PROVE OwnInv'
    <2>1. key' = key /\ pc' \in {"idle", "update"} /\ oemName' = None
        BY <1>6 DEF BeginInstall
    <2> QED BY <1>e, <1>i, <2>1
<1>7. ASSUME NEW after \in Stages \ {"removed"}, BeginUninstallFromFile(after)
      PROVE  OwnInv'
    <2>1. key' = key /\ pc' = "remove" /\ strongName' = None /\ named' = FALSE
        BY <1>7 DEF BeginUninstallFromFile
    <2> QED BY <1>e, <1>i, <2>1
<1>8. ASSUME NEW after \in Stages, BeginUninstallFromKey(after) PROVE OwnInv'
    <2>1. KeyNamesOwn'
        BY <1>8, <1>d, <1>e DEF BeginUninstallFromKey, NoKey
    <2>2. oemName' # None => oemName' \in Slots /\ OwnSlot(oemName')
        BY <1>8, <1>b, <1>c DEF BeginUninstallFromKey
    <2>3. strongName' # None => Own(strongName')
        BY <1>8, <2>2 DEF BeginUninstallFromKey, Location, OwnSlot
    <2>4. store' = store /\ named' = (oemName' # None) /\ pc' \in {"idle", "remove"}
        BY <1>8 DEF BeginUninstallFromKey
    <2>5. /\ oemName' # None => OwnSlot(oemName)'
          /\ strongName' # None => Own(strongName)'
        BY <2>2, <2>3, <2>4 DEF OwnSlot, Own
    <2> QED BY <1>i, <2>1, <2>4, <2>5
<1>9. CASE UNCHANGED <<key, pc, object>>
    <2>1. UNCHANGED <<oemName, strongName, named, pc>> /\ key' = key
        BY <1>9 DEF object
    <2>2. Installing /\ oemName # None => OwnSlot(oemName)'
        BY <1>a, <1>b, <1>f, <2>1 DEF OwnSlot, Own
    <2>3. ~HasDiUninstall /\ Uninstalling /\ named => oemName # None /\ OwnSlot(oemName)'
        BY <1>a, <1>b, <1>g, <1>j, <2>1 DEF OwnSlot, Own
    <2>4. pc \in {"record", "remove", "delete"} => (strongName # None => Own(strongName)')
        BY <1>j, <2>1 DEF Own
    <2> QED BY <1>e, <1>i, <2>1, <2>2, <2>3, <2>4
<1> QED BY <1>1, <1>2, <1>3, <1>4, <1>5, <1>6, <1>7, <1>8, <1>9, CallFrame
        DEF InstallSteps

\* A slot that the removal frees held a package of the product.
LEMMA RemovalStep ==
    ASSUME TypeOK, ObjectInv, OwnInv, [Next]_vars,
           pc = "delete", pc' # pc, HasDiUninstall \/ named,
           NEW s \in Slots, store[s] # None, store'[s] = None
    PROVE  Own(store[s])
<1>1. CASE DeleteWithDevices /\ store[s] = strongName
    BY <1>1 DEF OwnInv
<1>2. CASE DeleteUnused /\ s = oemName
    BY <1>2 DEF OwnInv, Uninstalling, DeleteUnused, OwnSlot
<1>3. ~(inf \in Shipped /\ store'[s] = inf)
    BY DeviceAssumption
<1>4. ~OtherTools
    BY DEF OtherTools, PublishOther, DeleteOther
<1> QED BY <1>1, <1>2, <1>3, <1>4, SlotChange

-------------------------------------------------------------------------------
(* What the key names is published *)

\* The key names nothing at first.
LEMMA ResolveInit == Init => ResolveInv
BY DEF Init, ResolveInv, KeyResolves, NoKey, Installing, Uninstalling

\* With DiUninstallDriver a package of the product that leaves the store was named by
\* the key, and the key is deleted when it is read.
LEMMA ResolveStep ==
    ASSUME TypeOK, ObjectInv, OwnInv, ResolveInv, HasDiUninstall, [Next]_vars
    PROVE  ResolveInv'
<1> USE DEF Installing, Uninstalling
<1>a. ASSUME ~DeleteWithDevices, NEW s \in Slots, store[s] # None, OwnSlot(s)
      PROVE  store'[s] = store[s]
    BY <1>a, SlotChange DEF DeleteUnused, OwnSlot
<1>b. ASSUME ~DeleteWithDevices, NEW v, v \in Published, Own(v)
      PROVE  v \in Published'
    BY <1>a, <1>b DEF Published, OwnSlot
<1>c. key.oem \in Slots \cup {None} /\ oemName \in Slots \cup {None}
    BY DEF TypeOK, Names
<1>k. /\ key.oem # None => store[key.oem] # None /\ OwnSlot(key.oem)
      /\ key.strong # None => key.strong \in Published /\ Own(key.strong)
    BY DEF ResolveInv, KeyResolves, OwnInv, KeyNamesOwn, OwnSlot
<1>d. ~DeleteWithDevices /\ key' = key => KeyResolves'
    BY <1>a, <1>b, <1>c, <1>k DEF KeyResolves
<1>e. NoKey.oem = None /\ NoKey.strong = None
    BY DEF NoKey
<1>f. key' = NoKey => KeyResolves'
    BY <1>e DEF KeyResolves
<1>1. CASE TryHwid
    BY <1>1, <1>d DEF ResolveInv, TryHwid, ObjectInv, DeleteWithDevices
<1>2. CASE CopyOemInf
    <2>1. oemName' # None => store'[oemName'] # None
        BY <1>2, DeviceAssumption DEF CopyOemInf, ObjectInv
    <2> QED BY <1>2, <1>d, <2>1 DEF ResolveInv, CopyOemInf, DeleteWithDevices
<1>3. CASE FindStrongName
    <2>1. oemName' # None => oemName' \in Slots /\ store[oemName'] # None
        BY <1>3, <1>c DEF FindStrongName, SameRelease, ResolveInv
    <2>2. strongName' # None => strongName' \in Published
        BY <1>3, <2>1 DEF FindStrongName, Location, Published
    <2>3. Published' = Published /\ store' = store
        BY <1>3 DEF FindStrongName, Published
    <2> QED BY <1>3, <1>d, <2>1, <2>2, <2>3
            DEF ResolveInv, FindStrongName, DeleteWithDevices
<1>4. CASE SetComponentRegKey
    <2>1. Published' = Published /\ store' = store
        BY <1>4 DEF SetComponentRegKey, Published
    <2>2. /\ key'.oem = key.oem \/ key'.oem = oemName
          /\ key'.strong = key.strong \/ key'.strong = strongName
        BY <1>4 DEF SetComponentRegKey
    <2>3. /\ oemName # None => store[oemName] # None
          /\ strongName # None => strongName \in Published
        BY <1>4 DEF SetComponentRegKey, ResolveInv
    <2>4. KeyResolves'
        BY <1>k, <2>1, <2>2, <2>3 DEF KeyResolves
    <2>5. pc' = "idle"
        BY <1>4 DEF SetComponentRegKey
    <2> QED BY <2>4, <2>5 DEF ResolveInv
<1>5. CASE DeleteWithDevices
    <2>1. strongName # None
        BY <1>5 DEF DeleteWithDevices, Published
    <2>2. key = NoKey /\ key' = NoKey
        BY <1>5, <2>1 DEF DeleteWithDevices, ResolveInv
    <2> QED BY <1>5, <1>f, <2>2 DEF ResolveInv, DeleteWithDevices
<1>6. CASE UninstallSteps /\ ~DeleteWithDevices
    <2>1. key' = key /\ strongName' = strongName
        BY <1>6 DEF UninstallSteps, SkipDevice, RemoveDevice, GiveUpRemoving,
                    DevicesRemoved, DeleteUnused, DeleteFails, object
    <2>2. pc \in {"remove", "delete"} /\ pc' \in {"remove", "delete", "idle"}
        BY <1>6 DEF UninstallSteps, SkipDevice, RemoveDevice, GiveUpRemoving,
                    DevicesRemoved, DeleteUnused, DeleteFails
    <2> QED BY <1>6, <1>d, <2>1, <2>2 DEF ResolveInv
<1>7. ASSUME NEW after \in Stages, BeginInstall(after) PROVE ResolveInv'
    BY <1>7, <1>d DEF BeginInstall, ResolveInv, DeleteWithDevices
<1>8. ASSUME NEW after \in Stages, BeginUninstallFromFile(after) PROVE ResolveInv'
    BY <1>8, <1>d DEF BeginUninstallFromFile, ResolveInv, DeleteWithDevices
<1>9. ASSUME NEW after \in Stages, BeginUninstallFromKey(after) PROVE ResolveInv'
    <2>1. ~DeleteWithDevices
        BY <1>9 DEF BeginUninstallFromKey, DeleteWithDevices
    <2>2. key' = NoKey \/ (key' = key /\ pc' = "idle")
        BY <1>9 DEF BeginUninstallFromKey
    <2>3. pc' \in {"idle", "remove"}
        BY <1>9 DEF BeginUninstallFromKey
    <2> QED BY <1>d, <1>f, <2>1, <2>2, <2>3 DEF ResolveInv
<1>10. CASE UNCHANGED <<key, pc, object>> /\ ~DeleteWithDevices
    <2>1. UNCHANGED <<key, pc, oemName, strongName>>
        BY <1>10 DEF object
    <2>2. Installing /\ oemName # None => store'[oemName] # None
        BY <1>10, <1>a, <1>c DEF ResolveInv, OwnInv
    <2>3. pc = "record" /\ strongName # None => strongName \in Published'
        BY <1>10, <1>b DEF ResolveInv, OwnInv
    <2> QED BY <1>10, <1>d, <2>1, <2>2, <2>3 DEF ResolveInv
<1> QED BY <1>1, <1>2, <1>3, <1>4, <1>5, <1>6, <1>7, <1>8, <1>9, <1>10, CallFrame
        DEF InstallSteps

-------------------------------------------------------------------------------
(* The theorems *)

\* The invariants hold together in every reachable state.
LEMMA InductiveInvariant == Spec => []IInv
<1>1. Init => IInv
    BY TypeInit, DanglingInit, ObjectInit, OwnInit, ResolveInit DEF IInv
<1>2. IInv /\ [Next]_vars => IInv'
    <2> SUFFICES ASSUME IInv, [Next]_vars PROVE IInv'
        OBVIOUS
    <2>1. TypeOK' /\ NoDanglingDriver' /\ ObjectInv'
        BY TypeStep, DanglingStep, ObjectStep DEF IInv
    <2>2. ~Meddling \/ HasDiUninstall => OwnInv'
        BY OwnStep DEF IInv, Steady
    <2>3. HasDiUninstall => ResolveInv'
        BY ResolveStep DEF IInv
    <2> QED BY <2>1, <2>2, <2>3 DEF IInv
<1> QED BY <1>1, <1>2, PTL DEF Spec

\* Every variable keeps its type.
THEOREM TypeCorrect == Spec => []TypeOK
<1>1. IInv => TypeOK
    BY DEF IInv
<1> QED BY <1>1, InductiveInvariant, PTL

\* No device node refers to a package that is gone, whatever Plug and Play and
\* other tools do between two calls (RemoveDevices and UnInstallOEMInf).
THEOREM NoDriverDangles == Spec => []NoDanglingDriver
<1>1. IInv => NoDanglingDriver
    BY DEF IInv
<1> QED BY <1>1, InductiveInvariant, PTL

\* The key names the product's packages only, over any number of installations,
\* repairs, removals and rollbacks, with either value written or not: while no other
\* tool works on the store, or if there is DiUninstallDriver.
THEOREM KeyNamesOwnPackages ==
    ASSUME ~Meddling \/ HasDiUninstall
    PROVE  Spec => []KeyNamesOwn
<1>1. IInv => KeyNamesOwn
    BY DEF IInv, OwnInv
<1> QED BY <1>1, InductiveInvariant, PTL

\* With DiUninstallDriver what the key names is published, other tools or not: nothing
\* deletes the package and leaves the key (GetComponentRegKey, UnInstallOEMInf).
THEOREM KeyNamesPublished ==
    ASSUME HasDiUninstall
    PROVE  Spec => []KeyResolves
<1>1. IInv => KeyResolves
    BY DEF IInv, ResolveInv
<1> QED BY <1>1, InductiveInvariant, PTL

\* Removing the product deletes no package of another vendor: with DiUninstallDriver
\* whatever was written and read and whatever other tools do; without it while there
\* are no other tools, if the OEM name came from the key.
THEOREM RemovalDeletesOwnOnly ==
    ASSUME ~Meddling \/ HasDiUninstall
    PROVE  Spec => RemovalDeletesOwn
<1> DEFINE Deletes == stage = "removed" /\ pc = "delete" /\ pc' # pc
                                        /\ (HasDiUninstall \/ named) =>
                          \A s \in Slots : store[s] # None /\ store'[s] = None
                                               => Own(store[s])
<1>1. IInv /\ [Next]_vars => [Deletes]_vars
    BY RemovalStep DEF IInv
<1> QED BY <1>1, InductiveInvariant, PTL DEF Spec, RemovalDeletesOwn
===============================================================================
