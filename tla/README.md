# TLA+ specifications of virtio-win-guest-tools-installer

This directory holds TLA+ models of the part of the installer that runs on the
guest, the TLC configurations that check them, and TLAPS proofs about them. The
program is a Windows Installer package. Its own code is the custom-action DLL
`DrvInstCA` (`src/src/DrvInst/DrvInstCA`), which Windows Installer calls at fixed
places of its sequence. Paths below are relative to that directory unless they
start with `virtio-win-drivers-installer/`.

## Inventory

| Component | State it keeps | Operations | Model |
|---|---|---|---|
| `ConfigRead` (ConfigClass.cpp): restore static IP settings | the parsed records, `restored`, the attempt, the WMI row in `m_pclsObj` | `Run`, `ApplyAdapterConfig` and its six WMI method calls | `NicRestore`, `RestorePromise` |
| `ConfigWrite`, `ConfigFile` (ConfigClass.cpp, ConfigFile.cpp): the settings file | `viocfg.cfg`, `cur`, `adapters` | save, write, read a line, split, parse | `NicConfigFile` |
| `ManagementClass`, `Config` (ManagementClass.cpp): a WMI session | locator, services, enumerator, current object, COM itself | `Init`, `Close`, `GetInstances`, `MoveNext`, `GetMethod`, `Put`, `ExecMethod` | `WmiSession`, `WmiCursor`; the property reads in `NicConfigFile` and `NicRestore` |
| custom actions (CustomAction.cpp) | two lists in `CustomActionData`, the reboot flag | `ProcessPackages`, `InstallPackages`, `UninstallPackages`, `Install`, `Uninstall` | `PackageQueue` |
| `DevProps`, `DevDriver` (DevProps.cpp): one driver package | .inf path, OEM name, strong name, hardware IDs; outside: driver store, device nodes, registry key | `Init`, `Install`, `UnInstall` | `DriverPackage` |
| installation sequence (`virtio-win-drivers-installer/*.wxs`) | the script of the transaction | install, remove, major upgrade, rollback | `InstallTransaction`, which composes all of the above |
| driver and feature authoring (`.wxi`, `features.wxs`) | data | none | its flags and sequence numbers are the tables of `MCPackageQueue` |
| WiX compiler extension, bundle, LogReport, tests, build automation | none at run time | | not modelled, see below |

How they interact. `ProcessPackages` (immediate) reads the table and schedules
deferred and rollback actions; the installer later calls each in a fresh process
with nothing but the string of `CustomActionData`. A deferred action creates one
`DevDriver` per package, which works on the driver store and on device nodes while
Plug and Play works on them too. On an upgrade the old product's removal saves the
network settings to a file (`CA_SaveVIOConfig`) and the new product's installation
restores them (`CA_RestoreVIOConfig`) through WMI, while the adapters it has just
given a driver are still starting.

What makes it hard to test:

- adapters and devices appear and disappear between any two calls of the DLL;
- every call may fail, and nearly every failure is logged and passed over;
- a user's cancel, or a failure anywhere, runs the recorded rollback actions, whose
  effects depend on which files are still in place at that moment;
- values live on from one call to the next: the reboot flag in a loop, the registry
  key over the life of the product, the backup file beyond it.

What makes each component correct:

- *Restore*: a record lands on its own adapter only, at most once, in file order; an
  adapter that shows up is served; the closing report is true; the loop ends.
- *Package queue*: packages are handled in table order, none twice and none skipped;
  after a rollback each handled package was handed to the inverse operation; the
  reboot request says what the flags say (it does not, see Findings); a committed
  installation has called for a rescan of the hardware.
- *Driver package*: no device node keeps a driver that is gone; the registry key names
  a package of the product, and one that exists; removing the product deletes no other
  package; a rollback takes the package back out (it does not, see Findings).
- *Settings file*: what was saved is what is parsed (all but the IPv6 lists, see Findings);
  one lost line never mixes two adapters; only a damaged file stops the parser.
- *WMI session*: a row and a connection that are used belong to the last query; nothing leaks
  or outlives COM; COM is left as it was found.
- *Transaction*: an upgrade, however it ends, never gives an adapter another adapter's or
  an older configuration; what the restore has configured stays; a committed upgrade gives back every
  static configuration that was saved and could be applied.

`PROJECT.json` lists the hazards one by one with the line where each bites.

## Modules and code

### NicRestore (`ConfigRead::Run`)

One step per WMI call, interleaved with `Start(n)` and `Stop(n)` of any adapter.

| Code | Specification |
|---|---|
| retry loop, lines 551-563 | `MoreAttempts`, `LoopEnds`; `attempt` runs to `MaxRetries + 1` |
| `GetInstances` | `QuerySucceeds` takes the adapters started now as `rows`; `QueryFails` is the `continue` |
| `MoveNext`, reading two properties, the inner loop, lines 568-588 | `ReadRow`; a property that cannot be read is `Unread` |
| `MoveNext` returning false (the end, or a failure) | `ScanEnds`, possible with rows left |
| `ApplyAdapterConfig`, lines 509-530 | `CallTakesEffect` or `CallHasNoEffect`, six times, then `ApplyReturns` |
| the closing loop, lines 591-601 | `Report` |

A record is its MAC address, its service name and the set of its non-empty vectors:
the values themselves are never compared. `inForce` keeps, for each adapter and call,
the record whose call last took effect; `host` does so for `EnableDNS`, which is a
method of the class. `seen` is a history variable. `RestorePromise` is what the loop
promises, without adapters, attempts or WMI: each record is restored or reported lost,
once, the records of one adapter in file order. Towards WMI it uses no more than `WmiCursor` offers
(`UsesCursor`).

Assumed of the outside: the adapters' `MACAddress` and `ServiceName` are those they were saved
with; a `__PATH` names one adapter during the run; static settings survive a stop of the
device (they are in the registry); a method of a stopped adapter fails.

### WmiSession and WmiCursor (`ManagementClass`, `Config`)

One action per COM call, in the code's order: `InitSucceeds` and `InitFails` are
`CoInitializeEx`; `Release`, `Secure`, `CreateLocator`, `ConnectServer`, `SetBlanket`, `ExecQuery` are `GetInstances`, and
`GiveUp(stage)` is the `return false` after each of them; `MoveNext`, `GetMethod`, `MethodReturns` are
what the walkers of the rows call; `StartClose`, `DeleteManagementClass` and `Uninitialize` are `~Config`.
A pointer is the number of the query that set it, 0 being NULL, so "of the same query" is equality. The user
of the class is the most general one: any number of queries, broken-off walks and method calls in
any order, which covers `ConfigWrite::Run` and `ConfigRead::Run`. `WmiCursor` is what this user
sees: rows that come one at a time, each once, and a current row that is never one of an
earlier query.

Assumed of the outside: an action's DLL is loaded anew (so `m_bSecurity` starts false) in a process that
keeps its COM security; the host thread has initialised COM once or not at all.

### NicConfigFile (`ConfigWrite::Run`, `ConfigFile`, the parse in `ConfigRead::Run`)

The file is a sequence of items, one for each `WriteLine`, with the adapter it was written for (which
the code does not know), its size, and whether its `\r` and `\n` are there.

| Code | Specification |
|---|---|
| `Config::Init`, `ConfigFile::Open` | `OpenForWriting`, `OpenForReading`; a failing `_wfopen_s` returns a positive `errno`, which `< 0` does not see, so the action goes on with `opened` false |
| `ConfigWrite::Run` | `QuerySucceeds`, `NextAdapter` (passes over adapters that are not static netkvm), then 14 times `WriteLine` or `WriteFails`; `SaveEnds`, `MoveNextFails` |
| a property that cannot be read | an adapter of the query with `Unread` values; each costs a fault |
| `vswprintf` with a full buffer, `_ftprintf` failing in part, a file whose end is lost | `Item`, `Torn`, `CutShort` |
| `ReadLine` | `ReadLine` takes one `fgetws` chunk: up to a newline or `Buffer - 1` characters, over the borders of items; `failed` is `rfind` finding no `\r`, after which `erase` throws |
| `SplitStringAsVector`, `Process…`, `ProcessParametesAsVector` | `SplitByFamily`, `Vectors`, `Handled`, `Assigned` |
| the end of a record at `ServiceName` | `Take` |

A value is the sequence of its comma-separated pieces. `GetIntProperty` is `Narrow`: it takes the 16-bit member of a
32-bit variant. Assumed: values are ASCII without `%` (the line is used as a format), tab or `\r`; `vswprintf` leaves
the first `count - 1` characters of a line that does not fit; `erase` past the end throws, which nobody catches.

### PackageQueue (`ProcessPackages`, `InstallPackages`, `UninstallPackages`)

`FetchRow` puts a row into one of two lists by the state of its component; `ScheduleNext`
makes the four calls of `WcaDoDeferredAction` in order, the undoing action first; `KeepForRollback`,
`RunDeferred`, `OtherActionFails`, `Commit`, `RunRollback` and `RolledBack` are Windows
Installer executing the script; `HandlePackage`, `ReadFails`, `ProgressOk`,
`ProgressCancelled` and `ActionSucceeds` are the loops of lines 246-285 and 311-340.
`RebootAfter` is the assignment of `IsRebootNeeded` followed by the flag. `log`, `base`,
`unscanned` and `cut` are history variables; `unscanned` is about the call of
`ScanForHardwareChanges`, whose failure the code ignores. Assumed: a rollback cannot be cancelled; a
rollback action that fails does not stop the rollback.

On an early exit `ReleaseStr(pwz)` (lines 280 and 338) frees a pointer into the middle of
the data. Whatever that does, the action fails, which is all the model says.

### DriverPackage (`DevProps`, `DevDriver`)

`Install` is `BeginInstall`, then `TryHwid` for each hardware ID until one succeeds, else
`CopyOemInf`, then `FindStrongName` and `SetComponentRegKey`. `UnInstall` is `BeginUninstallFromFile`
or `BeginUninstallFromKey`, then `SkipDevice`, `RemoveDevice` or `GiveUpRemoving` for the
devices in any order, and `DeleteWithDevices`, `DeleteUnused` or `DeleteFails`. `stage` is the
place in the installer's sequence, and it decides whether the product's `.inf` is on disk
(`file`). `Plug`, `Unplug`, `Enumerate` and `Bind` are Plug and Play; with
`Meddling`, `PublishOther` and `DeleteOther` are other tools.

A version of the package is a model value; `ReleaseOf` says which versions `FindOemFile`
cannot tell apart (class, provider, catalog, and the build number divided by 100). Two odd
things of the code are kept: `FindCommon` returns ten empty names when either list is
empty, so that every device then matches (`Matches`, line 289); and `MarkDevicesAsNeedReinstall`
is no action, since the enumeration before it always ends with an error and the list is
dropped (line 1096).

`SetComponentRegKey` writes the two values one by one and only logs a failure, so `key` may get either,
both or none of the new names beside what it had. `BeginUninstallFromKey` likewise reads each
value or not, and may find that the key cannot be opened, which keeps it. `named` is a history variable: the OEM name of
the object came from the key. Assumed: `RegDeleteKey` succeeds once the key was opened; `DiUninstallDriver` unbinds
the package from its devices as it deletes it, and `SetupUninstallOEMInf` without force refuses a package that a device
node uses, so `NoDanglingDriver` says of Windows' calls as much as of this code; other tools
publish any package and delete unused ones, but none of the product's.

### InstallTransaction (`installSequence.wxs`, `driverInstall.wxs`)

`Script` lists the entries of a removal, an installation, or an upgrade (the old product's removal, then the new product's
installation) in the order of the sequence tables, each with the action that undoes it:
`SaveSettings` after `InstallInitialize`, the files, the driver actions (scheduled after `InstallFiles`, hence after
`RemoveFiles`), `CA_RestoreVIOConfig` before `InstallFinalize`, and `CA_RollbackRestoreVIOConfig`, recorded at the start of
the installation. `step` walks it forward in `phase` "run" and backward in "rollback". Each entry is an action:
`SaveSettings` or `SaveUnopened`; `MoveFiles`; `InstallPackages`, `UninstallPackages`; `RestoreBegins`, `RestoreOne`,
`RestoreEnds`. `SettingsActionFails` and `OtherActionFails` (a failure or the user's cancel, at any entry) turn it round.
Between any two steps Plug and Play may give an adapter a published driver (`StartNic`); between transactions
the user configures adapters or publishes the driver by hand. Removing a device node may lose its settings.

`backup` has one file per directory, because `[VIOCONFIGFILE]` follows `INSTALLERDIR` (properties.wxs:89-100): a
product that is installed elsewhere reads another file, or none. A configuration is one value here, which is saved and comes
back as it was, and is applied whole or not at all: what a call of `ApplyAdapterConfig` that fails leaves undone is in `NicRestore`, what the
file makes of a value (the IPv6 lists, a long metric) in `NicConfigFile`. A save takes an adapter whose DHCP flag is unreadable
for static (`Leased`). `missed` is a history variable: the adapters that were not saved although they were static, or that the
restore since did not configure; `UpgradeKeepsSettings` is about all others. A repair runs neither
settings action and is in `PackageQueue` and `DriverPackage` only.

## Runs

| Run | Instance | Shows |
|---|---|---|
| `nic_restore` | three adapters, two sharing a MAC address; six files; two attempts; 434,464 states | `TypeOK`, `RightNic`, `SeenIsServed`, `FileOrder`, `ReportTruthful`, `RestoredOnce`; `Terminates`; `ImplementsPromise` and `UsesCursor`: refinement of `RestorePromise`, its liveness included, and of `WmiCursor` |
| `wmi_session` | two rows, three queries in each of three actions; 1,470 states | `TypeOK`, `RowIsCurrent`, `NoLeak`, `HeldInsideCom`, `ComBalanced`, `SecuredFirst`; `ImplementsCursor` |
| `nic_config_file` | four networks of up to four adapters, with and without an older backup; buffer of 6; two faults; 474,514 states | `TypeOK`, `NoMixing`, `OneSave`, `RoundTrip`, `PairsKept`, `OnlyCutFilesThrow` |
| `nic_file_ipv6` | the same without faults | violation of `AllAddressesKept` (finding 4) |
| `package_queue` | all tables of two packages, and two tables of three; 19,380 states | `TypeOK`, `SequenceOrder`, `UndoComplete`, `RebootFlagExact`, `RebootOnlyIfWanted`, `CommittedScanned` |
| `package_queue_reboot` | the same | violation of `RebootFlagHonoured` (finding 1) |
| `driver_modern` | `DiUninstallDriver` present; two products in sequence, another vendor's package; two devices, two slots; other tools publish and delete packages at any time; 563,656 states | `TypeOK`, `NoDanglingDriver`, `KeyNamesOwn`, `KeyResolves`, `RemovalDeletesOwn` |
| `driver_legacy` | `SetupUninstallOEMInf` only, no other tools; 138,496 states | `RemovalDeletesOwn` |
| `driver_rollback` | one product, `DiUninstallDriver` present | violation of `RollbackUninstalls` (finding 2) |
| `driver_rollback_removal` | the same | violation of `RollbackReinstalls` (finding 3) |
| `install_transaction` | one adapter, two configurations, two directories; 215,331 states | `TypeOK`, `UpgradeNeverWrong`, `RestoredStays`, `UpgradeKeepsSettings` |

Why the bounds are enough.
*NicRestore*: the number of attempts (`MaxRetries = 2`, 5 in the code) matters only
in whether another one follows; two give every order of events around one retry. Three adapters
are a virtual function, its netkvm standby with the same MAC address, and an unrelated one.
The files are: no record, one, two adapters, an absent adapter, two records of one adapter, and
a record saved with an unreadable MAC address; the vectors are those `ConfigWrite` can leave
(the DNS lists are never empty after a parse). *PackageQueue*: two packages are enough for order, for carrying the reboot flag and for a
cancel between packages; three distinguish "the last" from "a later one". The flags are 0 and 3,
the only values the authoring uses.
*DriverPackage*: two slots fill up, so publishing can fail; one device has two of the package's
IDs, so `UpdateDriver` and `RemoveDevices` can meet it twice; the other has only an ID of the other
vendor's package. Two products come one after the other, which is how stale values in
the key could arise. *WmiSession*: three queries are a first, one that finds what a failed second
left behind, and a third; three actions let two failed initialisations follow each other; a row is only
current or not, so two suffice. *NicConfigFile*: two faults are one more than `NoMixing` and `PairsKept`
allow for, so they are exercised at their edge; the buffer of 6 (1024 in the code) is as large as a line that just fits,
smaller than one that does not, and leaves a short line room; the networks have an IPv4
list, both families in both orders, several of each family, an adapter that is passed over at each place, a line
that does not fit, and a metric above 32767. *InstallTransaction*: adapters do not influence one another in it (a second one
multiplies the states, and the proofs have any number); two configurations tell old from new, two directories tell
the same file from another. For safety the proofs below remove all these bounds.

No run uses symmetry. Deadlock is checked but for `wmi_session`, where the bounded number of actions comes to an
end, and the two runs of `NicConfigFile`, where the file has been read and nothing is left to do. `NicRestore` and `DriverPackage`
always have a Plug and Play step, `PackageQueue` has `Stopped` for a finished installation, and in `InstallTransaction` the
user can always begin another transaction.

Fairness. `NicRestore` states `WF_vars(Restore)`: the loop is sequential code whose
waits are `Sleep` and WMI calls, so when a step is possible one is taken; nothing is assumed of
Plug and Play, nor that any call succeeds. The other modules have safety properties only and state no fairness.

### Findings

1. *A reboot request is lost.* `Install` and `Uninstall` (CustomAction.cpp 399, 419) assign the reboot variable
   instead of accumulating it, so a later package clears what an earlier one's
   `REBOOT_AFTER_INSTALL` or `REBOOT_AFTER_UNINSTALL` set. It takes a flagged package followed by
   an unflagged one: viorng (flags 3, sequence 9) and vioserial (flags 0, sequence 11)
   when the features vioscsi and viostor, flagged and later, are not selected.
   `RebootFlagExact` says what the variable does mean.
2. *Rolling back an installation leaves the package in the driver store.* `RollbackInstall` runs while
   the copied `.inf` is in place, and only its absence makes `Init` read the names from the
   registry (DevProps.cpp 40). The strong name stays empty and `DiUninstallDriver` gets an empty path;
   devices are removed, package and key stay.

3. *Rolling back a removal does not install the driver again.* `RollbackUninstall` comes before the removed files are
   restored, because `ProcessDriverPackages` is scheduled after `InstallFiles` (driverInstall.wxs:47): `Init` finds no file, and
   `Install` returns success without having done anything.
4. *All IPv6 addresses of an adapter but the last are lost.* `SplitStringAsVector` erases the string
   it splits (ConfigClass.cpp 131, 143) and is called twice on the same one, so the pass for IPv6 sees the last
   element only; if that is an IPv4 address, none is restored.

Other behaviour that no text of the repository rules out, so no property states it: a record
whose six calls all failed counts as restored; a metric above 32767 comes back as another number; two lost
lines, one of them `ServiceName`, make one record of two adapters, and one torn write loses two lines; the file is never deleted, so a later installation into
the same directory restores what was saved long ago, when its own removal did not save (this is why `UpgradeNeverWrong`
speaks of directories whose file the last removal has written); a failed `CoInitializeEx` is answered by a
`CoUninitialize` that takes the host's; the key is deleted before the
removal has succeeded, so a failed removal leaves a package nobody remembers; and without
`DiUninstallDriver`, whenever the OEM name does not come from the key, it is taken from the first removed device
(line 949), and another vendor's unused package can be deleted. So it is in a rollback, which never reads the key, and in the
removal of a product whose OEM name could not be written (line 646) or read while its strong name was. A rollback may also
leave a key that names a deleted package. This is why `KeyResolves` is checked with `DiUninstallDriver` only, and why
`RemovalDeletesOwn` speaks of the removal of a product and, without `DiUninstallDriver`, of names from the key (`named`). Nor can
the OEM name be relied on there when other tools work on the store: the slot that was noted down may have been given away
after a rollback deleted the package, which is why `driver_legacy` has none.

## Proofs

Each component has its proofs in modules of their own. All of them follow one pattern: `IInv`, at the end of the
component's module, holds initially and is kept by every step; one lemma for each conjunct says so,
with one case for each action that can disturb it and frame lemmas for those that cannot; the theorems are its consequences.
`IInv` was checked with TLC on the instances above before it was proved.

**NicRestoreProofs**, for every number of adapters, records and attempts, from `NicAssumption` (names are
strings, `NoNic` is no adapter), `SavedAssumption` (files are lists of records) and `RetriesAssumption`
(at least one attempt). `TypeCorrect`, `SettingsOnRightNic`, `SeenAdaptersServed`, `UsedInFileOrder`, `ReportIsTruthful`,
`NeverAppliedTwice`; `ImplementsPromiseSafety`: every step is a step of `RestorePromise` or a stutter; and `CursorUsed`: every step
is one of `WmiCursor` or a stutter.
The properties alone are not inductive. `RightNic` needs `ApplyInv` (the row in `m_pclsObj` is
still the one the record was chosen for), `TypeOK` needs `LoopInv` (inside a scan attempts are left), and
`ReportTruthful` needs `UnusedUntouched` (a record that was never chosen has left no trace).
`StepsAreCounted` is the part of `Terminates` that needs no fairness, for a finite set of adapters: `StepsLeft`, a natural number not above
`Rest(MaxRetries)`, gets smaller with every step of the loop, and no start or stop of a device changes it. It takes `RowTaken`: a row being
worked on is not returned again in the same scan. That the loop is never stuck before its end is TLC's (`Terminates`).

**DriverPackageProofs**, for every set of devices, hardware IDs, versions and slots, from
`DeviceAssumption` (shipped versions are versions; `None` is none) and `InfAssumption` (an
`.inf` lists hardware IDs). `TypeCorrect` and `NoDriverDangles` hold on every system; `KeyNamesOwnPackages` and
`RemovalDeletesOwnOnly` assume that there is `DiUninstallDriver` or that no other tools are at work, `KeyNamesPublished`
that there is `DiUninstallDriver`. The argument: an installation works on a product's file (`ObjectInv`);
the names it finds belong to a slot of the same release, and so do those in the key and those read from it (`OwnInv`), whichever of them
were written or read; a slot that holds nothing of another vendor never comes to, as long as nobody else publishes. When
others do, `OwnInv` leans on `ResolveInv`: a slot named by the key is never free, so that nobody else can be given it, because
the key is already empty while the package it named is being deleted. `ResolveInv` in turn
leans on `OwnInv`, since others may delete whatever is not the product's.

**PackageQueueProofs**, for every table (`TablesAssumption`). `TypeCorrect`, `RollbackIsComplete` (`UndoComplete`),
`RebootFlagMeaning` (`RebootFlagExact`), `RebootWanted` and `CommitIsScanned`. The rollback is the long
argument: in the script each action comes right after the one that undoes it (`ScriptInv`); until
something fails, every rollback action passed is kept (`KeptInv`); so each call in the log has its inverse
kept, running, or made (`UndoInv`), and at the end nothing is kept and nothing runs.

**PackageOrderProofs**, from the same assumption and on top of that invariant: `HandledInOrder` (`SequenceOrder`). The order is followed
through the two encodings by indices, not by what a list computes to, so that no induction over lists is needed. `DataInv`: an increasing
function leads from the items of each list to the rows of the table that ask for its operation, and
leaves out none of those fetched. `AgendaInv`: the script has exactly one action for a list that is not empty. `RunInv`:
that action has still to read what lies behind the items it has made calls for. `CallsInv`: the calls of an operation lie
together in the log and are the first items of its list - none before its action is come to, all
after it has succeeded. The composition of the two functions is the one `SequenceOrder` asks for. TLC checked the four parts on
the instance of `package_queue` before they were proved.

**WmiSessionProofs**, for every set of rows and every number of queries and actions, from `RowAssumption` and `BoundAssumption`. `TypeCorrect`,
`CurrentRow`, `NothingLeaks`, `ReleasedInTime`, `BalancedCom`, `SecurityFirst`, and `CursorImplemented`, the refinement of `WmiCursor`.
`StageInv` carries them: at each stage of `GetInstances` the pointers set so far are of the
current query and the others NULL, because every query begins with the four releases whatever the one before it
left. `ComInv` counts: COM is as deep as the host's and this action's initialisations, less what actions
whose own initialisation failed took.

**InstallTransactionProofs**, for every set of adapters, configurations and directories, from `SettingsAssumption`, `DistinctAssumption`
and `DirsAssumption`. `TypeCorrect`, `NeverWrongInUpgrade`, `RestoredSettingsStay`, `UpgradeIsLossless` (`UpgradeKeepsSettings`). The first lemmas unfold the three scripts; `BackupInv` says that the
file a removal has written, and what is loaded from it, says nothing but what the adapters had; for
`RestoredStays`, `AppliedInv` exempts just the stretch of a rollback between the undoing of `InstallPackages` and the restore, which
is the last to be undone. For `UpgradeKeepsSettings`, `KeptInv` follows each static configuration that was not missed from the
settings into the file, from the file into what is loaded, and from there to the adapter.
`StepsAreCounted` bounds a transaction likewise: at most `Entries(15) + 3` steps of the installer, which is an
upgrade whose seven entries are all run, then fails and is undone. Nothing the guest does meanwhile adds one.

**NicConfigFileProofs**, for every set of networks and of files left by an earlier save, every buffer and every number of
faults, from `BufferAssumption` (the buffer holds two characters and the terminating null at least), `FaultsAssumption`,
`NetworksAssumption` and `BackupsAssumption`. The last two say what WMI returns (`WellFormed`): each property has a value of its
type, a line is two characters long at least, and `IPAddress` lists as many entries as `IPSubnet`, an IPv4
address where there is an IPv4 mask. `TypeCorrect`, `RecordsUnmixed` (`NoMixing`), `RecordsOfOneSave` (`OneSave`),
`ParserThrows` (`OnlyCutFilesThrow`), `PairsStayTogether` (`PairsKept`) and `SettingsReturn` (`RoundTrip`).
- *The reader.* `ReadLine` counts characters and knows nothing of items. `WholeInv` says that, while less than two lines were
  lost, an item ends at its newline or has just the characters one `fgetws` takes in; so a chunk that starts at the start of an item
  ends at the end of it, and the reader never stands inside one (`SkipInv`). `FitInv` gives every line that fits its `\r`, without
  which the parser throws. The lemmas about `Ends`, the number of characters up to an item, in `NicFileLemmas` carry this.
- *The file.* `OrderInv`: items stand in the order they were written, by adapter and then by
  place in the block. `TextInv`: the text of an item is that of its property, or what an unreadable one becomes. `FullInv`:
  while less than two lines were lost, at most one place of one adapter that has been passed is missing. `SavedInv`: as long as nothing failed,
  every static adapter that was passed has all of its lines, and no other adapter has any.
- *The records.* `FieldInv`: what is set was read from a line behind the reader. `CurInv`: the record in the making has
  what was read since the last `ServiceName`. `RecordInv`: every `ServiceName` behind the reader has its record, complete when nothing was
  lost. `NoMixing` follows from `FullInv`: to mix two adapters, the `ServiceName` of the
  first and another line have to be missing, which is two.
- *The lists.* `PairsKept` and `RoundTrip` compare lists filtered by address family. `Only` is a recursive function; that it keeps
  parallel lists parallel (`OnlyParallel`), is the identity on what passes whole (`OnlyIdentity`) and drops nothing else is
  shown for every length without an induction theorem: `UpTo` takes the least counterexample, which the well-foundedness
  of the naturals provides (`NatLessThanWellFounded` with `WFMin`).

`ShapeInv` has the part of the types TLC does not enumerate (`file` is a sequence of `FileItems`). The other conjuncts, `IInv`, were checked on the
instance of `nic_config_file`.

Only model-checked: liveness (`Terminates`, the fairness in `ImplementsPromise`), which needs ENABLED;
and the four violations.

## Not modelled

- *WiX compiler extension* (`DrvInstExt`): build-time C# that this installer's build does not reference; the drivers fill
  `DriverInstallTable` with `CustomTable` rows (`Drivers/GenericWindowsComponets/template.wxi`).
- *Driver and feature authoring, bundle*: data without behaviour.
- *LogReport*, and the text of every log line: no other part reads it.
- *Installer tests, build automation*: a comparison of two MSI files and scripts.
- In `DevProps`, how a name, version or class is taken out of an `.inf` (lines 101-285): `ReleaseOf` and
  `InfHwids` stand for the result. `FindNonPresentDevices` always ends with an empty list, so `MarkDevicesAsNeedReinstall` never runs.

## What could come next

A composition of `PackageQueue` with `DriverPackage` over several packages that share a device.
