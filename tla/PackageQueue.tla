----------------------------- MODULE PackageQueue -----------------------------
(***************************************************************************)
(* The driver packages' way through one installation                       *)
(* (src/DrvInst/DrvInstCA/CustomAction.cpp).  The immediate custom action  *)
(* ProcessPackages turns the rows of DriverInstallTable into two lists of  *)
(* CustomActionData and schedules four actions with them; Windows          *)
(* Installer runs the script those make; InstallPackages and               *)
(* UninstallPackages walk a list and take each package through Install or  *)
(* Uninstall.  A failing action, a cancel by the user at a progress tick,  *)
(* or a failure anywhere else in the installation rolls the script back.   *)
(*                                                                         *)
(* What a package does to the devices and the driver store is the matter   *)
(* of DriverPackage: here its Init may fail and it may ask for a reboot.   *)
(***************************************************************************)
EXTENDS Naturals, Sequences

CONSTANTS
    Packages,  \* the driver packages (the .inf paths)
    Tables     \* the contents DriverInstallTable may have, in Sequence order

\* The bits of column Flags.
RebootAfterInstall == "reboot_after_install"
RebootAfterUninstall == "reboot_after_uninstall"
Flags == {RebootAfterInstall, RebootAfterUninstall}

\* A row; todo is what MsiGetComponentState says of the row's component.
Rows == [pkg : Packages, flags : SUBSET Flags, todo : {"install", "uninstall", "none"}]

\* An item of CustomActionData: a path and its flags.
Items == [pkg : Packages, flags : SUBSET Flags]

ASSUME TablesAssumption == Tables \subseteq Seq(Rows)

VARIABLES
    table,          \* DriverInstallTable
    pc,             \* see Places
    next,           \* the row ProcessPackages fetches next
    installData,    \* pwzInstallCustomActionData
    uninstallData,  \* pwzUnInstallCustomActionData
    script,         \* the actions scheduled so far
    at,             \* the entry of the script the installer executes next
    undo,           \* the rollback actions passed by, the last one to run first
    running,        \* the entry whose custom action runs
    queue,          \* pwz: the items it has still to read
    rolling,        \* the installer is rolling back
    bRebootNeeded,  \* the local variable of the running action
    reboot,         \* WcaDeferredActionRequiresReboot was called
    log,            \* history: every Install and Uninstall call, in order
    base,           \* history: length of log when the running action began
    unscanned,      \* history: a package was handled since the rescan was called last
    cut             \* history: a rollback action stopped before its last item

processVars == <<next, installData, uninstallData>>
scriptVars == <<script, at, undo, rolling>>
actionVars == <<running, queue, bRebootNeeded, base>>
histories == <<log, unscanned, cut>>
vars == <<table, pc, processVars, scriptVars, actionVars, reboot, histories>>

Places == {"process", "schedule", "execute", "work", "progress", "unwind",
           "refused", "committed", "rolledback"}

\* The entries of the script.  The rollback actions name the DLL function that
\* undoes the action (driverInstall.wxs, lines 33-44).
Entry(action, op, data) == [action |-> action, op |-> op, data |-> data]
IsRollback(e) == e.action \in {"RollbackInstall", "RollbackUninstall"}
NoEntry == Entry("none", "none", << >>)
Entries == [action : {"RollbackInstall", "InstallDriverPackages", "RollbackUninstall",
                      "UninstallDriverPackages"},
            op : {"install", "uninstall"}, data : Seq(Items)]

-------------------------------------------------------------------------------
Init ==
    /\ table \in Tables
    /\ pc = "process"
    /\ next = 1
    /\ installData = << >>
    /\ uninstallData = << >>
    /\ script = << >>
    /\ at = 1
    /\ undo = << >>
    /\ running = NoEntry
    /\ queue = << >>
    /\ rolling = FALSE
    /\ bRebootNeeded = FALSE
    /\ reboot = FALSE
    /\ log = << >>
    /\ base = 0
    /\ unscanned = FALSE
    /\ cut = FALSE

-------------------------------------------------------------------------------
(* ProcessPackages *)

\* Mutant: the whole row goes into the data.
ItemWithState(row) == row

ItemOf(row) == [pkg |-> row.pkg, flags |-> row.flags]

\* Mutant: what is not installed is uninstalled, untouched components too.
FetchRowEitherList ==
    /\ pc = "process"
    /\ next <= Len(table)
    /\ next' = next + 1
    /\ installData' = IF table[next].todo = "install"
                      THEN Append(installData, ItemOf(table[next]))
                      ELSE installData
    /\ uninstallData' = IF table[next].todo # "install"
                        THEN Append(uninstallData, ItemOf(table[next]))
                        ELSE uninstallData
    /\ UNCHANGED <<table, pc, scriptVars, actionVars, reboot, histories>>

\* A row is fetched, and its package joins the list its component calls for.
FetchRow ==
    /\ pc = "process"
    /\ next <= Len(table)
    /\ next' = next + 1
    /\ installData' = IF table[next].todo = "install"
                      THEN Append(installData, ItemOf(table[next]))
                      ELSE installData
    /\ uninstallData' = IF table[next].todo = "uninstall"
                        THEN Append(uninstallData, ItemOf(table[next]))
                        ELSE uninstallData
    /\ UNCHANGED <<table, pc, scriptVars, actionVars, reboot, histories>>

\* The view, a field of the row or the data cannot be read or written.
ProcessFails ==
    /\ pc = "process"
    /\ pc' = "refused"
    /\ UNCHANGED <<table, processVars, scriptVars, actionVars, reboot, histories>>

\* E_NOMOREITEMS
TableRead ==
    /\ pc = "process"
    /\ next > Len(table)
    /\ pc' = "schedule"
    /\ UNCHANGED <<table, processVars, scriptVars, actionVars, reboot, histories>>

\* Mutant: the installing action is scheduled before the one that undoes it.
AgendaUndoLast ==
    (IF installData = << >> THEN << >>
     ELSE << Entry("InstallDriverPackages", "install", installData),
             Entry("RollbackInstall", "uninstall", installData) >>)
    \o
    (IF uninstallData = << >> THEN << >>
     ELSE << Entry("RollbackUninstall", "install", uninstallData),
             Entry("UninstallDriverPackages", "uninstall", uninstallData) >>)

\* The calls of WcaDoDeferredAction: the undoing action precedes the action.
Agenda ==
    (IF installData = << >> THEN << >>
     ELSE << Entry("RollbackInstall", "uninstall", installData),
             Entry("InstallDriverPackages", "install", installData) >>)
    \o
    (IF uninstallData = << >> THEN << >>
     ELSE << Entry("RollbackUninstall", "install", uninstallData),
             Entry("UninstallDriverPackages", "uninstall", uninstallData) >>)

ScheduleNext ==
    /\ pc = "schedule"
    /\ Len(script) < Len(Agenda)
    /\ script' = Append(script, Agenda[Len(script) + 1])
    /\ UNCHANGED <<table, pc, processVars, at, undo, rolling, actionVars, reboot,
                   histories>>

ScheduleFails ==
    /\ pc = "schedule"
    /\ Len(script) < Len(Agenda)
    /\ pc' = "refused"
    /\ UNCHANGED <<table, processVars, scriptVars, actionVars, reboot, histories>>

\* ProcessPackages returns; the installer comes to execute the script.
Scheduled ==
    /\ pc = "schedule"
    /\ Len(script) = Len(Agenda)
    /\ pc' = "execute"
    /\ UNCHANGED <<table, processVars, scriptVars, actionVars, reboot, histories>>

-------------------------------------------------------------------------------
(* Windows Installer executes the script *)

\* The custom action of entry e is called.
Enter(e) ==
    /\ running' = e
    /\ queue' = e.data
    /\ bRebootNeeded' = FALSE
    /\ base' = Len(log)
    /\ pc' = "work"

\* A rollback action is not run when it is come to: it is kept for a rollback.
KeepForRollback ==
    /\ pc = "execute"
    /\ at <= Len(script)
    /\ IsRollback(script[at])
    /\ undo' = <<script[at]>> \o undo
    /\ at' = at + 1
    /\ UNCHANGED <<table, pc, processVars, script, rolling, actionVars, reboot, histories>>

RunDeferred ==
    /\ pc = "execute"
    /\ at <= Len(script)
    /\ ~IsRollback(script[at])
    /\ Enter(script[at])
    /\ at' = at + 1
    /\ UNCHANGED <<table, processVars, script, undo, rolling, reboot, histories>>

\* Any other action of the installation fails, or the user cancels it there.
OtherActionFails ==
    /\ pc = "execute"
    /\ pc' = "unwind"
    /\ rolling' = TRUE
    /\ UNCHANGED <<table, processVars, script, at, undo, actionVars, reboot, histories>>

Commit ==
    /\ pc = "execute"
    /\ at > Len(script)
    /\ pc' = "committed"
    /\ UNCHANGED <<table, processVars, scriptVars, actionVars, reboot, histories>>

RunRollback ==
    /\ pc = "unwind"
    /\ undo # << >>
    /\ Enter(Head(undo))
    /\ undo' = Tail(undo)
    /\ UNCHANGED <<table, processVars, script, at, rolling, reboot, histories>>

RolledBack ==
    /\ pc = "unwind"
    /\ undo = << >>
    /\ pc' = "rolledback"
    /\ UNCHANGED <<table, processVars, scriptVars, actionVars, reboot, histories>>

-------------------------------------------------------------------------------
(* InstallPackages and UninstallPackages *)

\* The reboot flag after a call: Install and Uninstall assign it when Init has
\* succeeded, and the flag of the operation sets it.
FlagOf(op) == IF op = "install" THEN RebootAfterInstall ELSE RebootAfterUninstall
\* Mutants: the flag is forgotten when Init succeeds; it is set by every Init.
RebootAfterDevice(before, inited, needs, flagged) == IF inited THEN needs ELSE before \/ flagged
RebootAfterInit(before, inited, needs, flagged) == before \/ inited \/ flagged
RebootAfter(before, inited, needs, flagged) == (IF inited THEN needs ELSE before) \/ flagged

\* The next item is read and its package is installed or uninstalled.  Whatever
\* comes of it, the loop goes on ("continuing anyway").
HandlePackage(inited, needs) ==
    /\ pc = "work"
    /\ queue # << >>
    /\ needs => inited
    /\ LET item == Head(queue)
           flagged == FlagOf(running.op) \in item.flags
       IN  /\ bRebootNeeded' = RebootAfter(bRebootNeeded, inited, needs, flagged)
           /\ log' = Append(log, [op |-> running.op, pkg |-> item.pkg,
                                  rolling |-> rolling, inited |-> inited,
                                  flagged |-> flagged, wants |-> needs \/ flagged])
    /\ queue' = Tail(queue)
    /\ unscanned' = TRUE
    /\ pc' = IF running.op = "install" THEN "progress" ELSE "work"
    /\ UNCHANGED <<table, processVars, scriptVars, running, base, reboot, cut>>

\* The action returns to the script, or to the rollback.
Return == pc' = IF rolling THEN "unwind" ELSE "execute"

\* The action fails: the script is rolled back; a rollback goes on regardless.
Fail == pc' = "unwind" /\ rolling' = TRUE

\* An item cannot be read.
ReadFails ==
    /\ pc = "work"
    /\ queue # << >>
    /\ Fail
    /\ cut' = (cut \/ rolling)
    /\ UNCHANGED <<table, processVars, script, at, undo, actionVars, reboot, log,
                   unscanned>>

\* WcaProgressMessage
ProgressOk ==
    /\ pc = "progress"
    /\ pc' = "work"
    /\ UNCHANGED <<table, processVars, scriptVars, actionVars, reboot, histories>>

\* The user has cancelled.  A rollback cannot be cancelled.
ProgressCancelled ==
    /\ pc = "progress"
    /\ ~rolling
    /\ Fail
    /\ UNCHANGED <<table, processVars, script, at, undo, actionVars, reboot, histories>>

\* Mutant: the rescan is called only when a reboot is needed.
ActionSucceedsUnscanned ==
    /\ pc = "work"
    /\ queue = << >>
    /\ reboot' = (reboot \/ bRebootNeeded)
    /\ unscanned' = (unscanned /\ ~bRebootNeeded)
    /\ Return
    /\ UNCHANGED <<table, processVars, scriptVars, actionVars, log, cut>>

\* Every item is handled: the reboot is asked for and ScanForHardwareChanges is called,
\* whose failure is ignored.
ActionSucceeds ==
    /\ pc = "work"
    /\ queue = << >>
    /\ reboot' = (reboot \/ bRebootNeeded)
    /\ unscanned' = FALSE
    /\ Return
    /\ UNCHANGED <<table, processVars, scriptVars, actionVars, log, cut>>

-------------------------------------------------------------------------------
Stopped == pc \in {"refused", "committed", "rolledback"} /\ UNCHANGED vars

ProcessPackages == FetchRow \/ ProcessFails \/ TableRead \/ ScheduleNext
                   \/ ScheduleFails \/ Scheduled
Installer == KeepForRollback \/ RunDeferred \/ OtherActionFails \/ Commit
             \/ RunRollback \/ RolledBack
CustomAction == \/ \E inited, needs \in BOOLEAN : HandlePackage(inited, needs)
                \/ ReadFails \/ ProgressOk \/ ProgressCancelled \/ ActionSucceeds

Next == ProcessPackages \/ Installer \/ CustomAction \/ Stopped

Spec == Init /\ [][Next]_vars

-------------------------------------------------------------------------------
(* Properties *)

Calls == [op : {"install", "uninstall"}, pkg : Packages, rolling : BOOLEAN,
          inited : BOOLEAN, flagged : BOOLEAN, wants : BOOLEAN]

\* Every variable keeps its type.
TypeOK ==
    /\ table \in Tables
    /\ pc \in Places
    /\ next \in 1..(Len(table) + 1)
    /\ installData \in Seq(Items) /\ uninstallData \in Seq(Items)
    /\ queue \in Seq(Items)
    /\ script \in Seq(Entries) /\ undo \in Seq(Entries)
    /\ running \in Entries \cup {NoEntry}
    /\ at \in 1..(Len(script) + 1)
    /\ log \in Seq(Calls)
    /\ base \in 0..Len(log)
    /\ {rolling, bRebootNeeded, reboot, unscanned, cut} \subseteq BOOLEAN

\* The rows of the table that ask for op, and the calls of op but those of a rollback.
RowsOf(op) == {r \in DOMAIN table : table[r].todo = op}
CallsOf(op) == {k \in DOMAIN log : log[k].op = op /\ ~log[k].rolling}

\* Each call k of op is for row f[k], in the order of the rows, and none is skipped.
InOrder(op, f) ==
    /\ \A k \in CallsOf(op) : log[k].pkg = table[f[k]].pkg
    /\ \A j, k \in CallsOf(op) : j < k => f[j] < f[k]
    /\ \A k \in CallsOf(op) : \A r \in RowsOf(op) :
           r < f[k] => \E j \in CallsOf(op) : f[j] = r

\* The packages are installed and uninstalled in the order of column Sequence,
\* none twice and none that the table did not ask for; a committed installation
\* has handled them all, through two encodings and two runs of the DLL.
SequenceOrder ==
    \A op \in {"install", "uninstall"} :
        \E f \in [CallsOf(op) -> RowsOf(op)] :
            /\ InOrder(op, f)
            /\ pc = "committed" => \A r \in RowsOf(op) : \E k \in CallsOf(op) : f[k] = r

\* Call k was followed by the inverse call, made by a rollback action.
Undone(k) == \E m \in (k + 1)..Len(log) :
                 /\ log[m].rolling
                 /\ log[m].pkg = log[k].pkg
                 /\ log[m].op # log[k].op

\* When an installation has been rolled back, every package it had handled, up to
\* the very one at which it was cancelled, was handed to the inverse operation
\* afterwards, unless a rollback action itself was cut short (lines 201-215).
UndoComplete ==
    pc = "rolledback" /\ ~cut =>
        \A k \in DOMAIN log : ~log[k].rolling => Undone(k)

\* What the reboot variable of a running action stands for: a package wanted a
\* reboot, and no package whose Init succeeded after it did without (lines 259,
\* 266-269 and 399).  This is less than what the flags say: see
\* RebootFlagHonoured.
RebootFlagExact ==
    pc \in {"work", "progress"} =>
        (bRebootNeeded <=>
            \E k \in (base + 1)..Len(log) :
                /\ log[k].wants
                /\ \A m \in (k + 1)..Len(log) : log[m].inited => log[m].wants)

\* The installation does not ask for a reboot that no package wanted, although
\* the variable is carried over from package to package and from list to list.
RebootOnlyIfWanted == reboot => \E k \in DOMAIN log : log[k].wants

\* ScanForHardwareChanges was called after the last package that was handled,
\* whenever the installation is committed (lines 277 and 333).
CommittedScanned == pc = "committed" => ~unscanned

\* REBOOT_AFTER_INSTALL and REBOOT_AFTER_UNINSTALL (stdafx.h, lines 38-39): once
\* a package that carries the flag has been handled, a reboot is asked for.
RebootFlagHonoured ==
    pc = "committed" /\ (\E k \in DOMAIN log : log[k].flagged) => reboot

-------------------------------------------------------------------------------
(* The inductive invariant of the proofs *)

Working == pc \in {"work", "progress"}

\* The rollback is under way from the first failure on, and only then.
RollInv ==
    /\ pc \in {"process", "schedule", "execute", "committed", "refused"} => ~rolling
    /\ pc \in {"unwind", "rolledback"} => rolling
    /\ pc = "rolledback" => undo = << >>
    /\ cut => rolling
    /\ Working => running \in Entries

\* The script is what ProcessPackages decided; each action in it comes right after
\* the one that undoes it.
ScriptInv ==
    /\ pc = "process" => script = << >>
    /\ pc = "schedule" => \A j \in DOMAIN script : script[j] = Agenda[j]
    /\ \A j \in DOMAIN script :
           ~IsRollback(script[j]) =>
               /\ j - 1 \in DOMAIN script
               /\ IsRollback(script[j - 1])
               /\ script[j - 1].op # script[j].op
               /\ script[j - 1].data = script[j].data

\* Until something fails, the rollback actions come to so far are all kept, the one
\* that undoes the running action among them.
KeptInv ==
    ~rolling =>
        /\ \A j \in DOMAIN script :
               j < at /\ IsRollback(script[j]) =>
                   \E u \in DOMAIN undo : undo[u] = script[j]
        /\ Working =>
               \E u \in DOMAIN undo :
                   undo[u].op # running.op /\ undo[u].data = running.data

\* The items still to read are items of the running action.
QueueInv ==
    Working => \A i \in DOMAIN queue :
                   \E j \in DOMAIN running.data : running.data[j] = queue[i]

\* A call is to be undone: its inverse is kept, is running, or has been made.
ToUndo(k) == \E u \in DOMAIN undo :
                 /\ undo[u].op # log[k].op
                 /\ \E i \in DOMAIN undo[u].data : undo[u].data[i].pkg = log[k].pkg
BeingUndone(k) == /\ rolling /\ Working
                  /\ running.op # log[k].op
                  /\ \E i \in DOMAIN queue : queue[i].pkg = log[k].pkg
UndoInv ==
    ~cut => \A k \in DOMAIN log :
                ~log[k].rolling => ToUndo(k) \/ BeingUndone(k) \/ Undone(k)

\* A reboot asked for now or later has a package that wanted it.
WantedInv == bRebootNeeded \/ reboot => \E k \in DOMAIN log : log[k].wants

\* Between two actions of an installation that goes well all is scanned.
ScanInv == pc \in {"process", "schedule", "execute", "committed"} => ~unscanned

IInv == /\ TypeOK
        /\ RollInv
        /\ ScriptInv
        /\ KeptInv
        /\ QueueInv
        /\ UndoInv
        /\ RebootFlagExact
        /\ WantedInv
        /\ ScanInv

(* With it, the one of the order of the packages *)

\* A list has the rows of its operation that were fetched, in their order.
Data(op) == IF op = "install" THEN installData ELSE uninstallData
FetchedInto(op, g) ==
    /\ \A i \in DOMAIN Data(op) : g[i] < next /\ Data(op)[i] = ItemOf(table[g[i]])
    /\ \A i, j \in DOMAIN Data(op) : i < j => g[i] < g[j]
    /\ \A r \in RowsOf(op) : r < next => \E i \in DOMAIN Data(op) : g[i] = r
DataInv ==
    /\ \A op \in {"install", "uninstall"} :
           \E g \in [DOMAIN Data(op) -> RowsOf(op)] : FetchedInto(op, g)
    /\ pc \notin {"process", "refused"} => next > Len(table)

\* The script is the agenda, when it is complete.
AgendaInv ==
    /\ pc \in {"process", "schedule", "refused"} => at = 1
    /\ pc \notin {"process", "refused"} => \A j \in DOMAIN script : script[j] = Agenda[j]
    /\ pc \notin {"process", "refused"} => Len(script) <= Len(Agenda)
    /\ pc \notin {"process", "schedule", "refused"} => Len(script) = Len(Agenda)
    /\ pc \in {"process", "schedule", "refused"} => log = << >>
    /\ pc = "committed" => at > Len(script)

\* A running action of the script is the entry just passed; it has still to read the
\* items after those it has made a call for.
Forward == Working /\ ~rolling
RunInv ==
    Forward =>
        /\ at - 1 \in DOMAIN script /\ running = script[at - 1] /\ ~IsRollback(running)
        /\ Len(log) - base <= Len(running.data)
        /\ Len(queue) = Len(running.data) - (Len(log) - base)
        /\ \A i \in 1..Len(queue) : queue[i] = running.data[Len(log) - base + i]

\* The calls of op are the n calls after call number c, for the first n items of its
\* list: none before its action is come to, all after that.
Does(j, op) == ~IsRollback(script[j]) /\ script[j].op = op
Called(op, c, n) ==
    /\ CallsOf(op) = (c + 1)..(c + n)
    /\ n <= Len(Data(op))
    /\ \A i \in 1..n : log[c + i].pkg = Data(op)[i].pkg
    /\ (\A j \in DOMAIN script : Does(j, op) => j >= at) => n = 0
    /\ (\E j \in DOMAIN script : Does(j, op) /\ j < at)
       /\ (pc \in {"execute", "committed"} \/ (Forward /\ running.op # op))
           => n = Len(Data(op))
    /\ Forward /\ running.op = op => c = base /\ c + n = Len(log)
CallsInv == \A op \in {"install", "uninstall"} : \E c, n \in Nat : Called(op, c, n)

OrderInv == DataInv /\ AgendaInv /\ RunInv /\ CallsInv
===============================================================================
