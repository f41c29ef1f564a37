--------------------------- MODULE PackageOrderProofs ---------------------------
(***************************************************************************)
(* The order of the packages in PackageQueue, for every table: what the    *)
(* rows, the lists of CustomActionData, the script and the calls have to   *)
(* do with one another.                                                    *)
(***************************************************************************)
EXTENDS PackageQueueProofs

Ops == {"install", "uninstall"}

-------------------------------------------------------------------------------
(* From the table to the lists *)

\* Only FetchRow touches the lists; the table stays.
LEMMA ListsFrame ==
    ASSUME [Next]_vars
    PROVE  /\ table' = table
           /\ FetchRow \/ UNCHANGED <<next, installData, uninstallData>>
<1> USE DEF processVars, scriptVars, actionVars, histories
<1>1. CASE ProcessPackages
    BY <1>1 DEF ProcessPackages, FetchRow, ProcessFails, TableRead, ScheduleNext,
                ScheduleFails, Scheduled
<1>2. CASE Installer
    BY <1>2 DEF Installer, KeepForRollback, RunDeferred, OtherActionFails, Commit,
                RunRollback, RolledBack, Enter
<1>3. CASE CustomAction
    BY <1>3 DEF CustomAction, HandlePackage, ReadFails, Fail, ProgressOk,
                ProgressCancelled, ActionSucceeds, Return
<1>4. CASE UNCHANGED vars
    BY <1>4 DEF vars
<1> QED BY <1>1, <1>2, <1>3, <1>4 DEF Next, Stopped

\* The place only moves on.
LEMMA PlaceFrame ==
    ASSUME RollInv, [Next]_vars
    PROVE  /\ pc' = "process" => pc = "process"
           /\ pc' = "schedule" => pc = "schedule" \/ (TableRead /\ next > Len(table))
           /\ pc = "process" => pc' \in {"process", "schedule", "refused"}
           /\ pc' \in {"process", "schedule", "refused"} =>
                  pc \in {"process", "schedule", "refused"}
           /\ pc = "refused" => pc' = "refused"
           /\ pc = "schedule" => pc' \in {"schedule", "execute", "refused"}
<1> USE DEF Working
<1>1. CASE ProcessPackages
    BY <1>1 DEF ProcessPackages, FetchRow, ProcessFails, TableRead, ScheduleNext,
                ScheduleFails, Scheduled
<1>2. CASE Installer
    BY <1>2 DEF Installer, KeepForRollback, RunDeferred, OtherActionFails, Commit,
                RunRollback, RolledBack, Enter
<1>3. CASE CustomAction
    BY <1>3 DEF CustomAction, HandlePackage, ReadFails, Fail, ProgressOk,
                ProgressCancelled, ActionSucceeds, Return
<1>4. CASE UNCHANGED vars
    BY <1>4 DEF vars
<1> QED BY <1>1, <1>2, <1>3, <1>4 DEF Next, Stopped

\* The fetched row goes to the end of the list of its operation, if it has one.
LEMMA FetchedFacts ==
    ASSUME TypeOK, FetchRow, NEW op \in Ops
    PROVE  /\ next \in DOMAIN table
           /\ ItemOf(table[next]) \in Items
           /\ Data(op) \in Seq(Items)
           /\ Data(op)' = IF table[next].todo = op
                          THEN Append(Data(op), ItemOf(table[next])) ELSE Data(op)
<1>1. table \in Seq(Rows)
    BY TablesAssumption DEF TypeOK
<1>2. next \in DOMAIN table /\ table[next] \in Rows
    BY <1>1 DEF FetchRow, TypeOK
<1>3. ItemOf(table[next]) \in Items
    BY <1>2 DEF ItemOf, Rows, Items
<1>4. Data(op) \in Seq(Items)
    BY DEF Data, TypeOK
<1> QED BY <1>2, <1>3, <1>4 DEF FetchRow, Data, Ops

\* The lists have the rows in their order.
LEMMA DataStep ==
    ASSUME TypeOK, RollInv, DataInv, [Next]_vars
    PROVE  DataInv'
<1>1. table' = table /\ RowsOf("install")' = RowsOf("install")
      /\ RowsOf("uninstall")' = RowsOf("uninstall")
    BY ListsFrame DEF RowsOf
<1>2. ASSUME NEW op \in Ops
      PROVE  \E g \in [DOMAIN Data(op)' -> RowsOf(op)'] : FetchedInto(op, g)'
    <2>1. PICK g \in [DOMAIN Data(op) -> RowsOf(op)] : FetchedInto(op, g)
        BY DEF DataInv, Ops
    <2>2. RowsOf(op)' = RowsOf(op)
        BY <1>1 DEF Ops
    <2>3. next \in Nat
        BY TablesAssumption DEF TypeOK
    <2>4. CASE FetchRow /\ table[next].todo = op
        <3> DEFINE d == Data(op)
                   h == [i \in 1..(Len(d) + 1) |-> IF i <= Len(d) THEN g[i] ELSE next]
        <3>1. d \in Seq(Items) /\ next \in RowsOf(op) /\ next' = next + 1
            BY <2>4, FetchedFacts DEF RowsOf, FetchRow
        <3>2. /\ Data(op)' = Append(d, ItemOf(table[next]))
              /\ ItemOf(table[next]) \in Items
            BY <2>4, FetchedFacts
        <3>3. /\ DOMAIN Data(op)' = 1..(Len(d) + 1) /\ DOMAIN d = 1..Len(d)
              /\ \A i \in 1..Len(d) : Data(op)'[i] = d[i]
              /\ Data(op)'[Len(d) + 1] = ItemOf(table[next])
              /\ Len(d) \in Nat
            BY <3>1, <3>2, AppendFacts
        <3>4. FetchedInto(op, g) /\ g \in [1..Len(d) -> RowsOf(op)]
            BY <2>1, <3>3
        <3>5. h \in [DOMAIN Data(op)' -> RowsOf(op)']
            BY <2>2, <3>1, <3>3, <3>4
        <3>6. \A i \in 1..Len(d) : g[i] \in Nat /\ g[i] < next
            <4>1. RowsOf(op) \subseteq Nat
                BY TablesAssumption DEF RowsOf, TypeOK
            <4>2. \A i \in 1..Len(d) : g[i] < next
                BY <3>3, <3>4 DEF FetchedInto
            <4> QED BY <3>4, <4>1, <4>2
        <3>7. \A i \in 1..(Len(d) + 1) :
                  h[i] < next' /\ Data(op)'[i] = ItemOf(table[h[i]])
            BY <2>3, <3>1, <3>3, <3>4, <3>6 DEF FetchedInto
        <3>8. \A i, j \in 1..(Len(d) + 1) : i < j => h[i] < h[j]
            <4>1. \A i, j \in 1..Len(d) : i < j => g[i] < g[j]
                BY <3>3, <3>4 DEF FetchedInto
            <4>2. ASSUME NEW i \in 1..(Len(d) + 1), NEW j \in 1..(Len(d) + 1), i < j
                  PROVE  h[i] < h[j]
                <5>1. i \in 1..Len(d) /\ h[i] = g[i]
                    BY <3>3, <4>2
                <5>2. CASE j \in 1..Len(d)
                    BY <4>1, <4>2, <5>1, <5>2
                <5>3. CASE j = Len(d) + 1
                    BY <3>3, <3>6, <5>1, <5>3
                <5> QED BY <3>3, <4>2, <5>2, <5>3
            <4> QED BY <4>2
        <3>9. \A r \in RowsOf(op) : r < next' => \E i \in 1..(Len(d) + 1) : h[i] = r
            <4> SUFFICES ASSUME NEW r \in RowsOf(op), r < next'
                         PROVE  \E i \in 1..(Len(d) + 1) : h[i] = r
                OBVIOUS
            <4>1. r \in Nat
                BY TablesAssumption DEF RowsOf, TypeOK
            <4>2. CASE r = next
                <5>1. Len(d) + 1 \in 1..(Len(d) + 1) /\ h[Len(d) + 1] = next
                    BY <3>3
                <5> QED BY <4>2, <5>1
            <4>3. CASE r < next
                <5>1. PICK i \in 1..Len(d) : g[i] = r
                    BY <3>3, <3>4, <4>3 DEF FetchedInto
                <5>2. i \in 1..(Len(d) + 1) /\ h[i] = r
                    BY <3>3, <5>1
                <5> QED BY <5>2
            <4> QED BY <2>3, <3>1, <4>1, <4>2, <4>3
        <3> HIDE DEF h, d
        <3> QED BY <1>1, <2>2, <3>3, <3>5, <3>7, <3>8, <3>9 DEF FetchedInto
    <2>5. CASE FetchRow /\ table[next].todo # op
        <3>1. Data(op)' = Data(op) /\ next' = next + 1
            BY <2>5, FetchedFacts DEF FetchRow
        <3>2. \A r \in RowsOf(op) : r < next' => r < next
            BY <2>3, <2>5, <3>1, TablesAssumption DEF RowsOf, TypeOK
        <3>3. \A i \in DOMAIN Data(op) : g[i] < next'
            BY <2>1, <2>3, <3>1, TablesAssumption DEF FetchedInto, RowsOf, TypeOK
        <3> QED BY <1>1, <2>1, <2>2, <3>1, <3>2, <3>3 DEF FetchedInto
    <2>6. CASE ~FetchRow
        <3>1. UNCHANGED <<next, installData, uninstallData>>
            BY <2>6, ListsFrame
        <3> QED BY <1>1, <2>1, <2>2, <3>1 DEF FetchedInto, Data
    <2> QED BY <2>4, <2>5, <2>6
<1>3. pc' \notin {"process", "refused"} => next' > Len(table')
    <2>1. CASE FetchRow
        BY <2>1 DEF FetchRow
    <2>2. CASE ~FetchRow
        BY <1>1, <2>2, ListsFrame, PlaceFrame DEF DataInv
    <2> QED BY <2>1, <2>2
<1> QED BY <1>2, <1>3 DEF DataInv, Ops

-------------------------------------------------------------------------------
(* From the lists to the script *)

\* The agenda has one action for a list that is not empty, and it carries the list.
LEMMA AgendaOps ==
    ASSUME installData \in Seq(Items), uninstallData \in Seq(Items), NEW op \in Ops
    PROVE  /\ \A j \in DOMAIN Agenda :
                  ~IsRollback(Agenda[j]) /\ Agenda[j].op = op => Agenda[j].data = Data(op)
           /\ \A i, j \in DOMAIN Agenda :
                  /\ ~IsRollback(Agenda[i]) /\ Agenda[i].op = op
                  /\ ~IsRollback(Agenda[j]) /\ Agenda[j].op = op
                  => i = j
           /\ Data(op) # << >> =>
                  \E j \in DOMAIN Agenda : ~IsRollback(Agenda[j]) /\ Agenda[j].op = op
<1> DEFINE ri == Entry("RollbackInstall", "uninstall", installData)
           id == Entry("InstallDriverPackages", "install", installData)
           ru == Entry("RollbackUninstall", "install", uninstallData)
           ud == Entry("UninstallDriverPackages", "uninstall", uninstallData)
<1>1. ri \in Entries /\ id \in Entries /\ ru \in Entries /\ ud \in Entries
    BY EntryFacts
<1>2. /\ IsRollback(ri) /\ IsRollback(ru) /\ ~IsRollback(id) /\ ~IsRollback(ud)
      /\ id.op = "install" /\ ud.op = "uninstall"
      /\ id.data = Data("install") /\ ud.data = Data("uninstall")
    BY DEF Entry, IsRollback, Data
<1>3. Agenda = (IF installData = << >> THEN << >> ELSE <<ri, id>>)
               \o (IF uninstallData = << >> THEN << >> ELSE <<ru, ud>>)
    BY DEF Agenda
<1>4. /\ op = "install" \/ op = "uninstall"
      /\ Data("install") = installData /\ Data("uninstall") = uninstallData
    BY DEF Ops, Data
<1> HIDE DEF ri, id, ru, ud
<1>5. CASE installData = << >> /\ uninstallData = << >>
    <2>1. Agenda = << >>
        BY <1>3, <1>5
    <2> QED BY <1>4, <1>5, <2>1
<1>6. CASE installData # << >> /\ uninstallData = << >>
    <2>1. Agenda = <<ri, id>>
        BY <1>1, <1>3, <1>6
    <2> QED BY <1>1, <1>2, <1>4, <1>6, <2>1
<1>7. CASE installData = << >> /\ uninstallData # << >>
    <2>1. Agenda = <<ru, ud>>
        BY <1>1, <1>3, <1>7
    <2> QED BY <1>1, <1>2, <1>4, <1>7, <2>1
<1>8. CASE installData # << >> /\ uninstallData # << >>
    <2>1. Agenda = <<ri, id>> \o <<ru, ud>>
        BY <1>3, <1>8
    <2>2. /\ Agenda \in Seq(Entries) /\ Len(Agenda) = 4
          /\ Agenda[1] = ri /\ Agenda[2] = id /\ Agenda[3] = ru /\ Agenda[4] = ud
        BY <1>1, <2>1, PairsFacts
    <2>3. DOMAIN Agenda = {1, 2, 3, 4}
        BY <2>2
    <2> QED BY <1>2, <1>4, <2>2, <2>3
<1> QED BY <1>5, <1>6, <1>7, <1>8

\* So has the script, as soon as it is being written.
LEMMA ScriptOps ==
    ASSUME TypeOK, AgendaInv, pc \notin {"process", "refused"}, NEW op \in Ops
    PROVE  /\ \A j \in DOMAIN script : Does(j, op) => script[j].data = Data(op)
           /\ \A i, j \in DOMAIN script : Does(i, op) /\ Does(j, op) => i = j
<1>1. installData \in Seq(Items) /\ uninstallData \in Seq(Items) /\ script \in Seq(Entries)
    BY DEF TypeOK
<1>2. \A j \in DOMAIN script : j \in DOMAIN Agenda /\ script[j] = Agenda[j]
    <2>1. Len(script) <= Len(Agenda) /\ \A j \in DOMAIN script : script[j] = Agenda[j]
        BY DEF AgendaInv
    <2>2. Agenda \in Seq(Entries)
        BY <1>1, AgendaFacts
    <2> QED BY <1>1, <2>1, <2>2
<1> QED BY <1>1, <1>2, AgendaOps DEF Does

\* Only ScheduleNext touches the script, and only when the list is come to an entry
\* does the installer go on in it.
LEMMA ScriptFrame ==
    ASSUME [Next]_vars
    PROVE  /\ ScheduleNext \/ script' = script
           /\ KeepForRollback \/ RunDeferred \/ at' = at
           /\ (\E inited, needs \in BOOLEAN : HandlePackage(inited, needs)) \/ log' = log
           /\ pc' = "schedule" => pc = "schedule" \/ TableRead
           /\ pc' = "committed" => pc = "committed" \/ Commit
           /\ pc = "schedule" => Scheduled \/ pc' \in {"schedule", "refused"}
<1> USE DEF processVars, scriptVars, actionVars, histories
<1>1. CASE ProcessPackages
    BY <1>1 DEF ProcessPackages, FetchRow, ProcessFails, TableRead, ScheduleNext,
                ScheduleFails, Scheduled
<1>2. CASE Installer
    BY <1>2 DEF Installer, KeepForRollback, RunDeferred, OtherActionFails, Commit,
                RunRollback, RolledBack, Enter
<1>3. CASE CustomAction
    BY <1>3 DEF CustomAction, HandlePackage, ReadFails, Fail, ProgressOk,
                ProgressCancelled, ActionSucceeds, Return
<1>4. CASE UNCHANGED vars
    BY <1>4 DEF vars
<1> QED BY <1>1, <1>2, <1>3, <1>4 DEF Next, Stopped

\* The script is the agenda.
LEMMA AgendaStep ==
    ASSUME TypeOK, RollInv, ScriptInv, AgendaInv, [Next]_vars
    PROVE  AgendaInv'
<1> DEFINE Listed == /\ \A j \in DOMAIN script : script[j] = Agenda[j]
                     /\ Len(script) <= Len(Agenda)
<1>1. /\ Agenda \in Seq(Entries) /\ Len(Agenda) \in Nat
      /\ script \in Seq(Entries) /\ Len(script) \in Nat
    BY AgendaFacts DEF TypeOK
<1>2. pc \notin {"process", "refused"} => Agenda' = Agenda
    BY ListsFrame DEF FetchRow, Agenda
<1>3. pc' \in {"process", "schedule", "refused"} => at' = 1
    BY PlaceFrame, ScriptFrame DEF AgendaInv, KeepForRollback, RunDeferred
<1>4. pc' \notin {"process", "refused"} => Listed'
    <2> SUFFICES ASSUME pc' \notin {"process", "refused"} PROVE Listed'
        OBVIOUS
    <2>1. CASE TableRead
        <3>1. script' = << >>
            BY <2>1, ScriptFrame DEF TableRead, ScheduleNext, ScriptInv
        <3>2. Len(Agenda') \in Nat
            BY <2>1, <1>1 DEF TableRead, processVars, Agenda
        <3> QED BY <3>1, <3>2
    <2>2. CASE ~TableRead
        <3>1. pc \notin {"process", "refused"} /\ Listed /\ Agenda' = Agenda
            BY <1>2, <2>2, PlaceFrame, ScriptFrame DEF AgendaInv
        <3>2. CASE ScheduleNext
            <4>1. /\ script' = Append(script, Agenda[Len(script) + 1])
                  /\ Len(script) < Len(Agenda)
                BY <3>2 DEF ScheduleNext
            <4>2. Agenda[Len(script) + 1] \in Entries
                BY <1>1, <4>1
            <4>3. /\ Len(script') = Len(script) + 1
                  /\ DOMAIN script' = 1..(Len(script) + 1)
                  /\ \A j \in 1..Len(script) : script'[j] = script[j]
                  /\ script'[Len(script) + 1] = Agenda[Len(script) + 1]
                BY <1>1, <4>1, <4>2, AppendFacts
            <4> QED BY <1>1, <3>1, <4>1, <4>3
        <3>3. CASE ~ScheduleNext
            BY <3>1, <3>3, ScriptFrame
        <3> QED BY <3>2, <3>3
    <2> QED BY <2>1, <2>2
<1>5. pc' \notin {"process", "schedule", "refused"} => Len(script') = Len(Agenda')
    <2>1. CASE pc = "schedule"
        BY <1>2, <2>1, ScriptFrame DEF Scheduled, ScheduleNext, scriptVars
    <2>2. CASE pc # "schedule"
        BY <1>2, <2>2, PlaceFrame, ScriptFrame DEF AgendaInv, ScheduleNext
    <2> QED BY <2>1, <2>2
<1>6. pc' \in {"process", "schedule", "refused"} => log' = << >>
    BY PlaceFrame, ScriptFrame DEF AgendaInv, HandlePackage
<1>7. pc' = "committed" => at' > Len(script')
    BY ScriptFrame DEF AgendaInv, Commit, KeepForRollback, RunDeferred, ScheduleNext,
                       scriptVars
<1> HIDE DEF Listed
<1> QED BY <1>3, <1>4, <1>5, <1>6, <1>7 DEF AgendaInv, Listed

-------------------------------------------------------------------------------
(* From the script to the calls *)

\* An action of the script begins with RunDeferred; RunRollback is of a rollback.
LEMMA ForwardFrame ==
    ASSUME RollInv, [Next]_vars, Forward'
    PROVE  \/ RunDeferred
           \/ (\E inited, needs \in BOOLEAN : HandlePackage(inited, needs)) /\ Forward
           \/ Forward /\ UNCHANGED <<log, script, at, running, queue, base>>
<1> USE DEF processVars, scriptVars, actionVars, histories, Forward, Working, RollInv
<1>1. CASE ProcessPackages
    BY <1>1 DEF ProcessPackages, FetchRow, ProcessFails, TableRead, ScheduleNext,
                ScheduleFails, Scheduled
<1>2. CASE Installer
    BY <1>2 DEF Installer, KeepForRollback, RunDeferred, OtherActionFails, Commit,
                RunRollback, RolledBack, Enter
<1>3. CASE CustomAction
    BY <1>3 DEF CustomAction, HandlePackage, ReadFails, Fail, ProgressOk,
                ProgressCancelled, ActionSucceeds, Return
<1>4. CASE UNCHANGED vars
    BY <1>4 DEF vars
<1> QED BY <1>1, <1>2, <1>3, <1>4 DEF Next, Stopped

\* The running action reads its list from the front, one item per call.
LEMMA RunStep ==
    ASSUME TypeOK, RollInv, RunInv, [Next]_vars
    PROVE  RunInv'
<1> SUFFICES ASSUME Forward' PROVE RunInv'
    BY DEF RunInv
<1>1. CASE RunDeferred
    <2>1. /\ at \in DOMAIN script /\ script[at] \in Entries
          /\ script' = script /\ at' = at + 1 /\ log' = log /\ base' = Len(log)
          /\ running' = script[at] /\ queue' = script[at].data
          /\ ~IsRollback(script[at])
        BY <1>1 DEF RunDeferred, Enter, histories, TypeOK
    <2>2. script[at].data \in Seq(Items) /\ Len(log) \in Nat /\ at \in Nat
        BY <2>1 DEF Entries, TypeOK
    <2>3. Len(log') - base' = 0 /\ at' - 1 = at
        BY <2>1, <2>2
    <2> QED BY <2>1, <2>2, <2>3 DEF RunInv
<1>2. ASSUME NEW inited \in BOOLEAN, NEW needs \in BOOLEAN,
             HandlePackage(inited, needs), Forward
      PROVE  RunInv'
    <2>1. /\ UNCHANGED <<script, at, running, base>>
          /\ queue \in Seq(Items) /\ queue # << >> /\ queue' = Tail(queue)
        BY <1>2 DEF HandlePackage, scriptVars, TypeOK
    <2>2. Len(log') = Len(log) + 1
        BY <1>2, CallFacts
    <2>3. /\ Len(queue') = Len(queue) - 1
          /\ \A i \in 1..Len(queue') : queue'[i] = queue[i + 1]
        BY <2>1, HeadTailFacts
    <2>4. /\ Len(queue) \in Nat /\ Len(log) \in Nat /\ base \in Nat
          /\ Len(log) - base \in Nat /\ Len(queue) >= 1
        BY <2>1 DEF TypeOK
    <2>5. running \in Entries /\ Len(running.data) \in Nat
        BY <1>2 DEF RollInv, Forward, Entries
    <2>6. /\ Len(queue) = Len(running.data) - (Len(log) - base)
          /\ \A i \in 1..Len(queue) : queue[i] = running.data[Len(log) - base + i]
          /\ at - 1 \in DOMAIN script /\ running = script[at - 1] /\ ~IsRollback(running)
        BY <1>2 DEF RunInv
    <2>7. Len(log') - base' <= Len(running'.data)
          /\ Len(queue') = Len(running'.data) - (Len(log') - base')
        <3>1. running' = running /\ base' = base
            BY <2>1
        <3>2. Len(log') = Len(log) + 1 /\ Len(queue') = Len(queue) - 1
            BY <2>2, <2>3
        <3>3. Len(queue) = Len(running.data) - (Len(log) - base)
            BY <2>6
        <3> QED BY <2>4, <2>5, <3>1, <3>2, <3>3
    <2>8. ASSUME NEW i \in 1..Len(queue')
          PROVE  queue'[i] = running'.data[Len(log') - base' + i]
        <3>1. i + 1 \in 1..Len(queue) /\ queue'[i] = queue[i + 1]
            BY <2>3, <2>4
        <3>2. Len(log) - base + (i + 1) = Len(log') - base' + i
            BY <2>1, <2>2, <2>4
        <3> QED BY <2>1, <2>6, <3>1, <3>2
    <2> QED BY <2>1, <2>6, <2>7, <2>8 DEF RunInv
<1>3. CASE Forward /\ UNCHANGED <<log, script, at, running, queue, base>>
    BY <1>3 DEF RunInv
<1> QED BY <1>1, <1>2, <1>3, ForwardFrame

\* The calls of op stay what they are when none is made and none of its items is
\* passed over.
LEMMA CalledStays ==
    ASSUME NEW op \in Ops, NEW c \in Nat, NEW n \in Nat, Called(op, c, n),
           CallsOf(op)' = CallsOf(op), \A k \in CallsOf(op) : log'[k] = log[k],
           script' = script, at' = at, Data(op)' = Data(op),
           pc' \in {"execute", "committed"} \/ (Forward' /\ running'.op # op)
               => \/ pc \in {"execute", "committed"}
                  \/ Forward /\ running.op # op
                  \/ n = Len(Data(op)),
           Forward' /\ running'.op = op =>
               Forward /\ running.op = op /\ base' = base /\ Len(log') = Len(log)
    PROVE  Called(op, c, n)'
<1>1. /\ CallsOf(op)' = (c + 1)..(c + n) /\ n <= Len(Data(op)')
      /\ (\A j \in DOMAIN script' : Does(j, op)' => j >= at') => n = 0
    BY DEF Called, Does
<1>2. \A i \in 1..n : log'[c + i].pkg = Data(op)'[i].pkg
    <2> SUFFICES ASSUME NEW i \in 1..n PROVE log'[c + i].pkg = Data(op)'[i].pkg
        OBVIOUS
    <2>1. c + i \in CallsOf(op)
        BY DEF Called
    <2> QED BY <2>1 DEF Called
<1>3. (\E j \in DOMAIN script' : Does(j, op)' /\ j < at')
      /\ (pc' \in {"execute", "committed"} \/ (Forward' /\ running'.op # op))
          => n = Len(Data(op)')
    BY DEF Called, Does
<1>4. Forward' /\ running'.op = op => c = base' /\ c + n = Len(log')
    BY DEF Called
<1> QED BY <1>1, <1>2, <1>3, <1>4 DEF Called

\* Before there is a script no package has been handled.
LEMMA CallsNone ==
    ASSUME NEW op \in Ops, Data(op)' \in Seq(Items), log' = << >>, at' = 1,
           script' \in Seq(Entries), ~Forward'
    PROVE  Called(op, 0, 0)'
<1>1. CallsOf(op)' = {} /\ (0 + 1)..(0 + 0) = {} /\ 0 <= Len(Data(op)')
    BY DEF CallsOf
<1>2. ~\E j \in DOMAIN script' : j < at'
    OBVIOUS
<1> QED BY <1>1, <1>2 DEF Called

\* The calls of op when one call is made.
LEMMA CallsAppend ==
    ASSUME TypeOK, RollInv, NEW op \in Ops, NEW inited \in BOOLEAN, NEW needs \in BOOLEAN,
           HandlePackage(inited, needs)
    PROVE  /\ \A k \in CallsOf(op) : log'[k] = log[k]
           /\ CallsOf(op)' = IF running.op = op /\ ~rolling
                             THEN CallsOf(op) \cup {Len(log) + 1} ELSE CallsOf(op)
<1>1. /\ log \in Seq(Calls) /\ log' \in Seq(Calls) /\ Len(log') = Len(log) + 1
      /\ \A k \in 1..Len(log) : log'[k] = log[k]
      /\ log'[Len(log) + 1].op = running.op /\ log'[Len(log) + 1].rolling = rolling
    BY CallFacts DEF TypeOK
<1>2. DOMAIN log = 1..Len(log) /\ DOMAIN log' = (1..Len(log)) \cup {Len(log) + 1}
      /\ Len(log) + 1 \notin 1..Len(log)
    BY <1>1
<1> QED BY <1>1, <1>2 DEF CallsOf

\* A call of the running action is the next of its operation.
LEMMA CallForward ==
    ASSUME TypeOK, RollInv, AgendaInv, RunInv, NEW op \in Ops, NEW c \in Nat, NEW n \in Nat,
           Called(op, c, n), [Next]_vars, Forward, running.op = op,
           NEW inited \in BOOLEAN, NEW needs \in BOOLEAN, HandlePackage(inited, needs)
    PROVE  Called(op, c, n + 1)'
<1>1. /\ UNCHANGED <<script, at, running, base, installData, uninstallData, rolling>>
      /\ queue \in Seq(Items) /\ queue # << >>
    BY DEF HandlePackage, scriptVars, processVars, TypeOK
<1>2. /\ Len(log') = Len(log) + 1
      /\ log'[Len(log) + 1].pkg = queue[1].pkg
    BY CallFacts
<1>3. c = base /\ c + n = Len(log) /\ Len(log) \in Nat /\ Len(queue) \in Nat
      /\ Len(queue) >= 1
    BY <1>1 DEF Called, TypeOK
<1>4. at - 1 \in DOMAIN script /\ Does(at - 1, op) /\ at \in Nat
    BY DEF RunInv, Does, TypeOK
<1>5. running.data = Data(op)
    <2>1. pc \notin {"process", "refused"}
        BY DEF HandlePackage
    <2> QED BY <1>4, <2>1, ScriptOps DEF RunInv
<1>6. Len(Data(op)) \in Nat
    BY DEF Data, TypeOK
<1>7. /\ Len(queue) = Len(Data(op)) - n
      /\ queue[1] = Data(op)[n + 1]
    <2>1. Len(log) - base = n
        BY <1>3
    <2>2. 1 \in 1..Len(queue)
        BY <1>3
    <2> QED BY <1>5, <2>1, <2>2 DEF RunInv
<1>8. CallsOf(op)' = (c + 1)..(c + (n + 1))
    <2>1. CallsOf(op)' = CallsOf(op) \cup {Len(log) + 1}
        BY CallsAppend DEF Forward
    <2>2. CallsOf(op) = (c + 1)..(c + n)
        BY DEF Called
    <2> QED BY <1>3, <2>1, <2>2
<1>9. Data(op)' = Data(op)
    BY <1>1 DEF Data
<1>10. n + 1 <= Len(Data(op)')
    BY <1>3, <1>6, <1>7, <1>9
<1>11. ASSUME NEW i \in 1..(n + 1)
       PROVE  log'[c + i].pkg = Data(op)'[i].pkg
    <2>1. CASE i = n + 1
        <3>1. c + i = Len(log) + 1
            BY <1>3, <2>1
        <3> QED BY <1>2, <1>7, <1>9, <2>1, <3>1
    <2>2. CASE i # n + 1
        <3>1. i \in 1..n
            BY <2>2
        <3>2. c + i \in CallsOf(op)
            BY <3>1 DEF Called
        <3>3. log[c + i].pkg = Data(op)[i].pkg
            BY <3>1 DEF Called
        <3>4. log'[c + i] = log[c + i]
            BY <3>2, CallsAppend
        <3> QED BY <1>9, <3>3, <3>4
    <2> QED BY <2>1, <2>2
<1>12. ~(\A j \in DOMAIN script' : Does(j, op)' => j >= at')
    BY <1>1, <1>4 DEF Does
<1>13. ~(pc' \in {"execute", "committed"} \/ (Forward' /\ running'.op # op))
    BY <1>1 DEF HandlePackage
<1>14. c = base' /\ c + (n + 1) = Len(log')
    BY <1>1, <1>2, <1>3
<1> QED BY <1>8, <1>10, <1>11, <1>12, <1>13, <1>14 DEF Called

\* The script is gone on with when it is complete or when an action has succeeded.
LEMMA ReturnFrame ==
    ASSUME RollInv, [Next]_vars, pc' \in {"execute", "committed"}
    PROVE  pc \in {"execute", "committed"} \/ Scheduled \/ (Forward /\ queue = << >>)
<1> USE DEF Forward, Working, RollInv
<1>1. CASE ProcessPackages
    BY <1>1 DEF ProcessPackages, FetchRow, ProcessFails, TableRead, ScheduleNext,
                ScheduleFails, Scheduled
<1>2. CASE Installer
    BY <1>2 DEF Installer, KeepForRollback, RunDeferred, OtherActionFails, Commit,
                RunRollback, RolledBack, Enter
<1>3. CASE CustomAction
    BY <1>3 DEF CustomAction, HandlePackage, ReadFails, Fail, ProgressOk,
                ProgressCancelled, ActionSucceeds, Return
<1>4. CASE UNCHANGED vars
    BY <1>4 DEF vars
<1> QED BY <1>1, <1>2, <1>3, <1>4 DEF Next, Stopped

\* The action that begins is the only one of its operation.
LEMMA CallsBegin ==
    ASSUME TypeOK, RollInv, AgendaInv, NEW op \in Ops, NEW c \in Nat, NEW n \in Nat,
           Called(op, c, n), RunDeferred
    PROVE  \E d, m \in Nat : Called(op, d, m)'
<1>1. /\ at \in DOMAIN script /\ ~IsRollback(script[at]) /\ script[at] \in Entries
      /\ running' = script[at] /\ base' = Len(log) /\ at' = at + 1 /\ pc' = "work"
      /\ UNCHANGED <<script, log, installData, uninstallData, rolling>>
      /\ pc = "execute" /\ at \in Nat /\ Len(log) \in Nat /\ script \in Seq(Entries)
    BY DEF RunDeferred, Enter, TypeOK, processVars, histories
<1>2. CallsOf(op)' = CallsOf(op) /\ Data(op)' = Data(op) /\ Len(Data(op)) \in Nat
    BY <1>1 DEF CallsOf, Data, TypeOK
<1>3. \A i, j \in DOMAIN script : Does(i, op) /\ Does(j, op) => i = j
    BY <1>1, ScriptOps
<1>4. CASE script[at].op = op
    <2>1. Does(at, op)
        BY <1>1, <1>4 DEF Does
    <2>2. n = 0
        <3>1. \A j \in DOMAIN script : Does(j, op) => j >= at
            BY <1>1, <1>3, <2>1
        <3> QED BY <3>1 DEF Called
    <2>3. CallsOf(op)' = {} /\ (Len(log) + 1)..(Len(log) + 0) = {}
        BY <1>1, <1>2, <2>2 DEF Called
    <2>4. ~(pc' \in {"execute", "committed"} \/ (Forward' /\ running'.op # op))
        BY <1>1, <1>4
    <2>5. Len(log) = base' /\ Len(log) + 0 = Len(log')
        BY <1>1
    <2>6. Called(op, Len(log), 0)'
        BY <1>2, <2>3, <2>4, <2>5 DEF Called
    <2> QED BY <1>1, <2>6
<1>5. CASE script[at].op # op
    <2>1. ~Does(at, op) /\ running'.op # op
        BY <1>1, <1>5 DEF Does
    <2>2. /\ CallsOf(op)' = (c + 1)..(c + n) /\ n <= Len(Data(op)')
          /\ \A i \in 1..n : log'[c + i].pkg = Data(op)'[i].pkg
        BY <1>1, <1>2 DEF Called
    <2>3. (\A j \in DOMAIN script' : Does(j, op)' => j >= at') => n = 0
        <3>1. (\A j \in DOMAIN script' : Does(j, op)' => j >= at') =>
                  \A j \in DOMAIN script : Does(j, op) => j >= at
            BY <1>1 DEF Does
        <3> QED BY <3>1 DEF Called
    <2>4. (\E j \in DOMAIN script' : Does(j, op)' /\ j < at') => n = Len(Data(op)')
        <3>1. (\E j \in DOMAIN script' : Does(j, op)' /\ j < at') =>
                  \E j \in DOMAIN script : Does(j, op) /\ j < at
            BY <1>1, <2>1 DEF Does
        <3> QED BY <1>1, <1>2, <3>1 DEF Called
    <2>5. Called(op, c, n)'
        BY <2>1, <2>2, <2>3, <2>4 DEF Called
    <2> QED BY <2>5
<1> QED BY <1>4, <1>5

\* Every step keeps the calls of an operation in the order of its list.
LEMMA CallsStep ==
    ASSUME TypeOK, TypeOK', RollInv, AgendaInv, AgendaInv', RunInv, CallsInv, [Next]_vars
    PROVE  CallsInv'
<1> SUFFICES ASSUME NEW op \in Ops PROVE \E d, m \in Nat : Called(op, d, m)'
    BY DEF CallsInv, Ops
<1>1. PICK c \in Nat, n \in Nat : Called(op, c, n)
    BY DEF CallsInv, Ops
<1>2. CASE pc' \in {"process", "schedule", "refused"} \/ Scheduled
    <2>1. log' = << >> /\ at' = 1 /\ ~Forward'
        <3>1. CASE Scheduled
            BY <3>1 DEF Scheduled, AgendaInv, scriptVars, histories, Forward, Working
        <3>2. CASE pc' \in {"process", "schedule", "refused"}
            BY <3>2 DEF AgendaInv, Forward, Working
        <3> QED BY <1>2, <3>1, <3>2
    <2>2. Data(op)' \in Seq(Items) /\ script' \in Seq(Entries)
        BY DEF TypeOK, Data
    <2>3. Called(op, 0, 0)'
        BY <2>1, <2>2, CallsNone
    <2> QED BY <2>3
<1>3. CASE RunDeferred
    BY <1>1, <1>3, CallsBegin
<1>4. CASE pc' \notin {"process", "schedule", "refused"} /\ ~Scheduled /\ ~RunDeferred
    <2>1. script' = script /\ Data(op)' = Data(op)
        BY <1>4, ScriptFrame, ListsFrame DEF ScheduleNext, FetchRow, Data
    <2>2. CASE KeepForRollback
        <3>1. /\ IsRollback(script[at]) /\ at' = at + 1 /\ log' = log /\ pc' = pc
              /\ pc = "execute" /\ at \in Nat /\ script \in Seq(Entries)
            BY <2>2 DEF KeepForRollback, histories, TypeOK
        <3>2. /\ CallsOf(op)' = (c + 1)..(c + n) /\ n <= Len(Data(op)')
              /\ \A i \in 1..n : log'[c + i].pkg = Data(op)'[i].pkg
            BY <1>1, <2>1, <3>1 DEF Called, CallsOf
        <3>3. \A j \in DOMAIN script : Does(j, op) => (j < at' <=> j < at)
            BY <3>1 DEF Does
        <3>4. (\A j \in DOMAIN script' : Does(j, op)' => j >= at') => n = 0
            <4>1. (\A j \in DOMAIN script' : Does(j, op)' => j >= at') =>
                      \A j \in DOMAIN script : Does(j, op) => j >= at
                BY <2>1, <3>1 DEF Does
            <4> QED BY <1>1, <4>1 DEF Called
        <3>5. (\E j \in DOMAIN script' : Does(j, op)' /\ j < at') => n = Len(Data(op)')
            <4>1. (\E j \in DOMAIN script' : Does(j, op)' /\ j < at') =>
                      \E j \in DOMAIN script : Does(j, op) /\ j < at
                BY <2>1, <3>3 DEF Does
            <4> QED BY <1>1, <2>1, <3>1, <4>1 DEF Called
        <3>6. ~Forward'
            BY <3>1 DEF Forward, Working
        <3>7. Called(op, c, n)'
            BY <3>2, <3>4, <3>5, <3>6 DEF Called
        <3> QED BY <3>7
    <2>3. ASSUME NEW inited \in BOOLEAN, NEW needs \in BOOLEAN,
                 HandlePackage(inited, needs)
          PROVE  \E d, m \in Nat : Called(op, d, m)'
        <3>1. CASE Forward /\ running.op = op
            <4>1. Called(op, c, n + 1)'
                BY <1>1, <2>3, <3>1, CallForward
            <4> QED BY <4>1
        <3>2. CASE ~(Forward /\ running.op = op)
            <4>1. /\ CallsOf(op)' = CallsOf(op) /\ \A k \in CallsOf(op) : log'[k] = log[k]
                BY <2>3, <3>2, CallsAppend DEF Forward, Working, HandlePackage
            <4>2. /\ at' = at /\ running' = running /\ rolling' = rolling
                  /\ pc' \in {"work", "progress"} /\ pc = "work"
                BY <2>3 DEF HandlePackage, scriptVars
            <4>3. Called(op, c, n)'
                BY <1>1, <2>1, <3>2, <4>1, <4>2, CalledStays DEF Forward, Working
            <4> QED BY <4>3
        <3> QED BY <3>1, <3>2
    <2>4. CASE /\ ~KeepForRollback
               /\ ~\E inited, needs \in BOOLEAN : HandlePackage(inited, needs)
        <3>1. at' = at /\ log' = log
            BY <1>4, <2>4, ScriptFrame
        <3>2. CallsOf(op)' = CallsOf(op) /\ \A k \in CallsOf(op) : log'[k] = log[k]
            BY <3>1 DEF CallsOf
        <3>3. Forward' => Forward /\ running' = running /\ base' = base
            BY <1>4, <2>4, ForwardFrame
        <3>4. pc' \in {"execute", "committed"}
                  => \/ pc \in {"execute", "committed"}
                     \/ Forward /\ running.op # op
                     \/ n = Len(Data(op))
            <4> SUFFICES ASSUME Forward, queue = << >>, running.op = op
                         PROVE  n = Len(Data(op))
                BY <1>4, ReturnFrame
            <4>1. pc \notin {"process", "refused"}
                BY DEF Forward, Working
            <4>2. running.data = Data(op)
                BY <4>1, ScriptOps DEF RunInv, Does
            <4>3. /\ 0 = Len(running.data) - (Len(log) - base)
                  /\ c = base /\ c + n = Len(log)
                BY <1>1 DEF RunInv, Called
            <4>4. Len(Data(op)) \in Nat /\ Len(log) \in Nat
                <5>1. /\ installData \in Seq(Items) /\ uninstallData \in Seq(Items)
                      /\ log \in Seq(Calls)
                    BY DEF TypeOK
                <5> QED BY <5>1 DEF Data
            <4> QED BY <4>2, <4>3, <4>4
        <3>5. Called(op, c, n)'
            BY <1>1, <2>1, <3>1, <3>2, <3>3, <3>4, CalledStays
        <3> QED BY <3>5
    <2> QED BY <2>2, <2>3, <2>4
<1> QED BY <1>2, <1>3, <1>4

-------------------------------------------------------------------------------
(* The theorem *)

\* There is nothing in order yet.
LEMMA OrderInit == Init => OrderInv
<1> SUFFICES ASSUME Init PROVE OrderInv
    OBVIOUS
<1>1. DataInv
    <2> SUFFICES ASSUME NEW op \in Ops
                 PROVE  \E g \in [DOMAIN Data(op) -> RowsOf(op)] : FetchedInto(op, g)
        BY DEF DataInv, Init, Ops
    <2>1. DOMAIN Data(op) = {} /\ next = 1 /\ table \in Seq(Rows)
        BY TablesAssumption DEF Init, Data
    <2>2. [i \in {} |-> 0] \in [DOMAIN Data(op) -> RowsOf(op)]
        BY <2>1
    <2>3. \A r \in RowsOf(op) : ~(r < next)
        BY <2>1 DEF RowsOf
    <2>4. FetchedInto(op, [i \in {} |-> 0])
        BY <2>1, <2>3 DEF FetchedInto
    <2> QED BY <2>2, <2>4
<1>2. AgendaInv /\ RunInv
    BY DEF Init, AgendaInv, RunInv, Forward, Working
<1>3. ASSUME NEW op \in Ops PROVE Called(op, 0, 0)
    <2>1. CallsOf(op) = {} /\ (0 + 1)..(0 + 0) = {}
        BY DEF Init, CallsOf
    <2>2. Len(Data(op)) = 0 /\ (~\E j \in DOMAIN script : j < at) /\ ~Forward
        BY DEF Init, Data, Forward, Working
    <2> QED BY <2>1, <2>2 DEF Called
<1> QED BY <1>1, <1>2, <1>3 DEF OrderInv, CallsInv, Ops

LEMMA OrderInductive == Spec => []OrderInv
<1>1. OrderInv /\ IInv /\ IInv' /\ [Next]_vars => OrderInv'
    BY DataStep, AgendaStep, RunStep, CallsStep DEF OrderInv, IInv
<1> QED BY <1>1, OrderInit, InductiveInvariant, PTL DEF Spec

\* The lists have the order of the rows and the calls that of the lists.
LEMMA OrderHolds ==
    ASSUME TypeOK, OrderInv
    PROVE  SequenceOrder
<1> SUFFICES ASSUME NEW op \in Ops
             PROVE  \E f \in [CallsOf(op) -> RowsOf(op)] :
                        /\ InOrder(op, f)
                        /\ pc = "committed" =>
                               \A r \in RowsOf(op) : \E k \in CallsOf(op) : f[k] = r
    BY DEF SequenceOrder, Ops
<1>1. PICK g \in [DOMAIN Data(op) -> RowsOf(op)] : FetchedInto(op, g)
    BY DEF OrderInv, DataInv, Ops
<1>2. PICK c \in Nat, n \in Nat : Called(op, c, n)
    BY DEF OrderInv, CallsInv, Ops
<1> DEFINE d == Data(op)
           f == [k \in CallsOf(op) |-> g[k - c]]
<1>3. d \in Seq(Items) /\ DOMAIN d = 1..Len(d) /\ Len(d) \in Nat
    BY DEF Data, TypeOK
<1>4. RowsOf(op) \subseteq 1..Len(table) /\ Len(table) \in Nat /\ next \in Nat
    BY TablesAssumption DEF RowsOf, TypeOK
<1>5. /\ CallsOf(op) = (c + 1)..(c + n) /\ n <= Len(d)
      /\ \A i \in 1..n : log[c + i].pkg = d[i].pkg
    BY <1>2 DEF Called
<1>6. \A k \in CallsOf(op) : k - c \in 1..n /\ k - c \in DOMAIN d /\ k \in Nat
    BY <1>3, <1>5
<1>7. f \in [CallsOf(op) -> RowsOf(op)] /\ \A k \in CallsOf(op) : f[k] = g[k - c]
    BY <1>1, <1>6
<1>8. \A i \in 1..n : c + i \in CallsOf(op) /\ f[c + i] = g[i]
    <2> SUFFICES ASSUME NEW i \in 1..n PROVE c + i \in CallsOf(op) /\ f[c + i] = g[i]
        OBVIOUS
    <2>1. c + i \in (c + 1)..(c + n) /\ (c + i) - c = i
        OBVIOUS
    <2>2. c + i \in CallsOf(op)
        BY <1>5, <2>1
    <2> HIDE DEF f
    <2> QED BY <1>7, <2>1, <2>2
<1> HIDE DEF f
<1>9. \A i \in DOMAIN d : g[i] \in Nat /\ g[i] < next
    BY <1>1, <1>4 DEF FetchedInto
<1>10. ASSUME NEW k \in CallsOf(op) PROVE log[k].pkg = table[f[k]].pkg
    <2>1. log[c + (k - c)].pkg = d[k - c].pkg
        BY <1>5, <1>6
    <2>2. c + (k - c) = k
        BY <1>6
    <2>3. d[k - c] = ItemOf(table[g[k - c]])
        BY <1>1, <1>6 DEF FetchedInto
    <2> QED BY <1>7, <2>1, <2>2, <2>3 DEF ItemOf
<1>11. ASSUME NEW j \in CallsOf(op), NEW k \in CallsOf(op), j < k PROVE f[j] < f[k]
    <2>1. j - c < k - c
        BY <1>6, <1>11
    <2> QED BY <1>1, <1>6, <1>7, <2>1 DEF FetchedInto
<1>12. ASSUME NEW k \in CallsOf(op), NEW r \in RowsOf(op), r < f[k]
       PROVE  \E j \in CallsOf(op) : f[j] = r
    <2>1. r < g[k - c] /\ r < next /\ r \in Nat
        BY <1>4, <1>6, <1>7, <1>9, <1>12
    <2>2. PICK i \in DOMAIN d : g[i] = r
        BY <1>1, <2>1 DEF FetchedInto
    <2>3. i <= k - c
        <3>1. k - c < i => g[k - c] < g[i]
            BY <1>1, <1>6 DEF FetchedInto
        <3> QED BY <1>3, <1>6, <1>9, <2>1, <2>2, <3>1
    <2>4. i \in 1..n
        BY <1>3, <1>6, <2>3
    <2> QED BY <1>8, <2>2, <2>4
<1>13. ASSUME pc = "committed", NEW r \in RowsOf(op)
       PROVE  \E k \in CallsOf(op) : f[k] = r
    <2>1. next > Len(table)
        BY <1>13 DEF OrderInv, DataInv
    <2>2. PICK i \in DOMAIN d : g[i] = r
        BY <1>1, <1>4, <2>1 DEF FetchedInto
    <2>3. d # << >>
        BY <2>2
    <2>4. installData \in Seq(Items) /\ uninstallData \in Seq(Items)
        BY DEF TypeOK
    <2>5. PICK j \in DOMAIN Agenda : ~IsRollback(Agenda[j]) /\ Agenda[j].op = op
        BY <2>3, <2>4, AgendaOps
    <2>6. j \in DOMAIN script /\ Does(j, op) /\ j < at
        <3>1. /\ Len(script) = Len(Agenda) /\ at > Len(script)
              /\ \A m \in DOMAIN script : script[m] = Agenda[m]
            BY <1>13 DEF OrderInv, AgendaInv
        <3>2. Agenda \in Seq(Entries) /\ script \in Seq(Entries) /\ at \in Nat
            BY <2>4, AgendaFacts DEF TypeOK
        <3>3. j \in 1..Len(script) /\ DOMAIN script = 1..Len(script)
            BY <3>1, <3>2
        <3> QED BY <2>5, <3>1, <3>2, <3>3 DEF Does
    <2>7. n = Len(d)
        BY <1>2, <1>13, <2>6 DEF Called
    <2> QED BY <1>3, <1>8, <2>2, <2>7
<1>14. InOrder(op, f)
    BY <1>10, <1>11, <1>12 DEF InOrder
<1> QED BY <1>7, <1>13, <1>14

\* Whatever the table is and wherever the installation fails, the packages are handled
\* in the order of column Sequence, none twice and none that was not asked for; a
\* committed installation has handled them all.
THEOREM HandledInOrder == Spec => []SequenceOrder
<1>1. IInv /\ OrderInv => SequenceOrder
    BY OrderHolds DEF IInv
<1> QED BY <1>1, InductiveInvariant, OrderInductive, PTL
===============================================================================
