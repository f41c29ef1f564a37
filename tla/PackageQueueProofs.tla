--------------------------- MODULE PackageQueueProofs ---------------------------
(***************************************************************************)
(* The safety properties of PackageQueue, for every table and every number *)
(* of packages, but for the order of the packages: see PackageOrderProofs. *)
(***************************************************************************)
EXTENDS PackageQueue, SequenceTheorems, TLAPS

-------------------------------------------------------------------------------
(* Lemmas about sequences *)

\* What Append does to a sequence.
LEMMA AppendFacts ==
    ASSUME NEW S, NEW s \in Seq(S), NEW e \in S
    PROVE  /\ Append(s, e) \in Seq(S)
           /\ Len(Append(s, e)) = Len(s) + 1
           /\ \A i \in 1..Len(s) : Append(s, e)[i] = s[i]
           /\ Append(s, e)[Len(s) + 1] = e
OBVIOUS

\* What putting an element in front of a sequence does.
LEMMA PushFacts ==
    ASSUME NEW S, NEW s \in Seq(S), NEW e \in S
    PROVE  /\ <<e>> \o s \in Seq(S)
           /\ Len(<<e>> \o s) = Len(s) + 1
           /\ (<<e>> \o s)[1] = e
           /\ \A i \in 1..Len(s) : (<<e>> \o s)[i + 1] = s[i]
OBVIOUS

\* A sequence that is not empty is its head and its tail.
LEMMA HeadTailFacts ==
    ASSUME NEW S, NEW s \in Seq(S), s # << >>
    PROVE  /\ Head(s) \in S /\ Head(s) = s[1]
           /\ 1 \in DOMAIN s
           /\ Tail(s) \in Seq(S)
           /\ Len(Tail(s)) = Len(s) - 1
           /\ \A i \in 1..Len(Tail(s)) : Tail(s)[i] = s[i + 1]
           /\ \A i \in 2..Len(s) : i - 1 \in DOMAIN Tail(s) /\ Tail(s)[i - 1] = s[i]
OBVIOUS

-------------------------------------------------------------------------------
\* Two pairs in a row.
LEMMA PairsFacts ==
    ASSUME NEW S, NEW a \in S, NEW b \in S, NEW c \in S, NEW d \in S
    PROVE  LET r == <<a, b>> \o <<c, d>>
           IN  /\ r \in Seq(S) /\ Len(r) = 4
               /\ r[1] = a /\ r[2] = b /\ r[3] = c /\ r[4] = d
<1> DEFINE p == <<a, b>>
           q == <<c, d>>
<1>1. p \in Seq(S) /\ q \in Seq(S) /\ Len(p) = 2 /\ Len(q) = 2
    OBVIOUS
<1>2. p[1] = a /\ p[2] = b /\ q[1] = c /\ q[2] = d
    OBVIOUS
<1>3. /\ p \o q \in Seq(S) /\ Len(p \o q) = 4
      /\ (p \o q)[1] = a /\ (p \o q)[2] = b /\ (p \o q)[3] = c /\ (p \o q)[4] = d
    <2> HIDE DEF p, q
    <2> QED BY <1>1, <1>2, ConcatProperties
<1> QED BY <1>3

-------------------------------------------------------------------------------
(* The agenda *)

\* An entry of the right shape.
LEMMA EntryFacts ==
    ASSUME NEW data \in Seq(Items)
    PROVE  /\ Entry("RollbackInstall", "uninstall", data) \in Entries
           /\ Entry("InstallDriverPackages", "install", data) \in Entries
           /\ Entry("RollbackUninstall", "install", data) \in Entries
           /\ Entry("UninstallDriverPackages", "uninstall", data) \in Entries
BY DEF Entry, Entries

\* Two actions per list that is not empty, the undoing one first.
LEMMA AgendaFacts ==
    ASSUME installData \in Seq(Items), uninstallData \in Seq(Items)
    PROVE  /\ Agenda \in Seq(Entries)
           /\ Len(Agenda) \in {0, 2, 4}
           /\ \A j \in DOMAIN Agenda :
                  IF j \in {1, 3}
                  THEN IsRollback(Agenda[j])
                  ELSE /\ j \in {2, 4}
                       /\ IsRollback(Agenda[j - 1])
                       /\ Agenda[j - 1].op # Agenda[j].op
                       /\ Agenda[j - 1].data = Agenda[j].data
<1> DEFINE ri == Entry("RollbackInstall", "uninstall", installData)
           id == Entry("InstallDriverPackages", "install", installData)
           ru == Entry("RollbackUninstall", "install", uninstallData)
           ud == Entry("UninstallDriverPackages", "uninstall", uninstallData)
<1>1. ri \in Entries /\ id \in Entries /\ ru \in Entries /\ ud \in Entries
    BY EntryFacts
<1>2. /\ IsRollback(ri) /\ IsRollback(ru)
      /\ ri.op # id.op /\ ri.data = id.data /\ ru.op # ud.op /\ ru.data = ud.data
    BY DEF Entry, IsRollback
<1>3. Agenda = (IF installData = << >> THEN << >> ELSE <<ri, id>>)
               \o (IF uninstallData = << >> THEN << >> ELSE <<ru, ud>>)
    BY DEF Agenda
<1> HIDE DEF ri, id, ru, ud
<1>4. CASE installData = << >> /\ uninstallData = << >>
    <2>1. Agenda = << >>
        BY <1>3, <1>4
    <2> QED BY <2>1
<1>5. CASE installData # << >> /\ uninstallData = << >>
    <2>1. Agenda = <<ri, id>>
        BY <1>1, <1>3, <1>5
    <2> QED BY <1>1, <1>2, <2>1
<1>6. CASE installData = << >> /\ uninstallData # << >>
    <2>1. Agenda = <<ru, ud>>
        BY <1>1, <1>3, <1>6
    <2> QED BY <1>1, <1>2, <2>1
<1>7. CASE installData # << >> /\ uninstallData # << >>
    <2>1. Agenda = <<ri, id>> \o <<ru, ud>>
        BY <1>3, <1>7
    <2>2. /\ Agenda \in Seq(Entries) /\ Len(Agenda) = 4
          /\ Agenda[1] = ri /\ Agenda[2] = id /\ Agenda[3] = ru /\ Agenda[4] = ud
        BY <1>1, <2>1, PairsFacts
    <2> QED BY <1>2, <2>2
<1> QED BY <1>4, <1>5, <1>6, <1>7

-------------------------------------------------------------------------------
(* Types, and the phases of the rollback *)

\* All is empty before ProcessPackages.
LEMMA InitInv == Init => IInv
<1> SUFFICES ASSUME Init PROVE IInv
    OBVIOUS
<1>1. TypeOK
    <2>1. Len(table) \in Nat /\ next \in 1..(Len(table) + 1)
        BY TablesAssumption DEF Init
    <2>2. at \in 1..(Len(script) + 1) /\ base \in 0..Len(log)
        BY DEF Init
    <2>3. /\ installData \in Seq(Items) /\ uninstallData \in Seq(Items)
          /\ queue \in Seq(Items) /\ script \in Seq(Entries) /\ undo \in Seq(Entries)
          /\ log \in Seq(Calls)
        <3>1. \A S : << >> \in Seq(S)
            OBVIOUS
        <3> QED BY <3>1 DEF Init
    <2> QED BY <2>1, <2>2, <2>3, Zenon DEF Init, TypeOK, Places
<1>2. RollInv /\ ScriptInv /\ KeptInv /\ QueueInv /\ UndoInv /\ ScanInv
    BY DEF Init, RollInv, ScriptInv, KeptInv, QueueInv, UndoInv, ScanInv, Working
<1>3. RebootFlagExact /\ WantedInv
    BY DEF Init, RebootFlagExact, WantedInv
<1> QED BY <1>1, <1>2, <1>3 DEF IInv

\* The steps of ProcessPackages keep the types.
LEMMA TypeProcess ==
    ASSUME TypeOK, ProcessPackages
    PROVE  TypeOK'
<1> USE DEF TypeOK, Places, processVars, scriptVars, actionVars, histories
<1>1. CASE FetchRow
    <2>1. table \in Seq(Rows)
        BY TablesAssumption
    <2>2. table[next] \in Rows
        BY <1>1, <2>1 DEF FetchRow
    <2>3. ItemOf(table[next]) \in Items
        BY <2>2 DEF ItemOf, Rows, Items
    <2>4. installData' \in Seq(Items) /\ uninstallData' \in Seq(Items)
        BY <1>1, <2>3, AppendFacts DEF FetchRow
    <2>5. next' \in 1..(Len(table) + 1)
        BY <1>1, <2>1 DEF FetchRow
    <2> QED BY <1>1, <2>4, <2>5 DEF FetchRow
<1>2. CASE ScheduleNext
    <2>1. Agenda[Len(script) + 1] \in Entries
        BY <1>2, AgendaFacts DEF ScheduleNext
    <2>2. script' \in Seq(Entries) /\ Len(script') = Len(script) + 1
        BY <1>2, <2>1, AppendFacts DEF ScheduleNext
    <2>3. at' \in 1..(Len(script') + 1)
        BY <1>2, <2>2 DEF ScheduleNext
    <2> QED BY <1>2, <2>2, <2>3 DEF ScheduleNext
<1>3. CASE ProcessFails \/ TableRead \/ ScheduleFails \/ Scheduled
    BY <1>3 DEF ProcessFails, TableRead, ScheduleFails, Scheduled
<1> QED BY <1>1, <1>2, <1>3 DEF ProcessPackages

\* The installer's steps keep the types.
LEMMA TypeInstaller ==
    ASSUME TypeOK, Installer
    PROVE  TypeOK'
<1> USE DEF TypeOK, Places, processVars, scriptVars, actionVars, histories
<1>1. CASE KeepForRollback
    <2>1. script[at] \in Entries /\ at' \in 1..(Len(script) + 1)
        BY <1>1 DEF KeepForRollback
    <2>2. undo' \in Seq(Entries)
        BY <1>1, <2>1, PushFacts DEF KeepForRollback
    <2> QED BY <1>1, <2>1, <2>2 DEF KeepForRollback
<1>2. CASE RunDeferred
    <2>1. script[at] \in Entries /\ at' \in 1..(Len(script) + 1)
        BY <1>2 DEF RunDeferred
    <2>2. script[at].data \in Seq(Items)
        BY <2>1 DEF Entries
    <2>3. /\ running' = script[at] /\ queue' = script[at].data
          /\ bRebootNeeded' = FALSE /\ base' = Len(log) /\ pc' = "work"
        BY <1>2 DEF RunDeferred, Enter
    <2>4. base' \in 0..Len(log')
        BY <1>2, <2>3 DEF RunDeferred
    <2> QED BY <1>2, <2>1, <2>2, <2>3, <2>4 DEF RunDeferred
<1>3. CASE RunRollback
    <2>1. Head(undo) \in Entries /\ Tail(undo) \in Seq(Entries)
        BY <1>3, HeadTailFacts DEF RunRollback
    <2>2. Head(undo).data \in Seq(Items)
        BY <2>1 DEF Entries
    <2>3. /\ running' = Head(undo) /\ queue' = Head(undo).data
          /\ bRebootNeeded' = FALSE /\ base' = Len(log) /\ pc' = "work"
        BY <1>3 DEF RunRollback, Enter
    <2>4. base' \in 0..Len(log')
        BY <1>3, <2>3 DEF RunRollback
    <2> QED BY <1>3, <2>1, <2>2, <2>3, <2>4 DEF RunRollback
<1>4. CASE OtherActionFails \/ Commit \/ RolledBack
    BY <1>4 DEF OtherActionFails, Commit, RolledBack
<1> QED BY <1>1, <1>2, <1>3, <1>4 DEF Installer

\* A call of Install or Uninstall, as the log has it.
LEMMA CallFacts ==
    ASSUME TypeOK, RollInv, NEW inited \in BOOLEAN, NEW needs \in BOOLEAN,
           HandlePackage(inited, needs)
    PROVE  LET e == log'[Len(log) + 1]
           IN  /\ log' \in Seq(Calls)
               /\ Len(log') = Len(log) + 1
               /\ \A k \in 1..Len(log) : log'[k] = log[k]
               /\ e.op = running.op /\ e.pkg = queue[1].pkg /\ e.rolling = rolling
               /\ e.inited = inited /\ e.wants = (needs \/ e.flagged)
               /\ bRebootNeeded' = RebootAfter(bRebootNeeded, inited, needs, e.flagged)
<1> DEFINE item == Head(queue)
           flagged == FlagOf(running.op) \in item.flags
           e == [op |-> running.op, pkg |-> item.pkg, rolling |-> rolling,
                 inited |-> inited, flagged |-> flagged, wants |-> needs \/ flagged]
<1>1. queue \in Seq(Items) /\ queue # << >>
    BY DEF TypeOK, HandlePackage
<1>2. item = queue[1] /\ item \in Items
    BY <1>1, HeadTailFacts
<1>3. item.pkg \in Packages
    BY <1>2 DEF Items
<1>4. running.op \in {"install", "uninstall"}
    BY DEF RollInv, Working, HandlePackage, Entries
<1>5. rolling \in BOOLEAN
    BY DEF TypeOK
<1>6. e \in Calls
    BY <1>3, <1>4, <1>5 DEF Calls
<1>7. log' = Append(log, e)
    BY DEF HandlePackage
<1>8. bRebootNeeded' = RebootAfter(bRebootNeeded, inited, needs, flagged)
    BY DEF HandlePackage
<1>9. /\ e.op = running.op /\ e.pkg = item.pkg /\ e.rolling = rolling
      /\ e.inited = inited /\ e.flagged = flagged /\ e.wants = (needs \/ flagged)
    OBVIOUS
<1>10. log \in Seq(Calls)
    BY DEF TypeOK
<1> HIDE DEF e, flagged, item
<1>11. /\ log' \in Seq(Calls) /\ Len(log') = Len(log) + 1
       /\ \A k \in 1..Len(log) : log'[k] = log[k]
       /\ log'[Len(log) + 1] = e
    BY <1>6, <1>7, <1>10, AppendFacts
<1> QED BY <1>2, <1>8, <1>9, <1>11

\* The steps of the custom actions keep the types.
LEMMA TypeAction ==
    ASSUME TypeOK, RollInv, CustomAction
    PROVE  TypeOK'
<1> USE DEF TypeOK, Places, processVars, scriptVars, actionVars, histories
<1>1. ASSUME NEW inited \in BOOLEAN, NEW needs \in BOOLEAN,
             HandlePackage(inited, needs)
      PROVE  TypeOK'
    <2>1. log' \in Seq(Calls) /\ Len(log') = Len(log) + 1
        BY <1>1, CallFacts
    <2>2. queue' \in Seq(Items)
        BY <1>1, HeadTailFacts DEF HandlePackage
    <2>3. base' \in 0..Len(log')
        BY <1>1, <2>1 DEF HandlePackage
    <2>4. bRebootNeeded' \in BOOLEAN
        BY <1>1 DEF HandlePackage, RebootAfter
    <2>5. pc' \in Places
        BY <1>1 DEF HandlePackage
    <2> QED BY <1>1, <2>1, <2>2, <2>3, <2>4, <2>5 DEF HandlePackage
<1>2. CASE ReadFails
    BY <1>2 DEF ReadFails, Fail
<1>3. CASE ProgressOk \/ ProgressCancelled
    BY <1>3 DEF ProgressOk, ProgressCancelled, Fail
<1>4. CASE ActionSucceeds
    BY <1>4 DEF ActionSucceeds, Return
<1> QED BY <1>1, <1>2, <1>3, <1>4 DEF CustomAction

\* Every step keeps the types.
LEMMA TypeStep ==
    ASSUME TypeOK, RollInv, [Next]_vars
    PROVE  TypeOK'
<1>1. CASE UNCHANGED vars
    BY <1>1 DEF TypeOK, vars, processVars, scriptVars, actionVars, histories
<1> QED BY <1>1, TypeProcess, TypeInstaller, TypeAction DEF Next, Stopped

\* The rollback begins with a failure and does not end; only it is cut short.
LEMMA RollStep ==
    ASSUME TypeOK, RollInv, [Next]_vars
    PROVE  RollInv'
<1> USE DEF RollInv, Working, processVars, scriptVars, actionVars, histories
<1>1. CASE ProcessPackages
    BY <1>1 DEF ProcessPackages, FetchRow, ProcessFails, TableRead, ScheduleNext,
                ScheduleFails, Scheduled
<1>2. CASE RunDeferred
    BY <1>2 DEF RunDeferred, Enter, TypeOK
<1>3. CASE RunRollback
    <2>1. Head(undo) \in Entries
        BY <1>3, HeadTailFacts DEF RunRollback, TypeOK
    <2> QED BY <1>3, <2>1 DEF RunRollback, Enter
<1>4. CASE KeepForRollback \/ OtherActionFails \/ Commit \/ RolledBack
    BY <1>4 DEF KeepForRollback, OtherActionFails, Commit, RolledBack
<1>5. CASE CustomAction
    <2>1. ASSUME NEW inited \in BOOLEAN, NEW needs \in BOOLEAN,
                 HandlePackage(inited, needs)
          PROVE  RollInv'
        BY <2>1 DEF HandlePackage
    <2>2. CASE ReadFails
        BY <2>2 DEF ReadFails, Fail
    <2>3. CASE ProgressOk \/ ProgressCancelled
        BY <2>3 DEF ProgressOk, ProgressCancelled, Fail
    <2>4. CASE ActionSucceeds
        BY <2>4 DEF ActionSucceeds, Return
    <2> QED BY <1>5, <2>1, <2>2, <2>3, <2>4 DEF CustomAction
<1>6. CASE UNCHANGED vars
    BY <1>6 DEF vars
<1> QED BY <1>1, <1>2, <1>3, <1>4, <1>5, <1>6 DEF Next, Installer, Stopped

-------------------------------------------------------------------------------
(* The reboot request and the rescan *)

\* Only these steps change the log, the reboot variable or the request.
LEMMA LogFrame ==
    ASSUME [Next]_vars
    PROVE  \/ RunDeferred \/ RunRollback \/ ActionSucceeds
           \/ \E inited, needs \in BOOLEAN : HandlePackage(inited, needs)
           \/ UNCHANGED <<log, base, bRebootNeeded, reboot>>
              /\ (pc' \in {"work", "progress"} => pc \in {"work", "progress"})
<1> USE DEF processVars, scriptVars, actionVars, histories
<1>1. CASE ProcessPackages
    BY <1>1 DEF ProcessPackages, FetchRow, ProcessFails, TableRead, ScheduleNext,
                ScheduleFails, Scheduled
<1>2. CASE Installer
    BY <1>2 DEF Installer, KeepForRollback, OtherActionFails, Commit, RolledBack
<1>3. CASE CustomAction
    BY <1>3 DEF CustomAction, ReadFails, Fail, ProgressOk, ProgressCancelled
<1>4. CASE UNCHANGED vars
    BY <1>4 DEF vars
<1> QED BY <1>1, <1>2, <1>3, <1>4 DEF Next, Stopped

\* The reboot variable keeps its meaning: a package that wants a reboot sets it, one
\* whose Init succeeds and that does not want one clears it, another leaves it.
LEMMA RebootStep ==
    ASSUME TypeOK, RollInv, RebootFlagExact, [Next]_vars
    PROVE  RebootFlagExact'
<1> USE DEF RebootFlagExact
<1>a. log \in Seq(Calls) /\ base \in 0..Len(log) /\ Len(log) \in Nat
    BY DEF TypeOK
<1>1. CASE RunDeferred \/ RunRollback
    <2>1. log' = log /\ base' = Len(log) /\ bRebootNeeded' = FALSE
        BY <1>1 DEF RunDeferred, RunRollback, Enter, histories
    <2> QED BY <1>a, <2>1
<1>2. ASSUME NEW inited \in BOOLEAN, NEW needs \in BOOLEAN,
             HandlePackage(inited, needs)
      PROVE  RebootFlagExact'
    <2> DEFINE e == log'[Len(log) + 1]
               Wants(lg, k) == /\ lg[k].wants
                               /\ \A m \in (k + 1)..Len(lg) : lg[m].inited => lg[m].wants
    <2>1. /\ Len(log') = Len(log) + 1 /\ \A k \in 1..Len(log) : log'[k] = log[k]
          /\ e.inited = inited /\ e.wants = (needs \/ e.flagged)
          /\ bRebootNeeded' = RebootAfter(bRebootNeeded, inited, needs, e.flagged)
        BY <1>2, CallFacts
    <2>2. base' = base /\ pc = "work" /\ (needs => inited)
        BY <1>2 DEF HandlePackage
    <2>3. bRebootNeeded <=> \E k \in (base + 1)..Len(log) : Wants(log, k)
        BY <2>2
    <2>4. bRebootNeeded' <=> e.wants \/ (~inited /\ bRebootNeeded)
        BY <2>1, <2>2 DEF RebootAfter
    <2>5. Wants(log', Len(log) + 1) <=> e.wants
        BY <1>a, <2>1
    <2>6. ASSUME NEW k \in (base + 1)..Len(log)
          PROVE  Wants(log', k) <=> Wants(log, k) /\ (inited => e.wants)
        <3>1. k \in 1..Len(log) /\ k + 1 \in Nat
            BY <1>a
        <3>2. log'[k] = log[k]
            BY <2>1, <3>1
        <3>3. \A m \in (k + 1)..Len(log) : log'[m] = log[m]
            BY <1>a, <2>1, <3>1
        <3>4. (k + 1)..Len(log') = ((k + 1)..Len(log)) \cup {Len(log) + 1}
            BY <1>a, <2>1, <3>1
        <3> QED BY <2>1, <3>2, <3>3, <3>4
    <2>7. (base' + 1)..Len(log') = ((base + 1)..Len(log)) \cup {Len(log) + 1}
        BY <1>a, <2>1, <2>2
    <2>8. bRebootNeeded' <=> \E k \in (base' + 1)..Len(log') : Wants(log', k)
        <3> HIDE DEF Wants, e
        <3> QED BY <2>3, <2>4, <2>5, <2>6, <2>7
    <2> QED BY <2>8
<1>3. CASE ActionSucceeds
    BY <1>3 DEF ActionSucceeds, Return, actionVars
<1>4. CASE /\ UNCHANGED <<log, base, bRebootNeeded, reboot>>
           /\ pc' \in {"work", "progress"} => pc \in {"work", "progress"}
    BY <1>4
<1> QED BY <1>1, <1>2, <1>3, <1>4, LogFrame

\* What is asked for now or later was wanted by a package.
LEMMA WantedStep ==
    ASSUME TypeOK, RollInv, WantedInv, [Next]_vars
    PROVE  WantedInv'
<1> USE DEF WantedInv
<1>1. CASE RunDeferred \/ RunRollback
    BY <1>1 DEF RunDeferred, RunRollback, Enter, histories
<1>2. ASSUME NEW inited \in BOOLEAN, NEW needs \in BOOLEAN,
             HandlePackage(inited, needs)
      PROVE  WantedInv'
    <2> DEFINE e == log'[Len(log) + 1]
    <2>1. /\ log \in Seq(Calls) /\ log' \in Seq(Calls)
          /\ Len(log') = Len(log) + 1 /\ \A k \in 1..Len(log) : log'[k] = log[k]
          /\ e.wants = (needs \/ e.flagged)
          /\ bRebootNeeded' = RebootAfter(bRebootNeeded, inited, needs, e.flagged)
        BY <1>2, CallFacts DEF TypeOK
    <2>2. bRebootNeeded' => e.wants \/ bRebootNeeded
        BY <2>1 DEF RebootAfter
    <2>3. reboot' = reboot
        BY <1>2 DEF HandlePackage
    <2>4. (\E k \in DOMAIN log : log[k].wants) \/ e.wants
              => \E k \in DOMAIN log' : log'[k].wants
        BY <2>1
    <2> QED BY <2>2, <2>3, <2>4
<1>3. CASE ActionSucceeds
    BY <1>3 DEF ActionSucceeds, actionVars
<1>4. CASE UNCHANGED <<log, base, bRebootNeeded, reboot>>
    BY <1>4
<1> QED BY <1>1, <1>2, <1>3, <1>4, LogFrame

\* An action comes back to a script that goes on only after the rescan was called.
LEMMA ScanStep ==
    ASSUME ScanInv, [Next]_vars
    PROVE  ScanInv'
<1> USE DEF ScanInv, processVars, scriptVars, actionVars, histories
<1>1. CASE ProcessPackages
    BY <1>1 DEF ProcessPackages, FetchRow, ProcessFails, TableRead, ScheduleNext,
                ScheduleFails, Scheduled
<1>2. CASE Installer
    BY <1>2 DEF Installer, KeepForRollback, RunDeferred, OtherActionFails, Commit,
                RunRollback, RolledBack, Enter
<1>3. CASE CustomAction
    <2>1. ASSUME NEW inited \in BOOLEAN, NEW needs \in BOOLEAN,
                 HandlePackage(inited, needs)
          PROVE  ScanInv'
        BY <2>1 DEF HandlePackage
    <2>2. CASE ReadFails \/ ProgressOk \/ ProgressCancelled
        BY <2>2 DEF ReadFails, Fail, ProgressOk, ProgressCancelled
    <2>3. CASE ActionSucceeds
        BY <2>3 DEF ActionSucceeds
    <2> QED BY <1>3, <2>1, <2>2, <2>3 DEF CustomAction
<1>4. CASE UNCHANGED vars
    BY <1>4 DEF vars
<1> QED BY <1>1, <1>2, <1>3, <1>4 DEF Next, Stopped

-------------------------------------------------------------------------------
(* The rollback undoes what was done *)

\* The script is a beginning of the agenda, in which the undoing action comes first.
LEMMA ScriptStep ==
    ASSUME TypeOK, ScriptInv, [Next]_vars
    PROVE  ScriptInv'
<1> USE DEF ScriptInv
<1>1. CASE ScheduleNext
    <2>1. /\ script \in Seq(Entries) /\ Agenda \in Seq(Entries)
          /\ pc = "schedule" /\ Len(script) < Len(Agenda)
          /\ script' = Append(script, Agenda[Len(script) + 1])
        BY <1>1, AgendaFacts DEF ScheduleNext, TypeOK
    <2>2. Agenda' = Agenda /\ pc' = pc
        BY <1>1 DEF ScheduleNext, Agenda, processVars
    <2>3. Agenda[Len(script) + 1] \in Entries
        BY <2>1
    <2>4. /\ script' \in Seq(Entries) /\ Len(script') = Len(script) + 1
          /\ \A j \in 1..Len(script) : script'[j] = script[j]
          /\ script'[Len(script) + 1] = Agenda[Len(script) + 1]
        BY <2>1, <2>3, AppendFacts
    <2>5. \A j \in DOMAIN script' : script'[j] = Agenda[j] /\ j \in DOMAIN Agenda
        BY <2>1, <2>4
    <2>6. ASSUME NEW j \in DOMAIN script', ~IsRollback(script'[j])
          PROVE  /\ j - 1 \in DOMAIN script'
                 /\ IsRollback(script'[j - 1])
                 /\ script'[j - 1].op # script'[j].op
                 /\ script'[j - 1].data = script'[j].data
        <3>1. /\ j \in {2, 4} /\ IsRollback(Agenda[j - 1])
              /\ Agenda[j - 1].op # Agenda[j].op
              /\ Agenda[j - 1].data = Agenda[j].data
            BY <2>5, <2>6, AgendaFacts DEF TypeOK
        <3>2. j - 1 \in DOMAIN script'
            BY <2>4, <3>1
        <3> QED BY <2>5, <3>1, <3>2
    <2> QED BY <2>1, <2>2, <2>5, <2>6
<1>2. CASE UNCHANGED script /\ pc' \notin {"process", "schedule"}
    BY <1>2
<1>3. CASE FetchRow \/ TableRead \/ UNCHANGED vars
    <2>1. script' = script
        BY <1>3 DEF FetchRow, TableRead, vars, scriptVars
    <2>2. pc' = "schedule" => pc = "process" \/ (pc = "schedule" /\ Agenda' = Agenda)
        BY <1>3 DEF FetchRow, TableRead, vars, processVars, Agenda
    <2>3. pc' = "process" => pc = "process"
        BY <1>3 DEF FetchRow, TableRead, vars
    <2> QED BY <2>1, <2>2, <2>3
<1>4. \/ ScheduleNext \/ FetchRow \/ TableRead \/ UNCHANGED vars
      \/ UNCHANGED script /\ pc' \notin {"process", "schedule"}
    <2> USE DEF scriptVars
    <2>1. CASE ProcessPackages
        BY <2>1 DEF ProcessPackages, ProcessFails, ScheduleFails, Scheduled
    <2>2. CASE Installer
        BY <2>2 DEF Installer, KeepForRollback, RunDeferred, OtherActionFails, Commit,
                    RunRollback, RolledBack, Enter
    <2>3. CASE CustomAction
        BY <2>3 DEF CustomAction, HandlePackage, ReadFails, Fail, ProgressOk,
                    ProgressCancelled, ActionSucceeds, Return
    <2> QED BY <2>1, <2>2, <2>3 DEF Next, Stopped
<1> QED BY <1>1, <1>2, <1>3, <1>4

\* What the installer keeps and where it is.
LEMMA KeptFrame ==
    ASSUME RollInv, [Next]_vars
    PROVE  \/ ScheduleNext \/ KeepForRollback \/ RunDeferred \/ rolling'
           \/ UNCHANGED <<script, at, undo, running>> /\ (Working' => Working)
<1> USE DEF Working, processVars, scriptVars, actionVars, histories
<1>1. CASE ProcessPackages
    BY <1>1 DEF ProcessPackages, FetchRow, TableRead, ProcessFails, ScheduleFails,
                Scheduled
<1>2. CASE Installer
    BY <1>2 DEF Installer, OtherActionFails, Commit, RunRollback, RolledBack, RollInv
<1>3. CASE CustomAction
    BY <1>3 DEF CustomAction, HandlePackage, ReadFails, Fail, ProgressOk,
                ProgressCancelled, ActionSucceeds, Return
<1>4. CASE UNCHANGED vars
    BY <1>4 DEF vars
<1> QED BY <1>1, <1>2, <1>3, <1>4 DEF Next, Stopped

\* Every rollback action the installer has come to is kept, and so the one that
\* undoes the action it runs.
LEMMA KeptStep ==
    ASSUME TypeOK, RollInv, ScriptInv, KeptInv, [Next]_vars
    PROVE  KeptInv'
<1> USE DEF KeptInv
<1>a. script \in Seq(Entries) /\ undo \in Seq(Entries) /\ at \in 1..(Len(script) + 1)
    BY DEF TypeOK
<1>1. CASE ScheduleNext
    <2>1. /\ pc = "schedule" /\ pc' = pc /\ at' = at /\ undo' = undo
          /\ rolling' = rolling /\ Agenda[Len(script) + 1] \in Entries
          /\ script' = Append(script, Agenda[Len(script) + 1])
        BY <1>1, AgendaFacts DEF ScheduleNext, TypeOK
    <2>2. at <= Len(script) + 1 /\ \A j \in DOMAIN script : script'[j] = script[j]
        BY <1>a, <2>1, AppendFacts
    <2>3. \A j \in DOMAIN script' : j < at' => j \in DOMAIN script
        BY <1>a, <2>1, <2>2
    <2> QED BY <2>1, <2>2, <2>3 DEF Working
<1>2. CASE KeepForRollback
    <2>1. /\ at \in DOMAIN script /\ undo' = <<script[at]>> \o undo /\ at' = at + 1
          /\ script' = script /\ rolling' = rolling /\ pc' = "execute"
        BY <1>2, <1>a DEF KeepForRollback
    <2>2. script[at] \in Entries
        BY <1>a, <2>1
    <2>3. 1 \in DOMAIN undo' /\ undo'[1] = script[at]
        BY <1>a, <2>1, <2>2, PushFacts
    <2>4. \A u \in DOMAIN undo : u + 1 \in DOMAIN undo' /\ undo'[u + 1] = undo[u]
        BY <1>a, <2>1, <2>2, PushFacts
    <2>5. ASSUME ~rolling', NEW j \in DOMAIN script, j < at', IsRollback(script[j])
          PROVE  \E u \in DOMAIN undo' : undo'[u] = script[j]
        <3>1. CASE j = at
            BY <2>3, <3>1
        <3>2. CASE j < at
            BY <2>1, <2>4, <2>5, <3>2
        <3> QED BY <1>a, <2>1, <2>5, <3>1, <3>2
    <2> QED BY <2>1, <2>5 DEF Working
<1>3. CASE RunDeferred
    <2>1. /\ at \in DOMAIN script /\ ~IsRollback(script[at]) /\ at' = at + 1
          /\ script' = script /\ undo' = undo /\ rolling' = rolling
          /\ running' = script[at] /\ ~rolling
        BY <1>3, <1>a DEF RunDeferred, Enter, RollInv
    <2>2. /\ at - 1 \in DOMAIN script /\ IsRollback(script[at - 1])
          /\ script[at - 1].op # script[at].op
          /\ script[at - 1].data = script[at].data
        BY <2>1 DEF ScriptInv
    <2>3. \E u \in DOMAIN undo : undo[u] = script[at - 1]
        BY <1>a, <2>1, <2>2
    <2>4. \A j \in DOMAIN script : j < at' /\ IsRollback(script[j]) => j < at
        BY <1>a, <2>1
    <2> QED BY <2>1, <2>2, <2>3, <2>4
<1>4. CASE rolling'
    BY <1>4
<1>5. CASE UNCHANGED <<script, at, undo, running, rolling>> /\ (Working' => Working)
    BY <1>5
<1>6. rolling' \/ rolling' = rolling
    BY DEF Next, ProcessPackages, Installer, CustomAction, Stopped, FetchRow,
           ProcessFails, TableRead, ScheduleNext, ScheduleFails, Scheduled,
           KeepForRollback, RunDeferred, OtherActionFails, Commit, RunRollback,
           RolledBack, HandlePackage, ReadFails, Fail, ProgressOk,
           ProgressCancelled, ActionSucceeds, Return, vars, scriptVars
<1> QED BY <1>1, <1>2, <1>3, <1>4, <1>5, <1>6, KeptFrame

\* The items an action has still to read are items of its entry.
LEMMA QueueStep ==
    ASSUME TypeOK, QueueInv, [Next]_vars
    PROVE  QueueInv'
<1> USE DEF QueueInv, Working
<1>1. CASE RunDeferred \/ RunRollback
    BY <1>1 DEF RunDeferred, RunRollback, Enter
<1>2. ASSUME NEW inited \in BOOLEAN, NEW needs \in BOOLEAN,
             HandlePackage(inited, needs)
      PROVE  QueueInv'
    <2>1. queue \in Seq(Items) /\ queue # << >> /\ queue' = Tail(queue)
          /\ running' = running
        BY <1>2 DEF HandlePackage, TypeOK
    <2>2. \A i \in DOMAIN queue' : i + 1 \in DOMAIN queue /\ queue'[i] = queue[i + 1]
        BY <2>1, HeadTailFacts
    <2>3. pc = "work"
        BY <1>2 DEF HandlePackage
    <2> QED BY <2>1, <2>2, <2>3
<1>3. CASE ProgressOk
    BY <1>3 DEF ProgressOk, actionVars
<1>4. CASE pc' \notin {"work", "progress"}
    BY <1>4
<1>5. CASE UNCHANGED vars
    BY <1>5 DEF vars, actionVars
<1>6. \/ RunDeferred \/ RunRollback \/ ProgressOk
      \/ \E inited, needs \in BOOLEAN : HandlePackage(inited, needs)
      \/ pc' \notin {"work", "progress"} \/ UNCHANGED vars
    <2>1. CASE ProcessPackages
        BY <2>1 DEF ProcessPackages, FetchRow, ProcessFails, TableRead, ScheduleNext,
                    ScheduleFails, Scheduled
    <2>2. CASE Installer
        BY <2>2 DEF Installer, KeepForRollback, OtherActionFails, Commit, RolledBack
    <2>3. CASE CustomAction
        BY <2>3 DEF CustomAction, ReadFails, Fail, ProgressCancelled, ActionSucceeds,
                    Return
    <2> QED BY <2>1, <2>2, <2>3 DEF Next, Stopped
<1> QED BY <1>1, <1>2, <1>3, <1>4, <1>5, <1>6

\* A rollback action runs.
RollbackRuns == rolling /\ Working

\* The undoing of a call is not lost where nothing that counts for it changes.
LEMMA UndoFrame ==
    ASSUME TypeOK, RollInv, [Next]_vars
    PROVE  \/ KeepForRollback \/ RunRollback
           \/ \E inited, needs \in BOOLEAN : HandlePackage(inited, needs)
           \/ ReadFails /\ rolling
           \/ ActionSucceeds
           \/ /\ UNCHANGED <<undo, log, cut>>
              /\ RollbackRuns => RollbackRuns' /\ UNCHANGED <<running, queue>>
<1> USE DEF processVars, scriptVars, actionVars, histories, RollbackRuns, Working
<1>1. CASE ProcessPackages
    BY <1>1 DEF ProcessPackages, FetchRow, ProcessFails, TableRead, ScheduleNext,
                ScheduleFails, Scheduled
<1>2. CASE RunDeferred
    BY <1>2 DEF RunDeferred, Enter
<1>3. CASE OtherActionFails \/ Commit \/ RolledBack
    BY <1>3 DEF OtherActionFails, Commit, RolledBack
<1>4. CASE ReadFails /\ ~rolling
    <2>1. cut' = cut
        BY <1>4 DEF ReadFails, TypeOK
    <2> QED BY <1>4, <2>1 DEF ReadFails, Fail
<1>5. CASE ProgressOk \/ ProgressCancelled
    BY <1>5 DEF ProgressOk, ProgressCancelled, Fail
<1>6. CASE UNCHANGED vars
    BY <1>6 DEF vars
<1> QED BY <1>1, <1>2, <1>3, <1>4, <1>5, <1>6
        DEF Next, Installer, CustomAction, Stopped

\* A call is entered in the log with its inverse kept; the rollback takes the inverse
\* from what is kept, reads its item, and makes the call.
LEMMA UndoStep ==
    ASSUME TypeOK, RollInv, KeptInv, QueueInv, UndoInv, [Next]_vars
    PROVE  UndoInv'
<1>a. log \in Seq(Calls) /\ undo \in Seq(Entries) /\ queue \in Seq(Items)
    BY DEF TypeOK
<1>b. ~cut => \A k \in DOMAIN log :
                  ~log[k].rolling => ToUndo(k) \/ BeingUndone(k) \/ Undone(k)
    BY DEF UndoInv
<1>1. CASE KeepForRollback
    <2>1. /\ script[at] \in Entries /\ undo' = <<script[at]>> \o undo
          /\ log' = log /\ cut' = cut /\ pc = "execute"
        BY <1>1 DEF KeepForRollback, TypeOK, histories
    <2>2. \A u \in DOMAIN undo : u + 1 \in DOMAIN undo' /\ undo'[u + 1] = undo[u]
        BY <1>a, <2>1, PushFacts
    <2>3. ASSUME NEW k \in DOMAIN log, ToUndo(k) PROVE ToUndo(k)'
        <3>1. PICK u \in DOMAIN undo :
                  /\ undo[u].op # log[k].op
                  /\ \E i \in DOMAIN undo[u].data : undo[u].data[i].pkg = log[k].pkg
            BY <2>3 DEF ToUndo
        <3>2. u + 1 \in DOMAIN undo' /\ undo'[u + 1] = undo[u] /\ log'[k] = log[k]
            BY <2>1, <2>2
        <3> QED BY <3>1, <3>2 DEF ToUndo
    <2>4. \A k \in DOMAIN log : ~BeingUndone(k) /\ (Undone(k) => Undone(k)')
        BY <2>1 DEF BeingUndone, Undone, Working
    <2> QED BY <1>b, <2>1, <2>3, <2>4 DEF UndoInv
<1>2. CASE RunRollback
    <2>1. /\ undo # << >> /\ undo' = Tail(undo) /\ running' = Head(undo)
          /\ queue' = Head(undo).data /\ pc = "unwind" /\ pc' = "work"
          /\ rolling' = rolling /\ log' = log /\ cut' = cut
        BY <1>2 DEF RunRollback, Enter, histories
    <2>2. rolling /\ Head(undo) = undo[1]
        BY <1>a, <2>1, HeadTailFacts DEF RollInv
    <2>3. \A u \in DOMAIN undo : u = 1 \/ (u - 1 \in DOMAIN undo' /\ undo'[u - 1] = undo[u])
        BY <1>a, <2>1, HeadTailFacts
    <2>4. ASSUME NEW k \in DOMAIN log, ToUndo(k)
          PROVE  ToUndo(k)' \/ BeingUndone(k)'
        <3>1. PICK u \in DOMAIN undo :
                  /\ undo[u].op # log[k].op
                  /\ \E i \in DOMAIN undo[u].data : undo[u].data[i].pkg = log[k].pkg
            BY <2>4 DEF ToUndo
        <3>2. log'[k] = log[k]
            BY <2>1
        <3>3. CASE u = 1
            <4>1. running' = undo[u] /\ queue' = undo[u].data /\ rolling' /\ Working'
                BY <2>1, <2>2, <3>3 DEF Working
            <4> QED BY <3>1, <3>2, <4>1 DEF BeingUndone
        <3>4. CASE u # 1
            <4>1. u - 1 \in DOMAIN undo' /\ undo'[u - 1] = undo[u]
                BY <2>3, <3>4
            <4> QED BY <3>1, <3>2, <4>1 DEF ToUndo
        <3> QED BY <3>3, <3>4
    <2>5. \A k \in DOMAIN log : ~BeingUndone(k) /\ (Undone(k) => Undone(k)')
        BY <2>1 DEF BeingUndone, Undone, Working
    <2> QED BY <1>b, <2>1, <2>4, <2>5 DEF UndoInv
<1>3. ASSUME NEW inited \in BOOLEAN, NEW needs \in BOOLEAN,
             HandlePackage(inited, needs)
      PROVE  UndoInv'
    <2> DEFINE n == Len(log) + 1
    <2>1. /\ queue # << >> /\ queue' = Tail(queue) /\ running' = running
          /\ undo' = undo /\ rolling' = rolling /\ cut' = cut
          /\ Working /\ Working'
        BY <1>3 DEF HandlePackage, Working, scriptVars
    <2>2. /\ Len(log') = n /\ n \in Nat /\ \A k \in 1..Len(log) : log'[k] = log[k]
          /\ log'[n].op = running.op /\ log'[n].pkg = queue[1].pkg
          /\ log'[n].rolling = rolling /\ log' \in Seq(Calls)
        BY <1>3, <1>a, CallFacts
    <2>3. 1 \in DOMAIN queue
          /\ \A i \in DOMAIN queue : i = 1 \/ (i - 1 \in DOMAIN queue'
                                               /\ queue'[i - 1] = queue[i])
        BY <1>a, <2>1, HeadTailFacts
    <2>4. DOMAIN log' = DOMAIN log \cup {n} /\ DOMAIN log = 1..Len(log)
        BY <1>a, <2>2
    <2>5. ASSUME NEW k \in DOMAIN log
          PROVE  /\ ToUndo(k) => ToUndo(k)'
                 /\ BeingUndone(k) => BeingUndone(k)' \/ Undone(k)'
                 /\ Undone(k) => Undone(k)'
        <3>1. log'[k] = log[k] /\ k \in 1..Len(log)
            BY <2>2, <2>4
        <3>2. ToUndo(k) => ToUndo(k)'
            BY <2>1, <3>1 DEF ToUndo
        <3>3. n \in (k + 1)..Len(log')
            BY <1>a, <2>2, <3>1
        <3>4. ASSUME BeingUndone(k) PROVE BeingUndone(k)' \/ Undone(k)'
            <4>1. /\ rolling /\ running.op # log[k].op
                  /\ \E i \in DOMAIN queue : queue[i].pkg = log[k].pkg
                BY <3>4 DEF BeingUndone
            <4>2. PICK i \in DOMAIN queue : queue[i].pkg = log[k].pkg
                BY <4>1
            <4>3. CASE i = 1
                <5>1. /\ log'[n].rolling /\ log'[n].pkg = log'[k].pkg
                      /\ log'[n].op # log'[k].op
                    BY <2>2, <3>1, <4>1, <4>2, <4>3
                <5> QED BY <3>3, <5>1 DEF Undone
            <4>4. CASE i # 1
                <5>1. i - 1 \in DOMAIN queue' /\ queue'[i - 1].pkg = log'[k].pkg
                    BY <2>3, <3>1, <4>2, <4>4
                <5> QED BY <2>1, <3>1, <4>1, <5>1 DEF BeingUndone
            <4> QED BY <4>3, <4>4
        <3>5. \A m \in (k + 1)..Len(log) : m \in (k + 1)..Len(log') /\ log'[m] = log[m]
            BY <1>a, <2>2, <3>1
        <3>6. Undone(k) => Undone(k)'
            BY <3>1, <3>5 DEF Undone
        <3> QED BY <3>2, <3>4, <3>6
    <2>6. ASSUME NEW k, k = n, ~rolling PROVE ToUndo(k)'
        <3>1. PICK j \in DOMAIN running.data : running.data[j] = queue[1]
            BY <2>1, <2>3 DEF QueueInv
        <3>2. PICK u \in DOMAIN undo :
                  undo[u].op # running.op /\ undo[u].data = running.data
            BY <2>1, <2>6 DEF KeptInv
        <3>3. /\ undo[u].op # log'[k].op
              /\ undo[u].data[j].pkg = log'[k].pkg /\ j \in DOMAIN undo[u].data
            BY <2>2, <2>6, <3>1, <3>2
        <3> QED BY <2>1, <3>2, <3>3 DEF ToUndo
    <2>7. ASSUME ~cut', NEW k \in DOMAIN log', ~log'[k].rolling
          PROVE  ToUndo(k)' \/ BeingUndone(k)' \/ Undone(k)'
        <3>1. CASE k = n
            BY <2>2, <2>6, <2>7, <3>1
        <3>2. CASE k \in DOMAIN log
            <4>1. ~log[k].rolling /\ ~cut
                BY <2>1, <2>2, <2>4, <2>7, <3>2
            <4> QED BY <1>b, <2>5, <3>2, <4>1
        <3> QED BY <2>4, <3>1, <3>2
    <2> QED BY <2>7 DEF UndoInv
<1>4. CASE ReadFails /\ rolling
    BY <1>4 DEF ReadFails, UndoInv
<1>5. CASE ActionSucceeds
    <2>1. queue = << >> /\ UNCHANGED <<undo, log, cut>>
        BY <1>5 DEF ActionSucceeds, scriptVars
    <2>2. \A k \in DOMAIN log : /\ ToUndo(k) => ToUndo(k)'
                                /\ ~BeingUndone(k)
                                /\ Undone(k) => Undone(k)'
        BY <2>1 DEF ToUndo, BeingUndone, Undone
    <2> QED BY <1>b, <2>1, <2>2 DEF UndoInv
<1>6. CASE /\ UNCHANGED <<undo, log, cut>>
           /\ RollbackRuns => RollbackRuns' /\ UNCHANGED <<running, queue>>
    <2>1. \A k \in DOMAIN log : /\ ToUndo(k) => ToUndo(k)'
                                /\ BeingUndone(k) => BeingUndone(k)'
                                /\ Undone(k) => Undone(k)'
        BY <1>6 DEF ToUndo, BeingUndone, Undone, RollbackRuns
    <2> QED BY <1>6, <1>b, <2>1 DEF UndoInv
<1> QED BY <1>1, <1>2, <1>3, <1>4, <1>5, <1>6, UndoFrame

-------------------------------------------------------------------------------
(* The theorems *)

\* The invariants hold together in every reachable state.
LEMMA InductiveInvariant == Spec => []IInv
<1>1. IInv /\ [Next]_vars => IInv'
    BY TypeStep, RollStep, ScriptStep, KeptStep, QueueStep, UndoStep, RebootStep,
       WantedStep, ScanStep DEF IInv
<1> QED BY <1>1, InitInv, PTL DEF Spec

\* Every variable keeps its type.
THEOREM TypeCorrect == Spec => []TypeOK
<1>1. IInv => TypeOK
    BY DEF IInv
<1> QED BY <1>1, InductiveInvariant, PTL

\* A finished rollback has handed every package handled before, up to the very one
\* at which the installation stopped, to the inverse operation, for every table and
\* every place of failure, unless a rollback action itself was cut short.
THEOREM RollbackIsComplete == Spec => []UndoComplete
<1>1. IInv => UndoComplete
    BY DEF IInv, RollInv, UndoInv, UndoComplete, ToUndo, BeingUndone, Working
<1> QED BY <1>1, InductiveInvariant, PTL

\* What the reboot variable of InstallPackages and UninstallPackages stands for.
THEOREM RebootFlagMeaning == Spec => []RebootFlagExact
<1>1. IInv => RebootFlagExact
    BY DEF IInv
<1> QED BY <1>1, InductiveInvariant, PTL

\* No reboot is asked for that no package wanted.
THEOREM RebootWanted == Spec => []RebootOnlyIfWanted
<1>1. IInv => RebootOnlyIfWanted
    BY DEF IInv, WantedInv, RebootOnlyIfWanted
<1> QED BY <1>1, InductiveInvariant, PTL

\* A committed installation has called the rescan after its last package.
THEOREM CommitIsScanned == Spec => []CommittedScanned
<1>1. IInv => CommittedScanned
    BY DEF IInv, ScanInv, CommittedScanned
<1> QED BY <1>1, InductiveInvariant, PTL
===============================================================================
