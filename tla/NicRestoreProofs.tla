--------------------------- MODULE NicRestoreProofs ---------------------------
(***************************************************************************)
(* The safety properties of NicRestore, for every number of adapters,      *)
(* records and retries, and that the loop implements RestorePromise.       *)
(***************************************************************************)
EXTENDS NicRestore, FiniteSetTheorems, WellFoundedInduction, TLAPS

-------------------------------------------------------------------------------
(* Lemmas about the selection of a record *)

\* A non-empty set of naturals has a least element.
LEMMA LeastExists ==
    ASSUME NEW T \in SUBSET Nat, T # {}
    PROVE  \E x \in T : \A y \in T : x <= y
<1> DEFINE R == OpToRel(<, Nat)
<1>1. \A x, y \in Nat : y < x => <<y, x>> \in R
    BY DEF OpToRel
<1>2. IsWellFoundedOn(R, Nat)
    BY NatLessThanWellFounded
<1>3. PICK x \in T : \A y \in T : ~ (<<y, x>> \in R)
    <2> HIDE DEF R
    <2> QED BY <1>2, WFMin
<1>4. ASSUME NEW y \in T PROVE x <= y
    <2>1. ~ (y < x)
        <3> HIDE DEF R
        <3> QED BY <1>1, <1>3
    <2> QED BY <2>1
<1> HIDE DEF R
<1> QED BY <1>4

\* The indices of the records are naturals from 1 on, and they are records.
LEMMA SavedFacts ==
    ASSUME TypeOK
    PROVE  /\ Saved \subseteq Nat
           /\ 0 \notin Saved
           /\ \A i \in Saved : adapters[i] \in Records
<1>1. adapters \in Seq(Records)
    BY SavedAssumption DEF TypeOK
<1> QED BY <1>1 DEF Saved

\* The inner loop stops at a record exactly when some pending one matches.
LEMMA ChosenExists ==
    ASSUME TypeOK, NEW mac, NEW svc
    PROVE  Chosen(mac, svc) = {} <=> Candidates(mac, svc) = {}
<1>1. Candidates(mac, svc) \in SUBSET Nat
    BY SavedFacts DEF Candidates
<1>2. CASE Candidates(mac, svc) = {}
    BY <1>2 DEF Chosen
<1>3. CASE Candidates(mac, svc) # {}
    BY <1>1, <1>3, LeastExists DEF Chosen
<1> QED BY <1>2, <1>3

\* The record it stops at is pending, matches, and is the first to do so.
LEMMA ChosenFacts ==
    ASSUME TypeOK, NEW mac, NEW svc, NEW i \in Chosen(mac, svc)
    PROVE  /\ i \in Pending
           /\ adapters[i].mac = mac /\ adapters[i].svc = svc
           /\ \A j \in Pending : j < i => ~ SameKey(j, i)
<1>1. i \in Saved \ restored /\ adapters[i].mac = mac /\ adapters[i].svc = svc
    BY DEF Chosen, Candidates, Matches
<1>2. ASSUME NEW j \in Pending, j < i, SameKey(j, i) PROVE FALSE
    <2>1. j \in Candidates(mac, svc)
        BY <1>1, <1>2 DEF Candidates, Matches, SameKey, Pending
    <2>2. i <= j
        BY <2>1 DEF Chosen
    <2>3. i \in Nat /\ j \in Nat
        BY <1>1, SavedFacts DEF Pending
    <2> QED BY <1>2, <2>2, <2>3
<1> QED BY <1>1, <1>2 DEF Pending

-------------------------------------------------------------------------------
(* The inductive invariant *)

\* The invariant holds before the first attempt: nothing is chosen or applied.
LEMMA InitInv == Init => IInv
<1> SUFFICES ASSUME Init PROVE IInv
    OBVIOUS
<1>1. TypeOK
    BY RetriesAssumption, SavedAssumption DEF Init, TypeOK, Saved, Calls
<1>2. LoopInv /\ ApplyInv /\ SeenIsServed
    BY DEF Init, LoopInv, ApplyInv, SeenIsServed
<1>3. RightNic
    BY DEF Init, RightNic
<1>4. FileOrder
    BY DEF Init, FileOrder, InFlight
<1>5. UnusedUntouched
    BY <1>1, SavedFacts DEF Init, UnusedUntouched, Untouched
<1> QED BY <1>1, <1>2, <1>3, <1>4, <1>5 DEF IInv

\* Every step of the loop, and every start or stop of a device, keeps the types.
LEMMA TypeStep ==
    ASSUME IInv, [Next]_vars
    PROVE  TypeOK'
<1> USE RetriesAssumption DEF Saved, Calls, loopVars, workVars, effects
<1>0. TypeOK /\ LoopInv /\ ApplyInv
    BY DEF IInv
<1>1. CASE QuerySucceeds
    BY <1>0, <1>1 DEF TypeOK, QuerySucceeds
<1>2. CASE QueryFails
    BY <1>0, <1>2 DEF TypeOK, QueryFails, MoreAttempts
<1>3. CASE ReadAny
    <2>1. PICK n \in Nics : \E mac, svc : ReadRow(n, mac, svc)
        BY <1>3 DEF ReadAny
    <2>2. PICK mac, svc : ReadRow(n, mac, svc)
        BY <2>1
    <2>3. Chosen(mac, svc) \subseteq DOMAIN adapters
        BY DEF Chosen, Candidates
    <2> QED BY <1>0, <2>2, <2>3 DEF TypeOK, ReadRow
<1>4. CASE ScanEnds
    BY <1>0, <1>4 DEF TypeOK, ScanEnds, LoopInv
<1>5. CASE CallTakesEffect
    <2>1. idx \in DOMAIN adapters /\ cur \in Nics
        BY <1>0, <1>5 DEF ApplyInv, Pending, CallTakesEffect
    <2>2. CASE call = HostWide
        BY <1>0, <1>5, <2>1, <2>2 DEF TypeOK, CallTakesEffect
    <2>3. CASE call # HostWide
        BY <1>0, <1>5, <2>1, <2>3 DEF TypeOK, CallTakesEffect
    <2> QED BY <2>2, <2>3
<1>6. CASE CallHasNoEffect
    BY <1>0, <1>6 DEF TypeOK, CallHasNoEffect
<1>7. CASE ApplyReturns
    <2>1. idx \in DOMAIN adapters
        BY <1>0, <1>7 DEF ApplyInv, Pending, ApplyReturns
    <2> QED BY <1>0, <1>7, <2>1 DEF TypeOK, ApplyReturns
<1>8. CASE LoopEnds
    BY <1>0, <1>8 DEF TypeOK, LoopEnds
<1>9. CASE Report
    BY <1>0, <1>9 DEF TypeOK, Report, Pending
<1>10. CASE PlugAndPlay
    BY <1>0, <1>10 DEF TypeOK, PlugAndPlay, Start, Stop
<1>11. CASE UNCHANGED vars
    BY <1>0, <1>11 DEF TypeOK, vars
<1> QED BY <1>1, <1>2, <1>3, <1>4, <1>5, <1>6, <1>7, <1>8, <1>9, <1>10, <1>11
        DEF Next, Restore

\* The loop's control keeps its place: an attempt is begun only while attempts are
\* left, and the report comes after the last.
LEMMA LoopStep ==
    ASSUME IInv, [Next]_vars
    PROVE  LoopInv'
<1> USE DEF Saved, Pending, loopVars, workVars
<1>0. TypeOK /\ LoopInv /\ attempt \in Nat
    BY RetriesAssumption DEF IInv, TypeOK
<1>1. CASE QuerySucceeds
    BY <1>0, <1>1, RetriesAssumption DEF LoopInv, QuerySucceeds, MoreAttempts
<1>2. CASE QueryFails
    BY <1>0, <1>2 DEF LoopInv, QueryFails, MoreAttempts
<1>3. CASE ReadAny
    BY <1>0, <1>3 DEF LoopInv, ReadAny, ReadRow
<1>4. CASE ScanEnds
    BY <1>0, <1>4 DEF LoopInv, ScanEnds
<1>5. CASE CallTakesEffect
    BY <1>0, <1>5 DEF LoopInv, CallTakesEffect
<1>6. CASE CallHasNoEffect
    BY <1>0, <1>6 DEF LoopInv, CallHasNoEffect
<1>7. CASE ApplyReturns
    BY <1>0, <1>7 DEF LoopInv, ApplyReturns
<1>8. CASE LoopEnds
    BY <1>0, <1>8 DEF LoopInv, LoopEnds
<1>9. CASE Report
    BY <1>0, <1>9 DEF LoopInv, Report
<1>10. CASE PlugAndPlay
    BY <1>0, <1>10 DEF LoopInv, PlugAndPlay, Start, Stop
<1>11. CASE UNCHANGED vars
    BY <1>0, <1>11 DEF LoopInv, vars
<1> QED BY <1>1, <1>2, <1>3, <1>4, <1>5, <1>6, <1>7, <1>8, <1>9, <1>10, <1>11
        DEF Next, Restore

\* Only a row that was read starts the work on a record, and the record was
\* chosen for that row.
LEMMA ApplyStep ==
    ASSUME IInv, [Next]_vars
    PROVE  ApplyInv'
<1> USE DEF Saved, Pending, loopVars, workVars
<1>0. TypeOK /\ ApplyInv
    BY DEF IInv
<1>1. CASE ReadAny
    <2>0. PICK n \in Nics :
              \E mac \in {MacOf[n], Unread}, svc \in {ServiceOf[n], Unread} :
                  ReadRow(n, mac, svc)
        BY <1>1 DEF ReadAny
    <2>1. PICK mac \in {MacOf[n], Unread}, svc \in {ServiceOf[n], Unread} :
              ReadRow(n, mac, svc)
        BY <2>0
    <2>2. CASE Chosen(mac, svc) = {}
        BY <2>1, <2>2 DEF ReadRow, ApplyInv
    <2>3. CASE idx' \in Chosen(mac, svc)
        <3>1. idx' \in Pending /\ adapters[idx'].mac = mac /\ adapters[idx'].svc = svc
            BY <1>0, <2>3, ChosenFacts
        <3> QED BY <2>1, <3>1 DEF ReadRow, ApplyInv, ReadFrom
    <2> QED BY <2>1, <2>2, <2>3 DEF ReadRow
<1>2. CASE QuerySucceeds \/ QueryFails \/ ScanEnds \/ ApplyReturns \/ LoopEnds \/ Report
    BY <1>2 DEF ApplyInv, QuerySucceeds, QueryFails, MoreAttempts, ScanEnds,
                ApplyReturns, LoopEnds, Report
<1>3. CASE CallTakesEffect \/ CallHasNoEffect
    BY <1>0, <1>3 DEF ApplyInv, ReadFrom, CallTakesEffect, CallHasNoEffect
<1>4. CASE PlugAndPlay
    BY <1>0, <1>4 DEF ApplyInv, ReadFrom, PlugAndPlay, Start, Stop
<1>5. CASE UNCHANGED vars
    BY <1>0, <1>5 DEF ApplyInv, ReadFrom, vars
<1> QED BY <1>1, <1>2, <1>3, <1>4, <1>5 DEF Next, Restore

\* A step leaves the records and the settings in force as they are, except the
\* call that takes effect.
LEMMA EffectsFrame ==
    ASSUME [Next]_vars
    PROVE  /\ adapters' = adapters
           /\ CallTakesEffect \/ UNCHANGED <<inForce, host>>
BY DEF Next, Restore, PlugAndPlay, QuerySucceeds, QueryFails, ReadAny, ReadRow,
       ScanEnds, CallTakesEffect, CallHasNoEffect, ApplyReturns, LoopEnds, Report,
       Start, Stop, vars, effects

\* Only the adapter whose row is loaded receives settings, and only of a record
\* that was chosen for it.
LEMMA RightNicStep ==
    ASSUME IInv, [Next]_vars
    PROVE  RightNic'
<1>0. TypeOK /\ ApplyInv /\ RightNic
    BY DEF IInv
<1>1. CASE UNCHANGED <<inForce, host>>
    BY <1>0, <1>1, EffectsFrame DEF RightNic
<1>2. CASE CallTakesEffect
    <2> SUFFICES ASSUME NEW n \in Nics, NEW c \in Calls, inForce'[n][c] # 0
                 PROVE  LET r == adapters[inForce'[n][c]]
                        IN  r.mac \in {MacOf[n], Unread} /\ r.svc \in {ServiceOf[n], Unread}
        BY <1>2 DEF RightNic, CallTakesEffect
    <2>1. CASE inForce'[n][c] = inForce[n][c]
        BY <1>0, <2>1 DEF RightNic
    <2>2. CASE inForce'[n][c] # inForce[n][c]
        <3>1. n = cur /\ inForce'[n][c] = idx
            BY <1>0, <1>2, <2>2 DEF CallTakesEffect, TypeOK
        <3> QED BY <1>0, <1>2, <3>1 DEF ApplyInv, ReadFrom, CallTakesEffect
    <2> QED BY <2>1, <2>2
<1> QED BY <1>1, <1>2, EffectsFrame

\* A record does not drop out of those restored or in work, and only a row that
\* was read adds to the adapters seen.
LEMMA ServedFrame ==
    ASSUME IInv, [Next]_vars
    PROVE  /\ restored \cup InFlight \subseteq (restored \cup InFlight)'
           /\ ReadAny \/ seen' = seen
<1> USE DEF InFlight, loopVars, workVars
<1>1. CASE ReadAny
    BY <1>1 DEF ReadAny, ReadRow
<1>2. CASE QuerySucceeds \/ QueryFails \/ ScanEnds
    BY <1>2 DEF QuerySucceeds, QueryFails, MoreAttempts, ScanEnds
<1>3. CASE CallTakesEffect \/ CallHasNoEffect \/ ApplyReturns
    BY <1>3 DEF CallTakesEffect, CallHasNoEffect, ApplyReturns
<1>4. CASE LoopEnds \/ Report
    BY <1>4 DEF LoopEnds, Report
<1>5. CASE PlugAndPlay
    BY <1>5 DEF PlugAndPlay, Start, Stop
<1>6. CASE UNCHANGED vars
    BY <1>6 DEF vars
<1> QED BY <1>1, <1>2, <1>3, <1>4, <1>5, <1>6 DEF Next, Restore

\* A row that was read is given a record if one describes it, and keeps it.
LEMMA ServedStep ==
    ASSUME IInv, [Next]_vars
    PROVE  SeenIsServed'
<1>0. TypeOK /\ SeenIsServed /\ ApplyInv
    BY DEF IInv
<1> SUFFICES ASSUME NEW n \in seen', NEW i \in Saved, Describes(i, n)
             PROVE  \E k \in (restored \cup InFlight)' : Describes(k, n)
    BY EffectsFrame DEF SeenIsServed, Describes, Saved
<1>1. CASE n \in seen
    BY <1>0, <1>1, ServedFrame DEF SeenIsServed
<1>2. CASE n \notin seen
    <2>1. PICK mac, svc : ReadRow(n, mac, svc) /\ mac = MacOf[n] /\ svc = ServiceOf[n]
        BY <1>2, ServedFrame DEF ReadAny, ReadRow
    <2>2. CASE Chosen(mac, svc) = {}
        <3>1. i \in restored
            BY <1>0, <2>1, <2>2, ChosenExists DEF Candidates, Matches, Describes
        <3> QED BY <3>1, ServedFrame
    <2>3. CASE idx' \in Chosen(mac, svc)
        <3>1. Describes(idx', n)
            BY <1>0, <2>1, <2>3, ChosenFacts DEF Describes
        <3>2. idx' \in InFlight' \/ Chosen(mac, svc) = {}
            BY <2>1 DEF ReadRow, InFlight
        <3> QED BY <2>3, <3>1, <3>2
    <2> QED BY <2>1, <2>2, <2>3 DEF ReadRow
<1> QED BY <1>1, <1>2

\* Records join those restored or in work only when they are chosen, and a record
\* in work becomes restored before anything else happens to it.
LEMMA OrderStep ==
    ASSUME IInv, [Next]_vars
    PROVE  FileOrder'
<1>0. TypeOK /\ FileOrder /\ ApplyInv
    BY DEF IInv
<1>1. restored \subseteq restored'
    BY DEF Next, Restore, PlugAndPlay, QuerySucceeds, QueryFails, ReadAny, ReadRow,
           ScanEnds, CallTakesEffect, CallHasNoEffect, ApplyReturns, LoopEnds,
           Report, Start, Stop, vars
<1> SUFFICES ASSUME NEW i \in Saved, NEW j \in Saved, i < j, SameKey(i, j),
                    j \in (restored \cup InFlight)'
             PROVE  i \in restored'
    BY EffectsFrame DEF FileOrder, SameKey, Saved
<1>2. CASE j \in restored \cup InFlight
    BY <1>0, <1>1, <1>2 DEF FileOrder
<1>3. CASE j \notin restored \cup InFlight
    <2>1. ReadAny /\ pc' = "apply" /\ j = idx'
        BY <1>3 DEF Next, Restore, PlugAndPlay, QuerySucceeds, QueryFails, ReadAny,
                    ReadRow, ScanEnds, CallTakesEffect, CallHasNoEffect,
                    ApplyReturns, LoopEnds, Report, Start, Stop, vars, loopVars,
                    workVars, InFlight
    <2>2. PICK mac, svc : idx' \in Chosen(mac, svc)
        BY <2>1 DEF ReadAny, ReadRow
    <2>3. i \notin Pending
        BY <1>0, <2>1, <2>2, ChosenFacts
    <2> QED BY <1>1, <2>3 DEF Pending
<1> QED BY <1>2, <1>3

\* Only the record in work leaves settings behind.
LEMMA UntouchedStep ==
    ASSUME IInv, [Next]_vars
    PROVE  UnusedUntouched'
<1>0. TypeOK /\ UnusedUntouched /\ ApplyInv
    BY DEF IInv
<1> SUFFICES ASSUME NEW i \in Saved, i \notin (restored \cup InFlight)'
             PROVE  Untouched(i)'
    BY EffectsFrame DEF UnusedUntouched, Saved
<1>1. Untouched(i)
    BY <1>0, ServedFrame DEF UnusedUntouched
<1>2. CASE UNCHANGED <<inForce, host>>
    BY <1>1, <1>2 DEF Untouched
<1>3. CASE CallTakesEffect
    <2>1. i # idx
        BY <1>3 DEF CallTakesEffect, InFlight
    <2>2. \A n \in Nics, c \in Calls : inForce'[n][c] \in {inForce[n][c], idx}
        BY <1>0, <1>3 DEF CallTakesEffect, TypeOK
    <2>3. host' \in {host, idx}
        BY <1>3 DEF CallTakesEffect
    <2> QED BY <1>1, <2>1, <2>2, <2>3 DEF Untouched
<1> QED BY <1>2, <1>3, EffectsFrame

\* The strengthened invariant holds in every state of every behaviour.
LEMMA InductiveInvariant == Spec => []IInv
<1>1. Init => IInv
    BY InitInv
<1>2. IInv /\ [Next]_vars => IInv'
    BY TypeStep, LoopStep, ApplyStep, RightNicStep, ServedStep, OrderStep,
       UntouchedStep DEF IInv
<1> QED BY <1>1, <1>2, PTL DEF Spec

-------------------------------------------------------------------------------
(* The theorems *)

\* Types, and the bound on the number of attempts.
THEOREM TypeCorrect == Spec => []TypeOK
<1>1. IInv => TypeOK
    BY DEF IInv
<1> QED BY <1>1, InductiveInvariant, PTL

\* A static setting never lands on another adapter.
THEOREM SettingsOnRightNic == Spec => []RightNic
<1>1. IInv => RightNic
    BY DEF IInv
<1> QED BY <1>1, InductiveInvariant, PTL

\* An adapter that showed up is never left without its record.
THEOREM SeenAdaptersServed == Spec => []SeenIsServed
<1>1. IInv => SeenIsServed
    BY DEF IInv
<1> QED BY <1>1, InductiveInvariant, PTL

\* Records of one key are used in the order of the file.
THEOREM UsedInFileOrder == Spec => []FileOrder
<1>1. IInv => FileOrder
    BY DEF IInv
<1> QED BY <1>1, InductiveInvariant, PTL

\* A record reported lost was tried to the end and has left no setting.
THEOREM ReportIsTruthful == Spec => []ReportTruthful
<1>1. IInv => ReportTruthful
    <2> SUFFICES ASSUME IInv, NEW i \in reported
                 PROVE  Untouched(i) /\ attempt > MaxRetries /\ i \notin restored
        BY DEF ReportTruthful
    <2>1. pc = "done" /\ i \in Pending
        BY DEF IInv, LoopInv
    <2>2. Untouched(i)
        BY <2>1 DEF IInv, UnusedUntouched, InFlight, Pending
    <2>3. attempt > MaxRetries
        BY <2>1 DEF IInv, LoopInv
    <2> QED BY <2>1, <2>2, <2>3 DEF Pending
<1> QED BY <1>1, InductiveInvariant, PTL

\* A record counted as restored is never applied again.
THEOREM NeverAppliedTwice == Spec => RestoredOnce
<1> DEFINE Once == /\ \A n \in Nics, c \in Calls :
                          inForce'[n][c] # inForce[n][c] => inForce'[n][c] \notin restored
                   /\ host' # host => host' \notin restored
<1>1. IInv /\ [Next]_vars => [Once]_vars
    <2> SUFFICES ASSUME IInv, [Next]_vars PROVE Once
        OBVIOUS
    <2>1. CASE UNCHANGED <<inForce, host>>
        BY <2>1
    <2>2. CASE CallTakesEffect
        <3>1. idx \notin restored
            BY <2>2 DEF IInv, ApplyInv, Pending, CallTakesEffect
        <3>2. \A n \in Nics, c \in Calls : inForce'[n][c] \in {inForce[n][c], idx}
            BY <2>2 DEF IInv, CallTakesEffect, TypeOK
        <3>3. host' \in {host, idx}
            BY <2>2 DEF CallTakesEffect
        <3> QED BY <3>1, <3>2, <3>3
    <2> QED BY <2>1, <2>2, EffectsFrame
<1> QED BY <1>1, InductiveInvariant, PTL DEF Spec, RestoredOnce

\* Every step of the loop is a step of the promise or leaves it as it is.
THEOREM ImplementsPromiseSafety == Spec => Promise!Safety
<1>1. Init => Promise!Init
    BY DEF Init, Promise!Init, Outcome, Saved
<1>2. IInv /\ [Next]_vars => [Promise!Next]_Promise!vars
    <2> SUFFICES ASSUME IInv, [Next]_vars PROVE [Promise!Next]_Promise!vars
        OBVIOUS
    <2>0. TypeOK /\ LoopInv /\ ApplyInv /\ FileOrder
        BY DEF IInv
    <2>1. CASE ApplyReturns
        <3>1. /\ pc = "apply" /\ pc' = "scan" /\ idx \in Pending /\ reported = {}
              /\ adapters' = adapters /\ reported' = {} /\ restored' = restored \cup {idx}
            BY <2>0, <2>1 DEF ApplyReturns, ApplyInv, LoopInv
        <3>2. Outcome[idx] = "pending"
            BY <3>1 DEF Outcome, Pending
        <3>3. \A j \in Saved : j < idx /\ SameKey(j, idx) => Outcome[j] # "pending"
            BY <2>0, <3>1 DEF FileOrder, InFlight, Outcome, Pending
        <3>4. Outcome' = [Outcome EXCEPT ![idx] = "restored"]
            BY <3>1 DEF Outcome, Saved, Pending
        <3>5. Promise!RestoreOne(idx)
            BY <3>1, <3>2, <3>3, <3>4
               DEF Promise!RestoreOne, Promise!SameAdapter, SameKey, Saved
        <3> QED BY <3>1, <3>5 DEF Promise!Next, Pending, Saved
    <2>2. CASE Report
        <3>1. /\ pc = "report" /\ pc' = "done" /\ reported = {} /\ reported' = Pending
              /\ adapters' = adapters /\ restored' = restored
            BY <2>0, <2>2 DEF Report, LoopInv
        <3>2. Outcome' = [i \in Saved |-> IF Outcome[i] = "pending"
                                          THEN "lost" ELSE Outcome[i]]
            BY <3>1 DEF Outcome, Saved, Pending
        <3> QED BY <3>1, <3>2 DEF Promise!Next, Promise!End, Saved
    <2>3. CASE /\ UNCHANGED <<adapters, restored, reported>>
               /\ (pc = "done") = (pc' = "done")
        BY <2>3 DEF Promise!vars, Outcome, Saved
    <2>4. ApplyReturns \/ Report
          \/ (UNCHANGED <<adapters, restored, reported>> /\ (pc = "done") = (pc' = "done"))
        BY DEF Next, Restore, PlugAndPlay, QuerySucceeds, QueryFails, MoreAttempts,
               ReadAny, ReadRow, ScanEnds, CallTakesEffect, CallHasNoEffect,
               LoopEnds, Start, Stop, vars
    <2> QED BY <2>1, <2>2, <2>3, <2>4
<1> QED BY <1>1, <1>2, InductiveInvariant, PTL DEF Spec, Promise!Safety

\* Every step of the loop is a step of the cursor of its WMI session, or does not touch it.
THEOREM CursorUsed == Spec => UsesCursor
<1>1. Init => Cursor!Init
    BY DEF Init, Cursor!Init
<1>2. IInv /\ [Next]_vars => [Cursor!Next]_Cursor!vars
    <2> SUFFICES ASSUME IInv, [Next]_vars PROVE [Cursor!Next]_Cursor!vars
        OBVIOUS
    <2> USE DEF Cursor!Next, Cursor!vars
    <2>1. CASE QuerySucceeds
        <3>1. live \in SUBSET Nics
            BY DEF IInv, TypeOK
        <3> QED BY <2>1, <3>1 DEF QuerySucceeds, Cursor!Query
    <2>2. CASE QueryFails
        BY <2>2 DEF QueryFails, Cursor!Close
    <2>3. CASE ReadAny
        BY <2>3 DEF ReadAny, ReadRow, Cursor!Advance
    <2>4. CASE ScanEnds
        BY <2>4 DEF ScanEnds, Cursor!End
    <2>5. CASE UNCHANGED <<rows, cur>>
        BY <2>5
    <2>6. QuerySucceeds \/ QueryFails \/ ReadAny \/ ScanEnds \/ UNCHANGED <<rows, cur>>
        BY DEF Next, Restore, PlugAndPlay, CallTakesEffect, CallHasNoEffect, ApplyReturns,
               LoopEnds, Report, Start, Stop, vars, loopVars
    <2> QED BY <2>1, <2>2, <2>3, <2>4, <2>5, <2>6
<1> QED BY <1>1, <1>2, InductiveInvariant, PTL DEF Spec, UsesCursor, Cursor!Spec

-------------------------------------------------------------------------------
(* How many steps are left: the part of Terminates that needs no fairness *)

\* An attempt takes a query and an end, and for a row eight steps at most: it is
\* read, six calls are made for its record, and ApplyAdapterConfig returns.
PerAttempt == 8 * Cardinality(Nics) + 2

\* The steps of k attempts, and after them the end of the loop and the report.
Rest(k) == k * PerAttempt + 2

\* The most steps the custom action can still make.
StepsLeft ==
    CASE pc = "attempt" -> Rest((MaxRetries + 1) - attempt)
      [] pc = "scan"    -> Rest(MaxRetries - attempt) + 8 * Cardinality(rows) + 1
      [] pc = "apply"   -> Rest(MaxRetries - attempt) + 8 * Cardinality(rows) + (9 - call)
      [] pc = "report"  -> 1
      [] OTHER          -> 0

\* One attempt more is PerAttempt steps more.
LEMMA RestFacts ==
    ASSUME IsFiniteSet(Nics)
    PROVE  /\ Cardinality(Nics) \in Nat
           /\ PerAttempt = 8 * Cardinality(Nics) + 2
           /\ \A k \in Nat : /\ Rest(k) \in Nat /\ Rest(k) >= 2
                             /\ Rest(k + 1) = Rest(k) + PerAttempt
<1>1. Cardinality(Nics) \in Nat
    BY FS_CardinalityType
<1>2. PerAttempt \in Nat /\ PerAttempt = 8 * Cardinality(Nics) + 2
    BY <1>1 DEF PerAttempt
<1>3. ASSUME NEW k \in Nat
      PROVE  /\ Rest(k) \in Nat /\ Rest(k) >= 2
             /\ Rest(k + 1) = Rest(k) + PerAttempt
    <2>1. k * PerAttempt \in Nat /\ (k + 1) * PerAttempt = k * PerAttempt + PerAttempt
        BY <1>2
    <2> QED BY <1>2, <2>1 DEF Rest
<1> QED BY <1>1, <1>2, <1>3

\* Fewer attempts take fewer steps.
LEMMA RestGrows ==
    ASSUME IsFiniteSet(Nics), NEW j \in Nat, NEW k \in Nat, j <= k
    PROVE  Rest(j) <= Rest(k)
<1>1. PerAttempt \in Nat
    BY RestFacts
<1>2. k - j \in Nat /\ (k - j) * PerAttempt \in Nat
    BY <1>1
<1>3. k * PerAttempt = j * PerAttempt + (k - j) * PerAttempt
    BY <1>1
<1>4. j * PerAttempt \in Nat /\ k * PerAttempt \in Nat
    BY <1>1
<1> QED BY <1>2, <1>3, <1>4 DEF Rest

\* The rows of a scan are finitely many, no more than the adapters, and one less
\* when a row was read.
LEMMA RowsCount ==
    ASSUME IsFiniteSet(Nics), NEW S \in SUBSET Nics
    PROVE  /\ Cardinality(S) \in 0..Cardinality(Nics)
           /\ \A n \in S : Cardinality(S \ {n}) = Cardinality(S) - 1
<1>1. IsFiniteSet(S) /\ Cardinality(S) <= Cardinality(Nics)
    BY FS_Subset
<1>2. Cardinality(S) \in Nat /\ Cardinality(Nics) \in Nat
    BY <1>1, FS_CardinalityType
<1> QED BY <1>1, <1>2, FS_RemoveElement

\* A row that is worked on does not come again in the same scan.
RowTaken == pc = "apply" => cur \in Nics \ rows

LEMMA RowTakenKept == Spec => []RowTaken
<1>1. Init => RowTaken
    BY DEF Init, RowTaken
<1>2. RowTaken /\ [Next]_vars => RowTaken'
    <2> SUFFICES ASSUME RowTaken, [Next]_vars PROVE RowTaken'
        OBVIOUS
    <2>1. CASE ReadAny
        <3>1. PICK n \in Nics : \E mac, svc : ReadRow(n, mac, svc)
            BY <2>1 DEF ReadAny
        <3>2. cur' = n /\ rows' = rows \ {n}
            BY <3>1 DEF ReadRow
        <3> QED BY <3>1, <3>2 DEF RowTaken
    <2>2. CASE UNCHANGED <<pc, cur, rows>>
        BY <2>2 DEF RowTaken
    <2>3. CASE pc' # "apply"
        BY <2>3 DEF RowTaken
    <2>4. \/ ReadAny \/ UNCHANGED <<pc, cur, rows>> \/ pc' # "apply"
        BY DEF Next, Restore, PlugAndPlay, QuerySucceeds, QueryFails, MoreAttempts, ScanEnds,
               CallTakesEffect, CallHasNoEffect, ApplyReturns, LoopEnds, Report, Start, Stop,
               vars, loopVars
    <2> QED BY <2>1, <2>2, <2>3, <2>4
<1> QED BY <1>1, <1>2, PTL DEF Spec

\* No more is left than at the beginning.
LEMMA StepsBounded ==
    ASSUME IsFiniteSet(Nics), TypeOK, LoopInv, RowTaken
    PROVE  StepsLeft \in 0..Rest(MaxRetries)
<1>1. /\ MaxRetries \in Nat /\ attempt \in 1..(MaxRetries + 1) /\ call \in 1..7
      /\ pc \in {"scan", "apply"} => attempt <= MaxRetries
      /\ Cardinality(rows) \in 0..Cardinality(Nics) /\ Cardinality(Nics) \in Nat
    BY RowsCount, RestFacts, RetriesAssumption DEF TypeOK, LoopInv
<1>2. Rest(MaxRetries) \in Nat /\ Rest(MaxRetries) >= 2
    BY <1>1, RestFacts
<1>3. CASE pc = "attempt"
    <2>1. (MaxRetries + 1) - attempt \in Nat /\ (MaxRetries + 1) - attempt <= MaxRetries
        BY <1>1
    <2>2. StepsLeft = Rest((MaxRetries + 1) - attempt)
        BY <1>3 DEF StepsLeft
    <2>3. Rest((MaxRetries + 1) - attempt) \in Nat
        BY <2>1, RestFacts
    <2> QED BY <1>1, <1>2, <2>1, <2>2, <2>3, RestGrows
<1>4. CASE pc \in {"scan", "apply"}
    <2>1. MaxRetries - attempt \in Nat /\ (MaxRetries - attempt) + 1 <= MaxRetries
        BY <1>1, <1>4
    <2>2. /\ Rest(MaxRetries - attempt) \in Nat
          /\ Rest((MaxRetries - attempt) + 1) = Rest(MaxRetries - attempt) + PerAttempt
          /\ PerAttempt = 8 * Cardinality(Nics) + 2
        BY <2>1, RestFacts
    <2>3. Rest((MaxRetries - attempt) + 1) <= Rest(MaxRetries)
        <3>1. (MaxRetries - attempt) + 1 \in Nat
            BY <2>1
        <3> QED BY <1>1, <2>1, <3>1, RestGrows
    <2>4. CASE pc = "scan"
        <3>1. StepsLeft = Rest(MaxRetries - attempt) + 8 * Cardinality(rows) + 1
            BY <2>4 DEF StepsLeft
        <3> QED BY <1>1, <1>2, <2>2, <2>3, <3>1
    <2>5. CASE pc = "apply"
        <3>1. StepsLeft = Rest(MaxRetries - attempt) + 8 * Cardinality(rows) + (9 - call)
            BY <2>5 DEF StepsLeft
        <3>2. rows \in SUBSET (Nics \ {cur}) /\ cur \in Nics /\ IsFiniteSet(Nics \ {cur})
            BY <2>5, FS_RemoveElement DEF RowTaken, TypeOK
        <3>3. /\ Cardinality(rows) <= Cardinality(Nics \ {cur})
              /\ Cardinality(Nics \ {cur}) = Cardinality(Nics) - 1
            BY <3>2, FS_Subset, FS_RemoveElement
        <3> QED BY <1>1, <1>2, <2>2, <2>3, <3>1, <3>3
    <2> QED BY <1>4, <2>4, <2>5
<1>5. CASE pc \in {"report", "done"}
    BY <1>2, <1>5 DEF StepsLeft
<1> QED BY <1>3, <1>4, <1>5 DEF TypeOK

\* A step of the loop leaves fewer, at any moment and whatever the devices do.
LEMMA StepsFewer ==
    ASSUME IsFiniteSet(Nics), IInv, Restore
    PROVE  StepsLeft' < StepsLeft
<1> USE DEF loopVars, workVars
<1> DEFINE K == MaxRetries - attempt
<1>1. TypeOK /\ LoopInv
    BY DEF IInv
<1>2. /\ MaxRetries \in Nat /\ attempt \in 1..(MaxRetries + 1) /\ call \in 1..7
      /\ attempt <= MaxRetries => K \in Nat
    BY <1>1, RetriesAssumption DEF TypeOK
<1>3. /\ Cardinality(Nics) \in Nat /\ PerAttempt = 8 * Cardinality(Nics) + 2
      /\ Cardinality(rows) \in 0..Cardinality(Nics)
      /\ Cardinality(live) \in 0..Cardinality(Nics)
      /\ \A n \in rows : Cardinality(rows \ {n}) = Cardinality(rows) - 1
    BY <1>1, RestFacts, RowsCount DEF TypeOK
<1>4. attempt <= MaxRetries =>
          /\ Rest(K) \in Nat /\ Rest(K) >= 2
          /\ Rest(K + 1) = Rest(K) + PerAttempt
          /\ Rest((MaxRetries + 1) - attempt) = Rest(K) + PerAttempt
          /\ Rest((MaxRetries + 1) - (attempt + 1)) = Rest(K)
    <2> SUFFICES ASSUME attempt <= MaxRetries
                 PROVE  /\ Rest(K) \in Nat /\ Rest(K) >= 2
                        /\ Rest(K + 1) = Rest(K) + PerAttempt
                        /\ Rest((MaxRetries + 1) - attempt) = Rest(K) + PerAttempt
                        /\ Rest((MaxRetries + 1) - (attempt + 1)) = Rest(K)
        OBVIOUS
    <2>1. /\ (MaxRetries + 1) - attempt = K + 1
          /\ (MaxRetries + 1) - (attempt + 1) = K
        BY <1>2
    <2>2. Rest(K) \in Nat /\ Rest(K) >= 2 /\ Rest(K + 1) = Rest(K) + PerAttempt
        BY <1>2, RestFacts
    <2> QED BY <2>1, <2>2
<1>5. pc \in {"scan", "apply"} => attempt <= MaxRetries
    BY <1>1 DEF LoopInv
<1>6. CASE QuerySucceeds
    <2>1. /\ pc = "attempt" /\ attempt <= MaxRetries /\ pc' = "scan"
          /\ attempt' = attempt /\ rows' = live
        BY <1>6 DEF QuerySucceeds, MoreAttempts
    <2>2. /\ StepsLeft = Rest((MaxRetries + 1) - attempt)
          /\ StepsLeft' = Rest(K) + 8 * Cardinality(live) + 1
        BY <2>1 DEF StepsLeft
    <2> HIDE DEF K
    <2> QED BY <1>3, <1>4, <2>1, <2>2
<1>7. CASE QueryFails
    <2>1. /\ pc = "attempt" /\ attempt <= MaxRetries /\ pc' = "attempt"
          /\ attempt' = attempt + 1
        BY <1>7 DEF QueryFails, MoreAttempts
    <2>2. /\ StepsLeft = Rest((MaxRetries + 1) - attempt)
          /\ StepsLeft' = Rest((MaxRetries + 1) - (attempt + 1))
        BY <2>1 DEF StepsLeft
    <2> HIDE DEF K
    <2> QED BY <1>3, <1>4, <2>1, <2>2
<1>8. CASE ReadAny
    <2>1. PICK n \in Nics : \E mac, svc : ReadRow(n, mac, svc)
        BY <1>8 DEF ReadAny
    <2>2. /\ pc = "scan" /\ n \in rows /\ rows' = rows \ {n} /\ attempt' = attempt
          /\ pc' = "scan" \/ (pc' = "apply" /\ call' = 1)
        BY <2>1 DEF ReadRow
    <2>3. /\ StepsLeft = Rest(K) + 8 * Cardinality(rows) + 1
          /\ StepsLeft' \in {Rest(K) + 8 * Cardinality(rows \ {n}) + 1,
                             Rest(K) + 8 * Cardinality(rows \ {n}) + (9 - 1)}
        BY <2>2 DEF StepsLeft
    <2> HIDE DEF K
    <2> QED BY <1>3, <1>4, <1>5, <2>2, <2>3
<1>9. CASE ScanEnds
    <2>1. pc = "scan" /\ pc' = "attempt" /\ attempt' = attempt + 1
        BY <1>9 DEF ScanEnds
    <2>2. /\ StepsLeft = Rest(K) + 8 * Cardinality(rows) + 1
          /\ StepsLeft' = Rest((MaxRetries + 1) - (attempt + 1))
        BY <2>1 DEF StepsLeft
    <2> HIDE DEF K
    <2> QED BY <1>3, <1>4, <1>5, <2>1, <2>2
<1>10. CASE CallTakesEffect \/ CallHasNoEffect
    <2>1. /\ pc = "apply" /\ pc' = pc /\ attempt' = attempt /\ rows' = rows
          /\ call' = call + 1
        BY <1>10 DEF CallTakesEffect, CallHasNoEffect
    <2>2. /\ StepsLeft = Rest(K) + 8 * Cardinality(rows) + (9 - call)
          /\ StepsLeft' = Rest(K) + 8 * Cardinality(rows) + (9 - (call + 1))
        BY <2>1 DEF StepsLeft
    <2> HIDE DEF K
    <2> QED BY <1>2, <1>3, <1>4, <1>5, <2>1, <2>2
<1>11. CASE ApplyReturns
    <2>1. pc = "apply" /\ pc' = "scan" /\ attempt' = attempt /\ rows' = rows
        BY <1>11 DEF ApplyReturns
    <2>2. /\ StepsLeft = Rest(K) + 8 * Cardinality(rows) + (9 - call)
          /\ StepsLeft' = Rest(K) + 8 * Cardinality(rows) + 1
        BY <2>1 DEF StepsLeft
    <2> HIDE DEF K
    <2> QED BY <1>2, <1>3, <1>4, <1>5, <2>1, <2>2
<1>12. CASE LoopEnds
    <2>1. pc = "attempt" /\ pc' = "report"
        BY <1>12 DEF LoopEnds
    <2>2. StepsLeft = Rest((MaxRetries + 1) - attempt) /\ StepsLeft' = 1
        BY <2>1 DEF StepsLeft
    <2>3. (MaxRetries + 1) - attempt \in Nat
        BY <1>2
    <2> QED BY <2>2, <2>3, RestFacts
<1>13. CASE Report
    <2>1. pc = "report" /\ pc' = "done"
        BY <1>13 DEF Report
    <2> QED BY <2>1 DEF StepsLeft
<1> QED BY <1>6, <1>7, <1>8, <1>9, <1>10, <1>11, <1>12, <1>13 DEF Restore

\* Terminates as far as the loop itself provides for it: Rest(MaxRetries) steps are the
\* most it makes, each step takes one of them at least, and what Plug and Play does to the
\* devices meanwhile costs or adds none (lines 551-588).
THEOREM StepsAreCounted ==
    ASSUME IsFiniteSet(Nics)
    PROVE  Spec => /\ [](StepsLeft \in 0..Rest(MaxRetries))
                   /\ [][IF live' = live THEN StepsLeft' < StepsLeft
                                         ELSE StepsLeft' = StepsLeft]_vars
<1> DEFINE Counted == IF live' = live THEN StepsLeft' < StepsLeft
                                      ELSE StepsLeft' = StepsLeft
<1>1. IInv /\ RowTaken => StepsLeft \in 0..Rest(MaxRetries)
    BY StepsBounded DEF IInv
<1>2. IInv /\ [Next]_vars => [Counted]_vars
    <2> SUFFICES ASSUME IInv, Next PROVE Counted
        BY DEF vars
    <2>1. CASE Restore
        <3>1. live' = live
            BY <2>1 DEF Restore, QuerySucceeds, QueryFails, ReadAny, ReadRow, ScanEnds,
                        CallTakesEffect, CallHasNoEffect, ApplyReturns, LoopEnds, Report
        <3> QED BY <2>1, <3>1, StepsFewer
    <2>2. CASE PlugAndPlay
        <3>1. live' # live
            BY <2>2 DEF PlugAndPlay, Start, Stop
        <3>2. UNCHANGED <<pc, attempt, rows, call>>
            BY <2>2 DEF PlugAndPlay, Start, Stop, loopVars, workVars
        <3> QED BY <3>1, <3>2 DEF StepsLeft
    <2> QED BY <2>1, <2>2 DEF Next
<1> QED BY <1>1, <1>2, RowTakenKept, InductiveInvariant, PTL DEF Spec
===============================================================================
