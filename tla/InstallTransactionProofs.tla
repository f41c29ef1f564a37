----------------------- MODULE InstallTransactionProofs -----------------------
(***************************************************************************)
(* The safety properties of InstallTransaction, for every set of adapters, *)
(* configurations and directories.                                         *)
(***************************************************************************)
EXTENDS InstallTransaction, SequenceTheorems, FiniteSetTheorems, TLAPS

Kinds == {"install", "upgrade", "remove"}

-------------------------------------------------------------------------------
(* Lemmas about the script *)

\* The script of each kind of transaction, entry by entry.
LEMMA ScriptOfRemoval ==
    ASSUME kind = "remove"
    PROVE  /\ Len(Script) = 3 /\ DOMAIN Script = 1..3 /\ First = 0
           /\ Script[1].do = "SaveSettings" /\ Script[1].undo = "nothing"
           /\ Script[2].do = "RemoveFiles" /\ Script[2].undo = "RestoreFiles"
           /\ Script[3].do = "UninstallPackages" /\ Script[3].undo = "InstallPackages"
<1>1. Script = Removal /\ Len(Installation) = 4
    BY DEF Script, Installation
<1> QED BY <1>1 DEF Removal, Entry, First

LEMMA ScriptOfInstallation ==
    ASSUME kind = "install"
    PROVE  /\ Len(Script) = 4 /\ DOMAIN Script = 1..4 /\ First = 1
           /\ Script[1].do = "nothing" /\ Script[1].undo = "RestoreSettings"
           /\ Script[2].do = "CopyFiles" /\ Script[2].undo = "RemoveFiles"
           /\ Script[3].do = "InstallPackages" /\ Script[3].undo = "UninstallPackages"
           /\ Script[4].do = "RestoreSettings" /\ Script[4].undo = "nothing"
<1>1. Script = Installation
    BY DEF Script
<1> QED BY <1>1 DEF Installation, Entry, First

LEMMA ScriptOfUpgrade ==
    ASSUME kind = "upgrade"
    PROVE  /\ Len(Script) = 7 /\ DOMAIN Script = 1..7 /\ First = 4
           /\ Script[1].do = "SaveSettings" /\ Script[1].undo = "nothing"
           /\ Script[2].do = "RemoveFiles" /\ Script[2].undo = "RestoreFiles"
           /\ Script[3].do = "UninstallPackages" /\ Script[3].undo = "InstallPackages"
           /\ Script[4].do = "nothing" /\ Script[4].undo = "RestoreSettings"
           /\ Script[5].do = "CopyFiles" /\ Script[5].undo = "RemoveFiles"
           /\ Script[6].do = "InstallPackages" /\ Script[6].undo = "UninstallPackages"
           /\ Script[7].do = "RestoreSettings" /\ Script[7].undo = "nothing"
<1>1. Script = Removal \o Installation
    BY DEF Script
<1>2. Len(Removal) = 3 /\ Len(Installation) = 4
    BY DEF Removal, Installation
<1> DEFINE S == {Removal[i] : i \in 1..3} \cup {Installation[i] : i \in 1..4}
<1>3. Removal \in Seq(S) /\ Installation \in Seq(S)
    BY DEF Removal, Installation
<1> HIDE DEF S
<1>4. /\ Len(Removal \o Installation) = Len(Removal) + Len(Installation)
      /\ Removal \o Installation \in Seq(S)
      /\ \A i \in 1..Len(Removal) + Len(Installation) : (Removal \o Installation)[i] =
              IF i <= Len(Removal) THEN Removal[i] ELSE Installation[i - Len(Removal)]
    BY <1>3, ConcatProperties
<1>5. Len(Script) = 7 /\ DOMAIN Script = 1..7
    BY <1>1, <1>2, <1>4
<1>6. \A i \in 1..7 : Script[i] = IF i <= 3 THEN Removal[i] ELSE Installation[i - 3]
    <2> TAKE i \in 1..7
    <2>1. i \in 1..Len(Removal) + Len(Installation)
        BY <1>2
    <2> QED BY <2>1, <1>1, <1>2, <1>4
<1>7. /\ Script[1] = Removal[1] /\ Script[2] = Removal[2] /\ Script[3] = Removal[3]
      /\ Script[4] = Installation[1] /\ Script[5] = Installation[2]
      /\ Script[6] = Installation[3] /\ Script[7] = Installation[4]
    BY <1>6
<1>8. First = 4
    BY <1>2, <1>5 DEF First
<1> QED BY <1>5, <1>7, <1>8 DEF Removal, Installation, Entry

\* The settings are saved first, restored at the end or, in a rollback, once what
\* the new product did has been undone; device nodes are removed in between.
LEMMA Places ==
    ASSUME TypeOK, kind \in Kinds
    PROVE  /\ At("SaveSettings") =>
                  phase = "run" /\ step = 1 /\ kind \in {"upgrade", "remove"}
           /\ At("RestoreSettings") =>
                  /\ kind \in {"install", "upgrade"}
                  /\ \/ phase = "run" /\ step = Len(Script)
                     \/ phase = "rollback" /\ step = First
           /\ At("UninstallPackages") =>
                  \/ phase = "run" /\ step < Len(Script)
                  \/ phase = "run" /\ kind = "remove"
                  \/ phase = "rollback" /\ step > First
           /\ step \in DOMAIN Script => step \in 1..Len(Script)
           /\ Len(Script) \in Nat /\ First \in Int
           /\ kind \in {"install", "upgrade"} => 1 <= First /\ First < Len(Script)
<1>1. CASE kind = "remove"
    <2>1. step \in DOMAIN Script => step \in {1, 2, 3}
        BY <1>1, ScriptOfRemoval
    <2>2. At("SaveSettings") => phase = "run" /\ step = 1
        BY <1>1, <2>1, ScriptOfRemoval DEF At
    <2>3. ~ At("RestoreSettings")
        BY <1>1, <2>1, ScriptOfRemoval DEF At
    <2>4. At("UninstallPackages") => phase = "run"
        BY <1>1, <2>1, ScriptOfRemoval DEF At
    <2>5. Len(Script) = 3 /\ First = 0
        BY <1>1, ScriptOfRemoval
    <2>6. step \in DOMAIN Script => step \in 1..Len(Script)
        BY <1>1, <2>1, ScriptOfRemoval
    <2>7. Len(Script) \in Nat /\ First \in Int
        BY <2>5
    <2>8. kind \in {"install", "upgrade"} => 1 <= First /\ First < Len(Script)
        BY <1>1, <2>5
    <2>9. At("UninstallPackages") =>
              \/ phase = "run" /\ step < Len(Script)
              \/ phase = "run" /\ kind = "remove"
              \/ phase = "rollback" /\ step > First
        BY <1>1, <2>4, <2>5
    <2> QED BY <1>1, <2>2, <2>3, <2>6, <2>7, <2>8, <2>9
<1>2. CASE kind = "install"
    <2>1. step \in DOMAIN Script => step \in {1, 2, 3, 4}
        BY <1>2, ScriptOfInstallation
    <2>2. ~ At("SaveSettings")
        BY <1>2, <2>1, ScriptOfInstallation DEF At
    <2>3. At("RestoreSettings") =>
              \/ phase = "run" /\ step = Len(Script)
              \/ phase = "rollback" /\ step = First
        BY <1>2, <2>1, ScriptOfInstallation DEF At
    <2>4. At("UninstallPackages") => phase = "rollback" /\ step = 3
        BY <1>2, <2>1, ScriptOfInstallation DEF At
    <2>5. Len(Script) = 4 /\ First = 1
        BY <1>2, ScriptOfInstallation
    <2>6. step \in DOMAIN Script => step \in 1..Len(Script)
        BY <1>2, <2>1, ScriptOfInstallation
    <2>7. Len(Script) \in Nat /\ First \in Int
        BY <2>5
    <2>8. kind \in {"install", "upgrade"} => 1 <= First /\ First < Len(Script)
        BY <1>2, <2>5
    <2>9. At("UninstallPackages") =>
              \/ phase = "run" /\ step < Len(Script)
              \/ phase = "run" /\ kind = "remove"
              \/ phase = "rollback" /\ step > First
        BY <1>2, <2>4, <2>5
    <2> QED BY <1>2, <2>2, <2>3, <2>6, <2>7, <2>8, <2>9
<1>3. CASE kind = "upgrade"
    <2>1. step \in DOMAIN Script => step \in {1, 2, 3, 4, 5, 6, 7}
        BY <1>3, ScriptOfUpgrade
    <2>2. At("SaveSettings") => phase = "run" /\ step = 1
        BY <1>3, <2>1, ScriptOfUpgrade DEF At
    <2>3. At("RestoreSettings") =>
              \/ phase = "run" /\ step = Len(Script)
              \/ phase = "rollback" /\ step = First
        BY <1>3, <2>1, ScriptOfUpgrade DEF At
    <2>4. At("UninstallPackages") => 
              \/ phase = "run" /\ step = 3
              \/ phase = "rollback" /\ step = 6
        BY <1>3, <2>1, ScriptOfUpgrade DEF At
    <2>5. Len(Script) = 7 /\ First = 4
        BY <1>3, ScriptOfUpgrade
    <2>6. step \in DOMAIN Script => step \in 1..Len(Script)
        BY <1>3, <2>1, ScriptOfUpgrade
    <2>7. Len(Script) \in Nat /\ First \in Int
        BY <2>5
    <2>8. kind \in {"install", "upgrade"} => 1 <= First /\ First < Len(Script)
        BY <1>3, <2>5
    <2>9. At("UninstallPackages") =>
              \/ phase = "run" /\ step < Len(Script)
              \/ phase = "run" /\ kind = "remove"
              \/ phase = "rollback" /\ step > First
        BY <1>3, <2>4, <2>5
    <2> QED BY <1>3, <2>2, <2>3, <2>6, <2>7, <2>8, <2>9
<1> QED BY <1>1, <1>2, <1>3 DEF Kinds

\* The script is that of the kind of transaction.
LEMMA SameScript ==
    ASSUME kind' = kind
    PROVE  Script' = Script /\ First' = First
BY DEF Script, First

\* An action that is not part of the script, and the guest, leave the place alone.
LEMMA Kinded ==
    ASSUME TypeOK, PlaceInv, phase # "idle"
    PROVE  kind \in Kinds
BY DEF TypeOK, PlaceInv, Kinds

\* A step of the script leads to the next place, or starts the rollback.
LEMMA ReturnsTo ==
    ASSUME TypeOK, kind \in Kinds, NEW a, At(a), Returns, kind' = kind
    PROVE  /\ phase' \in {"run", "rollback"}
           /\ step' \in 0..(Len(Script') + 1)
           /\ phase' = "run" => phase = "run" /\ step' = step + 1 /\ step' >= 1
           /\ phase' = "rollback" =>
                  \/ phase = "run" /\ step' = step
                  \/ phase = "rollback" /\ step' = step - 1
           /\ phase \in {"run", "rollback"} /\ step \in 1..Len(Script)
<1>1. step \in 1..Len(Script) /\ Len(Script) \in Nat
    BY Places DEF At
<1>2. Script' = Script
    BY SameScript
<1>3. phase \in {"run", "rollback"}
    BY DEF At
<1> QED BY <1>1, <1>2, <1>3 DEF Returns

-------------------------------------------------------------------------------
(* The inductive invariant *)

\* The invariant holds when the product is absent and nothing runs.
LEMMA InitInv == Init => IInv
<1> SUFFICES ASSUME Init PROVE IInv
    OBVIOUS
<1>1. Script = << >> /\ ~ At("RestoreSettings")
    BY DEF Init, Script, At
<1>2. TypeOK
    <2>1. step \in 0..(Len(Script) + 1)
        BY <1>1 DEF Init
    <2>2. driver \subseteq Nics
        BY DEF Init
    <2> QED BY <2>1, <2>2 DEF Init, TypeOK, Settings
<1>3. PlaceInv /\ UnsavedInv /\ BackupInv /\ UpgradeNeverWrong /\ AppliedInv
    BY DEF Init, PlaceInv, UnsavedInv, BackupInv, UpgradeNeverWrong, AppliedInv
<1>4. KeptInv
    BY DEF Init, KeptInv
<1> QED BY <1>2, <1>3, <1>4 DEF IInv

\* The steps of the script that return.
ScriptStep == \/ SaveSettings \/ SaveUnopened \/ RestoreEnds \/ InstallPackages
              \/ UninstallPackages \/ MoveFiles \/ Pass

\* Each of them stands at an entry of the script, of a transaction that runs.
LEMMA ScriptStepReturns ==
    ASSUME IInv, ScriptStep
    PROVE  /\ kind \in Kinds /\ kind' = kind /\ Script' = Script /\ First' = First
           /\ phase \in {"run", "rollback"} /\ phase' \in {"run", "rollback"}
           /\ step \in 1..Len(Script) /\ step' \in 0..(Len(Script) + 1)
           /\ phase' = "run" => phase = "run" /\ step' = step + 1
           /\ phase' = "rollback" =>
                  \/ phase = "run" /\ step' = step
                  \/ phase = "rollback" /\ step' = step - 1
           /\ target' = target /\ asSaved' = asSaved
<1>1. TypeOK /\ PlaceInv
    BY DEF IInv
<1>2. PICK a : At(a)
    BY <1>1 DEF ScriptStep, SaveSettings, SaveUnopened, RestoreEnds, InstallPackages,
              UninstallPackages, MoveFiles, Pass, PlaceInv
<1>3. Returns /\ kind' = kind /\ target' = target /\ asSaved' = asSaved
    BY DEF ScriptStep, SaveSettings, SaveUnopened, RestoreEnds, InstallPackages,
           UninstallPackages, MoveFiles, Pass, history
<1>4. kind \in Kinds
    BY <1>1, <1>2, Kinded DEF At
<1> QED BY <1>1, <1>2, <1>3, <1>4, ReturnsTo, SameScript

\* Every step keeps the place in the script in the script.
LEMMA StepTyped ==
    ASSUME IInv, [Next]_vars
    PROVE  /\ kind' \in {"none", "install", "upgrade", "remove"}
           /\ phase' \in {"idle", "run", "rollback", "over"}
           /\ step' \in 0..(Len(Script') + 1)
<1>0. TypeOK /\ PlaceInv
    BY DEF IInv
<1>1. CASE ScriptStep
    BY <1>1, ScriptStepReturns DEF Kinds
<1>2. CASE SettingsActionFails
    <2>1. kind' = kind /\ kind \in Kinds /\ step \in DOMAIN Script
        BY <1>0, <1>2, Kinded DEF SettingsActionFails, At
    <2>2. step \in 1..Len(Script) /\ Len(Script) \in Nat /\ Script' = Script
        BY <1>0, <2>1, Places, SameScript
    <2>3. step' \in {step, step - 1} /\ phase' \in {phase, "rollback"}
        BY <1>2 DEF SettingsActionFails
    <2> QED BY <1>0, <2>1, <2>2, <2>3 DEF TypeOK
<1>3. CASE OtherActionFails
    <2>1. kind' = kind /\ kind \in Kinds /\ step >= 1 /\ step' = step - 1
        BY <1>0, <1>3, Kinded DEF OtherActionFails, PlaceInv
    <2>2. Len(Script) \in Nat /\ Script' = Script
        BY <1>0, <2>1, Places, SameScript
    <2> QED BY <1>0, <1>3, <2>1, <2>2 DEF TypeOK, OtherActionFails
<1>4. CASE \E k \in {"install", "upgrade", "remove"}, d \in Dirs : Begin(k, d)
    <2>1. kind' \in Kinds /\ phase' = "run" /\ step' = 1
        BY <1>4 DEF Begin, Kinds
    <2>2. Len(Script') \in Nat
        <3>1. CASE kind' = "remove"
            BY <3>1 DEF Script, Removal
        <3>2. CASE kind' = "install"
            BY <3>2 DEF Script, Installation
        <3>3. CASE kind' = "upgrade"
            BY <3>3 DEF Script, Removal, Installation
        <3> QED BY <2>1, <3>1, <3>2, <3>3 DEF Kinds
    <2> QED BY <2>1, <2>2 DEF Kinds
<1>5. CASE Finish
    <2>1. Script' = << >>
        BY <1>5 DEF Finish, Script
    <2> QED BY <1>5, <2>1 DEF Finish
<1>6. CASE kind' = kind /\ step' = step /\ phase' \in {phase, "over"}
    BY <1>0, <1>6, SameScript DEF TypeOK
<1> QED BY <1>1, <1>2, <1>3, <1>4, <1>5, <1>6
        DEF Next, Installer, Actions, User, ScriptStep, RestoreBegins, RestoreOne, Commit,
            RolledBack, StartNic, Configure, PublishByHand, vars

\* What is read from the file, or written to it, is a record.
LEMMA NoRecordsTyped == NoRecords \in Records
BY DEF NoRecords, Records

\* Every step keeps the types of the rest.
LEMMA TypeStep ==
    ASSUME IInv, [Next]_vars
    PROVE  TypeOK'
<1> DEFINE Rest == /\ home \in Dirs \cup {NoDir} /\ target \in Dirs \cup {NoDir}
                   /\ files \in BOOLEAN /\ published \in BOOLEAN
                   /\ driver \subseteq Nics /\ pending \subseteq Nics /\ applied \subseteq Nics
                   /\ settings \in [Nics -> Settings] /\ asSaved \in [Nics -> Settings]
                   /\ backup \in [Dirs -> Records \cup {NoFile}]
                   /\ loaded \in Records \cup {NoFile}
                   /\ current \subseteq Dirs /\ missed \subseteq Nics
<1>0. TypeOK /\ PlaceInv /\ Rest
    BY DEF IInv, TypeOK
<1>1. ASSUME SaveSettings PROVE Rest'
    <2>1. kind \in Kinds
        BY <1>0, <1>1, Kinded DEF SaveSettings, At
    <2>2. PICK found \in SUBSET StaticNics,
               misread \in SUBSET {n \in driver : settings[n] = Dhcp} :
              backup' = [backup EXCEPT ![home] =
                            [n \in Nics |-> CASE n \in found -> settings[n]
                                              [] n \in misread -> Leased
                                              [] OTHER -> NoFile]]
        BY <1>1 DEF SaveSettings
    <2>3. \A n \in found : settings[n] \in Statics \cup {Leased}
        BY <1>0, <2>2 DEF StaticNics, Settings
    <2>4. [n \in Nics |-> CASE n \in found -> settings[n]
                           [] n \in misread -> Leased
                           [] OTHER -> NoFile] \in Records
        BY <2>3 DEF Records
    <2>7. home \in Dirs
        BY <1>0, <1>1, <2>1, Places DEF PlaceInv, SaveSettings
    <2>5. backup' \in [Dirs -> Records \cup {NoFile}]
        BY <1>0, <2>2, <2>4
    <2>6. current' = {home}
        BY <1>1 DEF SaveSettings
    <2> QED BY <1>0, <1>1, <2>5, <2>6, <2>7 DEF SaveSettings, guest, restoring
<1>2. ASSUME RestoreBegins PROVE Rest'
    <2>1. loaded' \in Parsed(target)
        BY <1>2 DEF RestoreBegins
    <2>2. target = NoDir \/ backup[target] \in Records \cup {NoFile}
        BY <1>0
    <2>3. target \in Dirs
        BY <1>0, <1>2, Kinded DEF RestoreBegins, PlaceInv, At
    <2>4. loaded' \in Records
        BY <2>1, <2>2, <2>3, NoRecordsTyped, DirsAssumption DEF Parsed
    <2> QED BY <1>0, <1>2, <2>4 DEF RestoreBegins, guest, history
<1>3. ASSUME NEW n \in Nics, RestoreOne(n) PROVE Rest'
    <2>1. loaded \in Records /\ loaded[n] # NoFile
        BY <1>0, <1>3 DEF RestoreOne, IInv, BackupInv
    <2>2. loaded[n] \in Settings
        BY <2>1 DEF Records, Settings
    <2> QED BY <1>0, <1>3, <2>2 DEF RestoreOne, history
<1>4. ASSUME InstallPackages PROVE Rest'
    <2>1. published' \in BOOLEAN /\ driver' \subseteq Nics
        <3>1. CASE files
            <4>1. published' \in {published, TRUE}
                  /\ driver' \in {driver \cup new : new \in SUBSET IF published' THEN Nics ELSE {}}
                BY <1>4, <3>1 DEF InstallPackages
            <4>2. PICK new \in SUBSET (IF published' THEN Nics ELSE {}) : driver' = driver \cup new
                BY <4>1
            <4>3. published \in BOOLEAN /\ driver \subseteq Nics /\ new \subseteq Nics
                BY <1>0, <4>2
            <4> QED BY <4>1, <4>2, <4>3
        <3>2. CASE ~ files
            BY <1>0, <1>4, <3>2 DEF InstallPackages
        <3> QED BY <3>1, <3>2
    <2> QED BY <1>0, <1>4, <2>1 DEF InstallPackages, restoring, history
<1>5. ASSUME UninstallPackages PROVE Rest'
    <2>1. PICK gone \in SUBSET driver :
              /\ driver' = driver \ gone
              /\ published' \in {published} \cup (IF gone = driver THEN {FALSE} ELSE {})
              /\ \E lost \in SUBSET gone :
                     settings' = [n \in Nics |-> IF n \in lost THEN Dhcp ELSE settings[n]]
        BY <1>5 DEF UninstallPackages
    <2>2. settings' \in [Nics -> Settings]
        BY <1>0, <2>1 DEF Settings
    <2> QED BY <1>0, <1>5, <2>1, <2>2 DEF UninstallPackages, restoring, history
<1>6. ASSUME NEW k \in {"install", "upgrade", "remove"}, NEW d \in Dirs, Begin(k, d)
      PROVE Rest'
    BY <1>0, <1>6 DEF Begin, guest, history
<1>7. ASSUME NEW n \in Nics, NEW s \in Statics \cup {Dhcp}, Configure(n, s) PROVE Rest'
    BY <1>0, <1>7 DEF Configure, restoring, history, Settings
<1>8. ASSUME \/ SaveUnopened \/ RestoreEnds \/ MoveFiles \/ Pass \/ SettingsActionFails
             \/ OtherActionFails \/ Commit \/ RolledBack \/ Finish
      PROVE Rest'
    BY <1>0, <1>8 DEF SaveUnopened, RestoreEnds, MoveFiles, Pass, SettingsActionFails,
          OtherActionFails, Commit, RolledBack, Finish, guest, restoring, history
<1>9. ASSUME PublishByHand \/ (\E n \in Nics : StartNic(n)) \/ UNCHANGED vars PROVE Rest'
    BY <1>0, <1>9 DEF PublishByHand, StartNic, vars, guest, restoring, history
<1>10. Rest'
    BY <1>1, <1>2, <1>3, <1>4, <1>5, <1>6, <1>7, <1>8, <1>9
       DEF Next, Installer, Actions, User
<1> QED BY <1>10, StepTyped DEF TypeOK

\* The settings actions keep their places.
LEMMA PlaceStep ==
    ASSUME IInv, [Next]_vars
    PROVE  PlaceInv'
<1>0. TypeOK /\ PlaceInv
    BY DEF IInv
<1>1. CASE SaveSettings \/ SaveUnopened \/ InstallPackages \/ UninstallPackages \/ MoveFiles \/ Pass
    <2>1. ScriptStep
        BY <1>1 DEF ScriptStep
    <2>2. ~ At("RestoreSettings") /\ home' = home
        BY <1>1 DEF SaveSettings, SaveUnopened, InstallPackages, UninstallPackages, MoveFiles,
              Pass, At
    <2>3. loaded = NoFile /\ loaded' = NoFile /\ applied' = applied
        BY <1>0, <1>1, <2>2
           DEF PlaceInv, SaveSettings, SaveUnopened, InstallPackages, UninstallPackages,
               MoveFiles, Pass, restoring
    <2>4. phase' = "run" /\ (kind' = "remove" \/ step' < Len(Script')) => applied' = {}
        BY <1>0, <2>1, <2>3, ScriptStepReturns DEF PlaceInv
    <2> QED BY <1>0, <2>1, <2>2, <2>3, <2>4, ScriptStepReturns DEF PlaceInv, Kinds
<1>2. CASE RestoreEnds
    <2>1. ScriptStep /\ loaded' = NoFile /\ home' = home /\ applied' = applied
        BY <1>2 DEF ScriptStep, RestoreEnds
    <2>2. kind # "remove" /\ (phase = "run" => step = Len(Script))
        BY <1>0, <1>2, <2>1, Places, ScriptStepReturns DEF PlaceInv, RestoreEnds
    <2>3. phase' = "run" => step' = Len(Script') + 1 /\ Len(Script) \in Nat
        BY <1>0, <2>1, <2>2, Places, ScriptStepReturns
    <2> QED BY <1>0, <2>1, <2>2, <2>3, ScriptStepReturns DEF PlaceInv, Kinds
<1>3. CASE RestoreBegins \/ \E n \in Nics : RestoreOne(n)
    <2>1. At("RestoreSettings")
        BY <1>0, <1>3 DEF RestoreBegins, RestoreOne, PlaceInv
    <2>2. phase # "idle" /\ kind' = kind /\ phase' = phase /\ step' = step
          /\ home' = home /\ target' = target
        BY <1>3, <2>1 DEF RestoreBegins, RestoreOne, At
    <2>3. kind \in {"install", "upgrade"} /\ (phase = "run" => ~ (step < Len(Script)))
        BY <1>0, <2>1, <2>2, Kinded, Places
    <2>4. At("RestoreSettings")' /\ Script' = Script
        BY <2>1, <2>2, SameScript DEF At
    <2> QED BY <1>0, <2>2, <2>3, <2>4 DEF PlaceInv
<1>4. CASE SettingsActionFails
    <2>1. loaded = NoFile
        <3>1. At("SaveSettings") => ~ At("RestoreSettings")
            BY DEF At
        <3> QED BY <1>0, <1>4, <3>1 DEF SettingsActionFails, PlaceInv
    <2>2. /\ loaded' = loaded /\ applied' \in {applied, {}} /\ kind' = kind /\ home' = home
          /\ target' = target /\ phase' = "rollback"
        BY <1>0, <1>4 DEF SettingsActionFails, At
    <2>3. phase \in {"run", "rollback"}
        BY <1>4 DEF SettingsActionFails, At
    <2> QED BY <1>0, <2>1, <2>2, <2>3 DEF PlaceInv
<1>5. CASE OtherActionFails
    BY <1>0, <1>5 DEF PlaceInv, OtherActionFails, restoring, history, guest
<1>6. CASE \E k \in {"install", "upgrade", "remove"}, d \in Dirs : Begin(k, d)
    <2>1. loaded = NoFile
        BY <1>0, <1>6 DEF PlaceInv, At, Begin
    <2>2. /\ loaded' = NoFile /\ applied' = {} /\ step' = 1 /\ target' \in Dirs
          /\ phase' = "run" /\ kind' \in {"install", "upgrade", "remove"} /\ home' = home
          /\ kind' \in {"upgrade", "remove"} => home # NoDir
        BY <1>6, <2>1 DEF Begin
    <2> QED BY <2>2, DirsAssumption DEF PlaceInv
<1>7. CASE Commit \/ RolledBack \/ Finish
    <2>1. loaded = NoFile
        <3>1. CASE Commit
            <4>1. step \notin DOMAIN Script
                BY <1>0, <3>1, Kinded, Places DEF Commit, TypeOK
            <4> QED BY <1>0, <4>1 DEF PlaceInv, At
        <3>2. CASE RolledBack
            <4>1. step \notin DOMAIN Script
                BY <1>0, <3>2, Kinded, Places DEF RolledBack
            <4> QED BY <1>0, <4>1 DEF PlaceInv, At
        <3>3. CASE Finish
            BY <1>0, <3>3 DEF PlaceInv, At, Finish
        <3> QED BY <1>7, <3>1, <3>2, <3>3
    <2>2. /\ loaded' = loaded /\ applied' = applied /\ phase' \in {"idle", "over"}
          /\ target' = target /\ phase # "idle"
          /\ phase' = "over" => kind' = kind
          /\ phase' = "idle" => kind' = "none"
        BY <1>7 DEF Commit, RolledBack, Finish, restoring
    <2>3. phase' = "over" => step' = 0 \/ step' > Len(Script')
        BY <1>7, SameScript DEF Commit, RolledBack, Finish
    <2> QED BY <1>0, <2>1, <2>2, <2>3 DEF PlaceInv
<1>8. CASE UNCHANGED <<kind, phase, step, home, target, loaded, applied>>
    <2>1. Script' = Script
        BY <1>8, SameScript
    <2> QED BY <1>0, <1>8, <2>1 DEF PlaceInv, At
<1> QED BY <1>1, <1>2, <1>3, <1>4, <1>5, <1>6, <1>7, <1>8
        DEF Next, Installer, Actions, User, StartNic, Configure, PublishByHand, vars, restoring

\* Until the save nothing changes the settings.
LEMMA UnsavedStep ==
    ASSUME IInv, [Next]_vars
    PROVE  UnsavedInv'
<1>0. TypeOK /\ PlaceInv /\ UnsavedInv
    BY DEF IInv
<1>1. CASE ScriptStep
    <2>1. phase' = "run" => step' # 1
        BY <1>1, ScriptStepReturns
    <2> QED BY <2>1 DEF UnsavedInv
<1>2. CASE SettingsActionFails
    <2>1. phase' = "rollback"
        BY <1>2 DEF SettingsActionFails, At
    <2> QED BY <2>1 DEF UnsavedInv
<1>3. CASE RestoreBegins \/ \E n \in Nics : RestoreOne(n)
    <2>1. At("RestoreSettings") /\ phase # "idle"
        BY <1>0, <1>3 DEF RestoreBegins, RestoreOne, PlaceInv, At
    <2>2. phase' = phase /\ step' = step /\ kind' = kind
        BY <1>3 DEF RestoreBegins, RestoreOne
    <2>3. kind \in Kinds
        BY <1>0, <2>1, Kinded
    <2>4. ~ (phase = "run" /\ step = 1 /\ kind \in {"upgrade", "remove"})
        <3>1. kind \in {"install", "upgrade"} /\ (phase = "run" => step = Len(Script))
            BY <1>0, <2>1, <2>3, Places
        <3>2. kind = "upgrade" => Len(Script) # 1
            <4>1. kind = "upgrade" => Len(Script) = 7
                BY ScriptOfUpgrade
            <4> QED BY <4>1
        <3>3. kind # "remove"
            BY <3>1
        <3>4. kind = "upgrade" /\ phase = "run" => step # 1
            BY <3>1, <3>2
        <3> QED BY <3>3, <3>4
    <2> QED BY <2>2, <2>4 DEF UnsavedInv
<1>4. CASE \E k \in {"install", "upgrade", "remove"}, d \in Dirs : Begin(k, d)
    BY <1>4 DEF Begin, UnsavedInv, guest
<1>5. CASE OtherActionFails \/ Commit \/ RolledBack \/ Finish
    BY <1>5 DEF OtherActionFails, Commit, RolledBack, Finish, UnsavedInv
<1>6. CASE \/ PublishByHand \/ \E n \in Nics : \E s \in Statics \cup {Dhcp} : Configure(n, s)
    BY <1>6 DEF PublishByHand, Configure, UnsavedInv
<1>7. CASE (\E n \in Nics : StartNic(n)) \/ UNCHANGED vars
    BY <1>0, <1>7 DEF StartNic, vars, guest, history, UnsavedInv
<1> QED BY <1>1, <1>2, <1>3, <1>4, <1>5, <1>6, <1>7
        DEF Next, Installer, Actions, User, ScriptStep

\* The file a removal has written says of no adapter anything but what it had.
LEMMA BackupStep ==
    ASSUME IInv, [Next]_vars
    PROVE  BackupInv'
<1>0. TypeOK /\ PlaceInv /\ UnsavedInv /\ BackupInv
    BY DEF IInv
<1>1. CASE SaveSettings
    <2>1. kind \in Kinds /\ At("SaveSettings")
        BY <1>0, <1>1, Kinded DEF SaveSettings, At
    <2>2. settings = asSaved /\ home \in Dirs
        BY <1>0, <2>1, Places DEF UnsavedInv, PlaceInv, TypeOK
    <2>3. PICK found \in SUBSET StaticNics,
               misread \in SUBSET {n \in driver : settings[n] = Dhcp} :
              backup' = [backup EXCEPT ![home] =
                            [n \in Nics |-> CASE n \in found -> settings[n]
                                              [] n \in misread -> Leased
                                              [] OTHER -> NoFile]]
        BY <1>1 DEF SaveSettings
    <2> DEFINE r == [n \in Nics |-> CASE n \in found -> settings[n]
                                      [] n \in misread -> Leased
                                      [] OTHER -> NoFile]
    <2>4. \A n \in Nics : r[n] \in {NoFile} \cup OwnRecord(settings[n])
        <3> TAKE n \in Nics
        <3>1. CASE n \in found
            BY <3>1 DEF StaticNics, OwnRecord
        <3>2. CASE n \notin found /\ n \in misread
            BY <3>2 DEF OwnRecord
        <3>3. CASE n \notin found /\ n \notin misread
            BY <3>3
        <3> QED BY <3>1, <3>2, <3>3
    <2>5. r \in Records
        <3>1. \A n \in found : settings[n] \in Statics \cup {Leased}
            BY <1>0 DEF StaticNics, Settings, TypeOK
        <3> QED BY <3>1 DEF Records
    <2>6. r # NoFile
        BY <2>5, DistinctAssumption
    <2>7. backup'[home] = r
        BY <1>0, <2>2, <2>3 DEF TypeOK
    <2>8. current' = {home} /\ asSaved' = asSaved /\ loaded' = loaded /\ pending' = pending
        BY <1>1 DEF SaveSettings, restoring
    <2>9. loaded = NoFile
        BY <1>0, <2>1 DEF PlaceInv, At
    <2> HIDE DEF r
    <2> QED BY <1>0, <2>2, <2>4, <2>6, <2>7, <2>8, <2>9 DEF BackupInv, OwnOnly, OwnRecord
<1>2. CASE RestoreBegins
    <2>1. loaded' \in {NoRecords} \cup ({backup[target]} \ {NoFile})
        BY <1>2 DEF RestoreBegins, Parsed
    <2>2. pending' = {n \in Nics : loaded'[n] # NoFile} /\ UNCHANGED <<backup, asSaved, current, target>>
        BY <1>2 DEF RestoreBegins, history
    <2>3. loaded' # NoFile
        BY <2>1, NoRecordsTyped, DistinctAssumption
    <2>4. target' \in current' => OwnOnly(loaded)'
        BY <1>0, <2>1, <2>2 DEF BackupInv, OwnOnly, OwnRecord, NoRecords
    <2>5. \A d \in current' : backup'[d] # NoFile /\ OwnOnly(backup[d])'
        BY <1>0, <2>2 DEF BackupInv, OwnOnly, OwnRecord
    <2> QED BY <2>2, <2>3, <2>4, <2>5 DEF BackupInv, OwnOnly, OwnRecord
<1>3. ASSUME NEW n \in Nics, RestoreOne(n) PROVE BackupInv'
    BY <1>0, <1>3 DEF RestoreOne, history, BackupInv, OwnOnly, OwnRecord
<1>4. CASE RestoreEnds
    BY <1>0, <1>4 DEF RestoreEnds, history, BackupInv, OwnOnly, OwnRecord
<1>5. CASE \E k \in {"install", "upgrade", "remove"}, d \in Dirs : Begin(k, d)
    <2>1. loaded = NoFile
        BY <1>0, <1>5 DEF PlaceInv, At, Begin
    <2>2. loaded' = loaded /\ pending' = pending /\ backup' = backup
          /\ \/ asSaved' = asSaved /\ current' = current
             \/ current' = {}
        BY <1>5 DEF Begin, history
    <2> QED BY <1>0, <2>1, <2>2 DEF BackupInv, OwnOnly, OwnRecord
<1>6. CASE UNCHANGED <<backup, loaded, pending, asSaved, current, target>>
    BY <1>0, <1>6 DEF BackupInv, OwnOnly, OwnRecord
<1> QED BY <1>1, <1>2, <1>3, <1>4, <1>5, <1>6
        DEF Next, Installer, Actions, User, SaveUnopened, SettingsActionFails, InstallPackages,
            UninstallPackages, MoveFiles, Pass, OtherActionFails, Commit, RolledBack, Finish,
            StartNic, Configure, PublishByHand, vars, restoring, history

\* Every step leaves an adapter with what it had, or takes it away, or gives it
\* what its own record says.
LEMMA NeverWrongStep ==
    ASSUME IInv, [Next]_vars
    PROVE  UpgradeNeverWrong'
<1>0. TypeOK /\ PlaceInv /\ UnsavedInv /\ BackupInv /\ UpgradeNeverWrong
    BY DEF IInv
<1>1. CASE SaveSettings
    <2>1. kind \in Kinds /\ At("SaveSettings")
        BY <1>0, <1>1, Kinded DEF SaveSettings, At
    <2>2. settings = asSaved
        BY <1>0, <2>1, Places DEF UnsavedInv
    <2>3. settings' = settings /\ asSaved' = asSaved
        BY <1>1 DEF SaveSettings, guest
    <2> QED BY <2>2, <2>3 DEF UpgradeNeverWrong
<1>2. ASSUME NEW n \in Nics, RestoreOne(n) PROVE UpgradeNeverWrong'
    <2>1. UNCHANGED <<kind, target, current, asSaved>>
        BY <1>2 DEF RestoreOne, history
    <2>2. settings' \in {settings, [settings EXCEPT ![n] = loaded[n]]}
        BY <1>2 DEF RestoreOne
    <2>3. target \in current => loaded[n] \in OwnRecord(asSaved[n])
        BY <1>0, <1>2 DEF BackupInv, OwnOnly, RestoreOne
    <2> QED BY <1>0, <2>1, <2>2, <2>3 DEF UpgradeNeverWrong, OwnRecord, TypeOK
<1>3. CASE UninstallPackages
    <2>1. UNCHANGED <<kind, target, current, asSaved>>
        BY <1>3 DEF UninstallPackages, history
    <2>2. \A n \in Nics : settings'[n] \in {settings[n], Dhcp}
        BY <1>0, <1>3 DEF UninstallPackages
    <2> QED BY <1>0, <2>1, <2>2 DEF UpgradeNeverWrong, OwnRecord
<1>4. ASSUME NEW k \in {"install", "upgrade", "remove"}, NEW d \in Dirs, Begin(k, d)
      PROVE UpgradeNeverWrong'
    BY <1>4 DEF Begin, UpgradeNeverWrong
<1>5. ASSUME NEW n \in Nics, NEW s \in Statics \cup {Dhcp}, Configure(n, s)
      PROVE UpgradeNeverWrong'
    <2>1. phase = "idle" /\ kind' = kind /\ UNCHANGED <<target, current, asSaved>>
        BY <1>5 DEF Configure, history
    <2>2. kind = "none"
        BY <1>0, <2>1 DEF PlaceInv
    <2> QED BY <2>1, <2>2 DEF UpgradeNeverWrong
<1>6. CASE Finish
    BY <1>6 DEF Finish, UpgradeNeverWrong
<1>7. CASE UNCHANGED <<kind, target, current, asSaved, settings>>
    BY <1>0, <1>7 DEF UpgradeNeverWrong, OwnRecord
<1> QED BY <1>1, <1>2, <1>3, <1>4, <1>5, <1>6, <1>7
        DEF Next, Installer, Actions, User, SaveUnopened, SettingsActionFails, RestoreBegins,
            RestoreEnds, InstallPackages, MoveFiles, Pass, OtherActionFails, Commit, RolledBack,
            StartNic, PublishByHand, vars, guest, history

\* In a rollback nothing but the restore is undone at its entry.
LEMMA OnlyRestoreAtFirst ==
    ASSUME TypeOK, kind \in Kinds, phase = "rollback", step = First,
           NEW a, At(a)
    PROVE  a = "RestoreSettings"
<1>1. CASE kind = "remove"
    <2>1. step \in {1, 2, 3} /\ First = 0
        BY <1>1, ScriptOfRemoval DEF At
    <2> QED BY <2>1
<1>2. CASE kind = "install"
    BY <1>2, ScriptOfInstallation DEF At
<1>3. CASE kind = "upgrade"
    BY <1>3, ScriptOfUpgrade DEF At
<1> QED BY <1>1, <1>2, <1>3 DEF Kinds

\* `applied` stays true from a restore until the next one begins.
LEMMA AppliedStep ==
    ASSUME IInv, [Next]_vars
    PROVE  AppliedInv'
<1>0. TypeOK /\ PlaceInv /\ BackupInv /\ AppliedInv
    BY DEF IInv
<1>1. CASE SaveSettings
    <2>1. ScriptStep /\ phase = "run" /\ step = 1 /\ kind \in {"upgrade", "remove"}
        BY <1>0, <1>1, ScriptStepReturns, Places DEF ScriptStep, SaveSettings
    <2>2. applied = {} /\ applied' = applied
        <3>1. kind = "upgrade" => 1 < Len(Script)
            <4>1. kind = "upgrade" => Len(Script) = 7
                BY ScriptOfUpgrade
            <4> QED BY <4>1
        <3>2. kind = "remove" \/ step < Len(Script)
            BY <2>1, <3>1
        <3> QED BY <1>0, <1>1, <2>1, <3>2 DEF PlaceInv, SaveSettings, restoring
    <2> QED BY <2>2 DEF AppliedInv, AppliedCounts
<1>2. CASE RestoreBegins
    BY <1>2 DEF RestoreBegins, AppliedInv
<1>3. ASSUME NEW n \in Nics, RestoreOne(n) PROVE AppliedInv'
    <2>1. /\ UNCHANGED <<kind, phase, step, target, current, asSaved, loaded>>
          /\ loaded # NoFile
          /\ \/ /\ settings' = [settings EXCEPT ![n] = loaded[n]]
                /\ applied' = applied \cup {n}
             \/ UNCHANGED <<settings, applied>>
        BY <1>3 DEF RestoreOne, history
    <2>2. target \in current => loaded[n] \in OwnRecord(asSaved[n])
        BY <1>0, <1>3 DEF BackupInv, OwnOnly, RestoreOne
    <2> QED BY <1>0, <2>1, <2>2 DEF AppliedInv, AppliedCounts, OwnRecord, TypeOK
<1>4. CASE RestoreEnds
    <2>1. UNCHANGED <<target, current, asSaved, settings, applied>> /\ loaded # NoFile
        BY <1>4 DEF RestoreEnds, history, guest
    <2>2. phase \in {"run", "rollback"}
        BY <1>0, <2>1 DEF PlaceInv, At
    <2> QED BY <1>0, <2>1, <2>2 DEF AppliedInv, AppliedCounts, OwnRecord
<1>5. CASE UninstallPackages
    <2>1. ScriptStep /\ At("UninstallPackages") /\ applied' = applied /\ loaded' = loaded
          /\ ~ At("RestoreSettings")
        BY <1>0, <1>5 DEF ScriptStep, UninstallPackages, restoring, At
    <2>2. kind \in Kinds /\ loaded = NoFile
        BY <1>0, <2>1, ScriptStepReturns DEF PlaceInv
    <2>3. CASE phase = "run"
        <3>1. applied = {}
            BY <1>0, <2>1, <2>2, <2>3, Places DEF PlaceInv
        <3> QED BY <2>1, <3>1 DEF AppliedInv, AppliedCounts
    <2>4. CASE phase # "run"
        <3>1. CASE kind = "remove"
            <4>1. applied = {}
                BY <1>0, <3>1 DEF PlaceInv
            <4> QED BY <2>1, <4>1 DEF AppliedInv, AppliedCounts
        <3>2. CASE kind # "remove"
            <4>1. phase = "rollback" /\ step > First /\ First \in Int
                BY <1>0, <2>1, <2>2, <2>4, Places
            <4>2. phase' = "rollback" /\ step' = step - 1 /\ First' = First /\ kind' = kind
                BY <2>1, <4>1, ScriptStepReturns
            <4>3. ~ (step' < First') /\ kind' # "remove"
                BY <1>0, <3>2, <4>1, <4>2 DEF TypeOK
            <4> QED BY <2>1, <2>2, <4>2, <4>3 DEF AppliedInv, AppliedCounts
        <3> QED BY <3>1, <3>2
    <2> QED BY <2>3, <2>4
<1>6. CASE SaveUnopened \/ InstallPackages \/ MoveFiles \/ Pass
    <2>1. ScriptStep /\ UNCHANGED <<target, current, asSaved, settings, applied, loaded, kind>>
        BY <1>6 DEF ScriptStep, SaveUnopened, InstallPackages, MoveFiles, Pass, restoring, history,
              guest
    <2>2. \/ At("SaveSettings") \/ At("InstallPackages") \/ At("CopyFiles") \/ At("RestoreFiles")
          \/ At("RemoveFiles") \/ At("nothing")
        BY <1>6 DEF SaveUnopened, InstallPackages, MoveFiles, Pass
    <2>3. AppliedCounts' => AppliedCounts
        <3> SUFFICES ASSUME AppliedCounts' PROVE AppliedCounts
            OBVIOUS
        <3>1. CASE phase = "run"
            BY <3>1 DEF AppliedCounts
        <3>2. CASE phase # "run"
            <4>1. /\ phase = "rollback" /\ phase' = "rollback" /\ step' = step - 1
                  /\ First' = First /\ kind \in Kinds
                BY <2>1, <3>2, ScriptStepReturns
            <4>2. loaded # NoFile \/ kind = "remove" \/ step - 1 < First
                BY <2>1, <4>1 DEF AppliedCounts
            <4>3. step # First
                BY <1>0, <2>2, <4>1, OnlyRestoreAtFirst
            <4>4. step \in Int /\ First \in Int
                BY <1>0, <4>1, Places DEF TypeOK
            <4>5. step - 1 < First => step < First
                BY <4>3, <4>4
            <4> QED BY <4>1, <4>2, <4>5 DEF AppliedCounts
        <3> QED BY <3>1, <3>2
    <2> QED BY <1>0, <2>1, <2>3 DEF AppliedInv, OwnRecord
<1>7. CASE SettingsActionFails
    <2>1. \/ applied' = {}
          \/ phase = "run" /\ UNCHANGED <<target, current, asSaved, settings, applied>>
        <3>1. At("SaveSettings") => phase = "run"
            BY <1>0, Kinded, Places DEF At
        <3> QED BY <1>7, <3>1 DEF SettingsActionFails, history, guest
    <2> QED BY <1>0, <2>1 DEF AppliedInv, AppliedCounts, OwnRecord
<1>8. CASE OtherActionFails \/ Commit
    <2>1. phase = "run" /\ UNCHANGED <<target, current, asSaved, settings, applied>>
        BY <1>8 DEF OtherActionFails, Commit, history, guest, restoring
    <2> QED BY <1>0, <2>1 DEF AppliedInv, AppliedCounts, OwnRecord
<1>9. CASE RolledBack
    <2>1. phase = "rollback" /\ step = 0 /\ UNCHANGED <<target, current, asSaved, settings, applied>>
        BY <1>9 DEF RolledBack, history, guest, restoring
    <2>2. kind = "remove" \/ (1 <= First /\ First \in Int)
        BY <1>0, <2>1, Kinded, Places DEF Kinds
    <2>3. AppliedCounts
        BY <2>1, <2>2 DEF AppliedCounts
    <2> QED BY <1>0, <2>1, <2>3 DEF AppliedInv, OwnRecord
<1>10. CASE Finish \/ \E n \in Nics : \E s \in Statics \cup {Dhcp} : Configure(n, s)
    <2>1. phase' = "idle"
        BY <1>10 DEF Finish, Configure
    <2> QED BY <2>1 DEF AppliedInv, AppliedCounts
<1>11. CASE \E k \in {"install", "upgrade", "remove"}, d \in Dirs : Begin(k, d)
    BY <1>11 DEF Begin, AppliedInv
<1>12. CASE UNCHANGED <<target, current, asSaved, settings, applied, loaded, kind, phase, step>>
    <2>1. First' = First
        BY <1>12, SameScript
    <2> QED BY <1>0, <1>12, <2>1 DEF AppliedInv, AppliedCounts, OwnRecord
<1> QED BY <1>1, <1>2, <1>3, <1>4, <1>5, <1>6, <1>7, <1>8, <1>9, <1>10, <1>11, <1>12
        DEF Next, Installer, Actions, User, StartNic, PublishByHand, vars, guest, restoring, history

\* What was saved of an adapter is in the file, in what is loaded from it, and at last
\* in force, unless the adapter was missed on the way.
LEMMA KeptStep ==
    ASSUME IInv, [Next]_vars
    PROVE  KeptInv'
<1>0. TypeOK /\ PlaceInv /\ UnsavedInv /\ BackupInv /\ KeptInv
    BY DEF IInv
<1> DEFINE InFile == \A d \in current, n \in Nics : Kept(n) => backup[d][n] = asSaved[n]
           InWork == loaded # NoFile /\ target \in current =>
                         \A n \in Nics : Kept(n) => n \in pending \cup applied
           InForce == phase \in {"run", "over"} /\ step > Len(Script) /\ kind = "upgrade"
                          /\ target \in current => \A n \in Nics : Kept(n) => n \in applied
<1>a. InFile /\ InWork /\ InForce
    BY <1>0 DEF KeptInv
<1>b. InFile' /\ InWork' /\ InForce' => KeptInv'
    BY DEF KeptInv
<1>1. CASE SaveSettings
    <2>1. kind \in Kinds /\ At("SaveSettings")
        BY <1>0, <1>1, Kinded DEF SaveSettings, At
    <2>2. /\ settings = asSaved /\ home \in Dirs /\ loaded = NoFile
          /\ phase = "run" /\ step = 1 /\ kind \in {"upgrade", "remove"}
        BY <1>0, <2>1, Places DEF UnsavedInv, PlaceInv, TypeOK, At
    <2>3. PICK found \in SUBSET StaticNics,
               misread \in SUBSET {n \in driver : settings[n] = Dhcp} :
              /\ backup' = [backup EXCEPT ![home] =
                               [n \in Nics |-> CASE n \in found -> settings[n]
                                                 [] n \in misread -> Leased
                                                 [] OTHER -> NoFile]]
              /\ missed' = {n \in Nics : settings[n] # Dhcp} \ found
        BY <1>1 DEF SaveSettings
    <2>4. current' = {home} /\ asSaved' = asSaved /\ loaded' = loaded
        BY <1>1 DEF SaveSettings, restoring
    <2>5. \A n \in Nics : n \in found => backup'[home][n] = settings[n]
        <3> DEFINE R == [n \in Nics |-> CASE n \in found -> settings[n]
                                          [] n \in misread -> Leased
                                          [] OTHER -> NoFile]
        <3>1. backup'[home] = R
            BY <1>0, <2>2, <2>3 DEF TypeOK
        <3>2. \A n \in Nics : n \in found => R[n] = settings[n]
            <4>1. found \cap misread = {}
                BY DEF StaticNics
            <4> QED BY <4>1
        <3> QED BY <3>1, <3>2
    <2>6. InFile'
        BY <2>2, <2>3, <2>4, <2>5 DEF Kept
    <2>7. InWork'
        BY <2>2, <2>4
    <2>8. InForce'
        <3>1. /\ step' = step \/ step' = step + 1
              /\ Script' = Script /\ kind' = kind
            BY <1>1, <2>2, ScriptStepReturns DEF ScriptStep
        <3>2. kind = "upgrade" => Len(Script) = 7
            BY ScriptOfUpgrade
        <3> QED BY <2>2, <3>1, <3>2
    <2> QED BY <1>b, <2>6, <2>7, <2>8
<1>2. CASE RestoreBegins
    <2>1. /\ UNCHANGED <<backup, asSaved, current, target, phase, step, kind>>
          /\ pending' = {n \in Nics : loaded'[n] # NoFile}
          /\ missed' = IF loaded' = backup[target] THEN missed ELSE Nics
          /\ At("RestoreSettings")
        BY <1>2 DEF RestoreBegins
    <2>2. \A n \in Nics : Kept(n)' => Kept(n) /\ loaded' = backup[target]
        BY <2>1 DEF Kept
    <2>3. InFile'
        BY <1>a, <2>1, <2>2
    <2>4. InWork'
        <3> SUFFICES ASSUME target \in current, NEW n \in Nics, Kept(n)'
                     PROVE  n \in pending'
            BY <2>1
        <3>1. loaded'[n] = asSaved[n]
            BY <1>a, <2>2
        <3>2. asSaved[n] # NoFile
            BY <1>0, SettingsAssumption, DistinctAssumption DEF TypeOK, Settings
        <3> QED BY <2>1, <3>1, <3>2
    <2>5. InForce'
        <3>1. Script' = Script /\ step \in 1..Len(Script)
            BY <1>0, <2>1, Kinded, Places, SameScript DEF At
        <3>2. ~(step > Len(Script))
            BY <3>1
        <3> QED BY <2>1, <3>1, <3>2
    <2> QED BY <1>b, <2>3, <2>4, <2>5
<1>3. ASSUME NEW n \in Nics, RestoreOne(n) PROVE KeptInv'
    <2>1. /\ UNCHANGED <<backup, asSaved, current, target, phase, step, kind, loaded>>
          /\ pending' = pending \ {n}
          /\ \/ applied' = applied \cup {n} /\ missed' = missed
             \/ missed' = missed \cup {n} /\ applied' = applied
        BY <1>3 DEF RestoreOne
    <2>2. \A m \in Nics : Kept(m)' => Kept(m) /\ (m = n => n \in applied')
        BY <2>1 DEF Kept
    <2>3. InFile'
        BY <1>a, <2>1, <2>2
    <2>4. InWork'
        BY <1>a, <2>1, <2>2
    <2>5. InForce'
        <3>1. Script' = Script
            BY <2>1, SameScript
        <3> QED BY <1>a, <2>1, <2>2, <3>1
    <2> QED BY <1>b, <2>3, <2>4, <2>5
<1>4. CASE RestoreEnds
    <2>1. /\ UNCHANGED <<backup, asSaved, current, target, kind, applied>>
          /\ loaded # NoFile /\ loaded' = NoFile
          /\ missed' = missed \cup pending
        BY <1>4 DEF RestoreEnds
    <2>2. \A n \in Nics : Kept(n)' => Kept(n) /\ n \notin pending
        BY <2>1 DEF Kept
    <2>3. InFile'
        BY <1>a, <2>1, <2>2
    <2>4. InWork'
        BY <2>1
    <2>5. InForce'
        BY <1>a, <2>1, <2>2
    <2> QED BY <1>b, <2>3, <2>4, <2>5
<1>5. CASE SaveUnopened \/ InstallPackages \/ UninstallPackages \/ MoveFiles \/ Pass
    <2>1. /\ UNCHANGED <<backup, asSaved, current, missed, target, kind, applied, pending, loaded>>
          /\ ScriptStep
        BY <1>5 DEF ScriptStep, SaveUnopened, InstallPackages, UninstallPackages, MoveFiles,
              Pass, restoring, history
    <2>2. \/ At("SaveSettings") \/ At("InstallPackages") \/ At("UninstallPackages")
          \/ At("CopyFiles") \/ At("RestoreFiles") \/ At("RemoveFiles") \/ At("nothing")
        BY <1>5 DEF SaveUnopened, InstallPackages, UninstallPackages, MoveFiles, Pass
    <2>3. InFile' /\ InWork'
        BY <1>a, <2>1 DEF Kept
    <2>4. InForce'
        <3>1. ~(phase' = "run" /\ kind = "upgrade" /\ step' > Len(Script))
            <4> SUFFICES ASSUME phase' = "run", kind = "upgrade" PROVE ~(step' > Len(Script))
                OBVIOUS
            <4>1. phase = "run" /\ step' = step + 1 /\ step \in 1..Len(Script)
                BY <2>1, ScriptStepReturns
            <4>2. Len(Script) = 7 /\ Script[7].do = "RestoreSettings"
                BY ScriptOfUpgrade
            <4>3. step # 7
                BY <2>2, <4>1, <4>2 DEF At
            <4> QED BY <4>1, <4>2, <4>3
        <3>2. kind' = kind /\ Script' = Script /\ phase' # "over"
            BY <2>1, ScriptStepReturns
        <3> QED BY <3>1, <3>2
    <2> QED BY <1>b, <2>3, <2>4
<1>6. CASE SettingsActionFails \/ OtherActionFails
    <2>1. /\ UNCHANGED <<backup, asSaved, current, missed, target, pending, loaded>>
          /\ loaded = NoFile /\ phase' = "rollback"
        <3>1. At("SaveSettings") => ~ At("RestoreSettings")
            BY DEF At
        <3> QED BY <1>0, <1>6, <3>1
                DEF SettingsActionFails, OtherActionFails, PlaceInv, At, restoring, history
    <2>2. InFile' /\ InWork' /\ InForce'
        BY <1>a, <2>1 DEF Kept
    <2> QED BY <1>b, <2>2
<1>7. CASE \E k \in {"install", "upgrade", "remove"}, d \in Dirs : Begin(k, d)
    <2>1. loaded = NoFile
        BY <1>0, <1>7 DEF PlaceInv, At, Begin
    <2>2. /\ loaded' = loaded /\ backup' = backup /\ step' = 1 /\ phase' = "run"
          /\ kind' \in Kinds
          /\ \/ asSaved' = asSaved /\ current' = current /\ missed' = missed
             \/ current' = {}
        BY <1>7 DEF Begin, history, Kinds
    <2>3. InFile' /\ InWork'
        BY <1>a, <2>1, <2>2 DEF Kept
    <2>4. InForce'
        <3>1. kind' = "upgrade" => Len(Script') = 7
            BY DEF Script, Removal, Installation
        <3> QED BY <2>2, <3>1
    <2> QED BY <1>b, <2>3, <2>4
<1>8. CASE Commit \/ RolledBack \/ Finish
    <2>1. /\ UNCHANGED <<backup, asSaved, current, missed, target, pending, loaded, applied>>
        BY <1>8 DEF Commit, RolledBack, Finish, restoring, history
    <2>2. InFile' /\ InWork'
        BY <1>a, <2>1 DEF Kept
    <2>3. InForce'
        <3>1. CASE Commit
            <4>1. phase = "run" /\ UNCHANGED <<kind, step>> /\ Script' = Script
                BY <3>1, SameScript DEF Commit
            <4> QED BY <1>a, <2>1, <4>1 DEF Kept
        <3>2. CASE RolledBack
            <4>1. step' = 0 /\ kind' = kind /\ Script' = Script
                BY <3>2, SameScript DEF RolledBack
            <4>2. kind = "upgrade" => Len(Script) = 7
                BY ScriptOfUpgrade
            <4> QED BY <4>1, <4>2
        <3>3. CASE Finish
            BY <3>3 DEF Finish
        <3> QED BY <1>8, <3>1, <3>2, <3>3
    <2> QED BY <1>b, <2>2, <2>3
<1>9. CASE UNCHANGED <<backup, asSaved, current, missed, target, pending, loaded, applied,
                       kind, phase, step>>
    <2>1. Script' = Script
        BY <1>9, SameScript
    <2>2. InFile' /\ InWork' /\ InForce'
        BY <1>a, <1>9, <2>1 DEF Kept
    <2> QED BY <1>b, <2>2
<1> QED BY <1>1, <1>2, <1>3, <1>4, <1>5, <1>6, <1>7, <1>8, <1>9
        DEF Next, Installer, Actions, User, StartNic, Configure, PublishByHand, vars, restoring,
            history

LEMMA InductiveInvariant == Spec => []IInv
<1>1. IInv /\ [Next]_vars => IInv'
    BY TypeStep, PlaceStep, UnsavedStep, BackupStep, NeverWrongStep, AppliedStep, KeptStep
       DEF IInv
<1> QED BY InitInv, <1>1, PTL DEF Spec

-------------------------------------------------------------------------------
(* The theorems *)

\* Every variable keeps its type, and the place in the script is in the script.
THEOREM TypeCorrect == Spec => []TypeOK
<1>1. IInv => TypeOK
    BY DEF IInv
<1> QED BY <1>1, InductiveInvariant, PTL

\* An upgrade or a removal never gives an adapter anything but what it had when it
\* began, wherever the transaction fails.
THEOREM NeverWrongInUpgrade == Spec => []UpgradeNeverWrong
<1>1. IInv => UpgradeNeverWrong
    BY DEF IInv
<1> QED BY <1>1, InductiveInvariant, PTL

\* What the last restore has configured is still there when the transaction is over.
THEOREM RestoredSettingsStay == Spec => []RestoredStays
<1>1. IInv => RestoredStays
    BY DEF IInv, AppliedInv, AppliedCounts, RestoredStays
<1> QED BY <1>1, InductiveInvariant, PTL

\* A committed upgrade has given back every static configuration it did not miss.
THEOREM UpgradeIsLossless == Spec => []UpgradeKeepsSettings
<1>1. IInv => UpgradeKeepsSettings
    <2> SUFFICES ASSUME IInv, phase = "over", step # 0, kind = "upgrade", target \in current,
                        NEW n \in Nics, Kept(n)
                 PROVE  settings[n] = asSaved[n]
        BY DEF UpgradeKeepsSettings, Kept
    <2>1. step > Len(Script)
        BY DEF IInv, PlaceInv
    <2>2. n \in applied
        BY <2>1 DEF IInv, KeptInv
    <2>3. settings[n] \in OwnRecord(asSaved[n])
        BY <2>2 DEF IInv, AppliedInv, AppliedCounts
    <2> QED BY <2>3 DEF OwnRecord, Kept
<1> QED BY <1>1, InductiveInvariant, PTL

-------------------------------------------------------------------------------
(* How many steps are left *)

\* An entry of the script is one step, or a restore: its beginning, its end, and one
\* step for each adapter in between.
PerEntry == Cardinality(Nics) + 2
Entries(k) == k * PerEntry

\* What a restore that has begun has used up of that.
Used == IF loaded = NoFile THEN 0 ELSE (Cardinality(Nics) + 1) - Cardinality(pending)

\* The most steps Windows Installer can still make before it is idle again: the script
\* may fail at its very end, and is undone from there.
StepsLeft ==
    CASE phase = "run" -> Entries((Len(Script) + 1) - step) + Entries(Len(Script) + 1) + 3 - Used
      [] phase = "rollback" -> Entries(step) + 2 - Used
      [] phase = "over" -> 1
      [] OTHER -> 0

\* One entry more is PerEntry steps more.
LEMMA EntriesFacts ==
    ASSUME IsFiniteSet(Nics)
    PROVE  /\ Cardinality(Nics) \in Nat /\ PerEntry = Cardinality(Nics) + 2 /\ PerEntry \in Nat
           /\ \A k \in Nat : /\ Entries(k) \in Nat
                             /\ Entries(k + 1) = Entries(k) + PerEntry
                             /\ k > 0 => Entries(k) >= PerEntry
           /\ \A j, k \in Nat : j <= k => Entries(j) <= Entries(k)
<1>1. Cardinality(Nics) \in Nat /\ PerEntry = Cardinality(Nics) + 2 /\ PerEntry \in Nat
    BY FS_CardinalityType DEF PerEntry
<1>2. ASSUME NEW k \in Nat
      PROVE  Entries(k) \in Nat /\ Entries(k + 1) = Entries(k) + PerEntry
    <2>1. k * PerEntry \in Nat /\ (k + 1) * PerEntry = k * PerEntry + PerEntry
        BY <1>1
    <2> QED BY <2>1 DEF Entries
<1>3. ASSUME NEW j \in Nat, NEW k \in Nat, j <= k
      PROVE  Entries(j) <= Entries(k)
    <2>1. k - j \in Nat /\ (k - j) * PerEntry \in Nat
        BY <1>1, <1>3
    <2>2. k * PerEntry = j * PerEntry + (k - j) * PerEntry
        BY <1>1
    <2>3. j * PerEntry \in Nat /\ k * PerEntry \in Nat
        BY <1>1
    <2> QED BY <2>1, <2>2, <2>3 DEF Entries
<1>4. ASSUME NEW k \in Nat, k > 0
      PROVE  Entries(k) >= PerEntry
    <2>1. k - 1 \in Nat /\ (k - 1) + 1 = k
        BY <1>4
    <2>2. Entries(k - 1) \in Nat /\ Entries((k - 1) + 1) = Entries(k - 1) + PerEntry
        BY <1>2, <2>1
    <2> QED BY <1>1, <2>1, <2>2
<1> QED BY <1>1, <1>2, <1>3, <1>4

\* The adapters that wait for their record are finitely many.
LEMMA PendingCount ==
    ASSUME IsFiniteSet(Nics), NEW S \in SUBSET Nics
    PROVE  /\ Cardinality(S) \in 0..Cardinality(Nics)
           /\ \A n \in S : Cardinality(S \ {n}) = Cardinality(S) - 1
<1>1. IsFiniteSet(S) /\ Cardinality(S) <= Cardinality(Nics)
    BY FS_Subset
<1>2. Cardinality(S) \in Nat /\ Cardinality(Nics) \in Nat
    BY <1>1, FS_CardinalityType
<1> QED BY <1>1, <1>2, FS_RemoveElement

\* A restore uses less than an entry has, and only at an entry anything is used.
LEMMA UsedFacts ==
    ASSUME IsFiniteSet(Nics), IInv
    PROVE  /\ Used \in Nat /\ Used < PerEntry
           /\ loaded = NoFile => Used = 0
           /\ loaded # NoFile => step \in 1..Len(Script) /\ phase \in {"run", "rollback"}
<1>1. TypeOK /\ PlaceInv
    BY DEF IInv
<1>2. Cardinality(pending) \in 0..Cardinality(Nics)
    BY <1>1, PendingCount DEF TypeOK
<1>3. Used \in Nat /\ Used < PerEntry
    <2>1. Cardinality(Nics) \in Nat /\ PerEntry = Cardinality(Nics) + 2
        BY EntriesFacts
    <2>2. CASE loaded = NoFile
        BY <2>1, <2>2 DEF Used
    <2>3. CASE loaded # NoFile
        <3>1. Used = (Cardinality(Nics) + 1) - Cardinality(pending)
            BY <2>3 DEF Used
        <3> QED BY <1>2, <2>1, <3>1
    <2> QED BY <2>2, <2>3
<1>4. ASSUME loaded # NoFile
      PROVE  step \in 1..Len(Script) /\ phase \in {"run", "rollback"}
    <2>1. At("RestoreSettings")
        BY <1>1, <1>4 DEF PlaceInv
    <2>2. phase \in {"run", "rollback"} /\ step \in DOMAIN Script
        BY <2>1 DEF At
    <2>3. kind \in Kinds
        BY <1>1, <2>2, Kinded
    <2> QED BY <1>1, <2>2, <2>3, Places
<1> QED BY <1>3, <1>4 DEF Used

\* The place in the script, as numbers: of a transaction that runs or is undone.
LEMMA PlaceNumbers ==
    ASSUME IInv, phase \in {"run", "rollback"}
    PROVE  /\ kind \in Kinds /\ Len(Script) \in Nat /\ Len(Script) <= 7
           /\ step \in 0..(Len(Script) + 1)
           /\ phase = "run" => step >= 1
<1>1. TypeOK /\ PlaceInv
    BY DEF IInv
<1>2. kind \in Kinds
    BY <1>1, Kinded
<1>3. Len(Script) = 3 \/ Len(Script) = 4 \/ Len(Script) = 7
    BY <1>2, ScriptOfRemoval, ScriptOfInstallation, ScriptOfUpgrade DEF Kinds
<1>4. Len(Script) \in Nat /\ Len(Script) <= 7
    <2>1. 3 \in 0..7 /\ 4 \in 0..7 /\ 7 \in 0..7
        OBVIOUS
    <2>2. Len(Script) \in 0..7
        BY <1>3, <2>1, Zenon
    <2>3. \A n \in 0..7 : n \in Nat /\ n <= 7
        OBVIOUS
    <2> QED BY <2>2, <2>3, Zenon
<1>5. step \in 0..(Len(Script) + 1)
    BY <1>1 DEF TypeOK
<1>6. phase = "run" => step >= 1
    BY <1>1 DEF PlaceInv
<1> QED BY <1>2, <1>4, <1>5, <1>6

\* A step that is left over at all is counted, and none is counted twice: the longest
\* transaction is an upgrade that fails at its end.
LEMMA StepsBounded ==
    ASSUME IsFiniteSet(Nics), IInv
    PROVE  StepsLeft \in 0..(Entries(15) + 3)
<1>1. Used \in Nat /\ Used < PerEntry /\ (loaded = NoFile => Used = 0)
      /\ (loaded # NoFile => step \in 1..Len(Script))
    BY UsedFacts
<1>2. Entries(15) \in Nat /\ PerEntry \in Nat
    <2>1. 15 \in Nat
        OBVIOUS
    <2> QED BY <2>1, EntriesFacts
<1>3. CASE phase = "run"
    <2>1. Len(Script) \in Nat /\ Len(Script) <= 7 /\ step \in 1..(Len(Script) + 1)
        BY <1>3, PlaceNumbers
    <2> DEFINE A == (Len(Script) + 1) - step  B == Len(Script) + 1
    <2>2. A \in Nat /\ A <= 7 /\ B \in Nat /\ B <= 8 /\ B > 0
        BY <2>1
    <2>3. StepsLeft = Entries(A) + Entries(B) + 3 - Used
        BY <1>3 DEF StepsLeft
    <2> HIDE DEF A, B
    <2>4. 7 \in Nat /\ 8 \in Nat
        OBVIOUS
    <2>5. Entries(A) \in Nat /\ Entries(B) \in Nat /\ Entries(7) \in Nat /\ Entries(8) \in Nat
        BY <2>2, <2>4, EntriesFacts
    <2>6. Entries(A) <= Entries(7) /\ Entries(B) <= Entries(8)
        BY <2>2, <2>4, EntriesFacts
    <2>7. Entries(B) >= PerEntry
        BY <2>2, EntriesFacts
    <2>8. Entries(7) + Entries(8) = Entries(15)
        BY <1>2 DEF Entries
    <2>9. Entries(A) + Entries(B) <= Entries(15)
        BY <2>5, <2>6, <2>8
    <2>10. Used \in Nat /\ Used < PerEntry
        BY <1>1
    <2> QED BY <1>2, <2>3, <2>5, <2>7, <2>9, <2>10
<1>4. CASE phase = "rollback"
    <2>1. Len(Script) \in Nat /\ Len(Script) <= 7 /\ step \in 0..(Len(Script) + 1)
        BY <1>4, PlaceNumbers
    <2>2. step \in Nat /\ step <= 15 /\ 15 \in Nat
        BY <2>1
    <2>3. /\ Entries(step) \in Nat /\ Entries(step) <= Entries(15)
          /\ step > 0 => Entries(step) >= PerEntry
        BY <2>2, EntriesFacts
    <2>4. StepsLeft = Entries(step) + 2 - Used
        BY <1>4 DEF StepsLeft
    <2>5. step > 0 \/ Used = 0
        BY <1>1, <2>1
    <2> QED BY <1>1, <1>2, <2>3, <2>4, <2>5
<1>5. CASE phase \notin {"run", "rollback"}
    BY <1>2, <1>5 DEF StepsLeft
<1> QED BY <1>3, <1>4, <1>5

\* What the script does at an entry, the failures included, leaves fewer: the next entry, or
\* the rollback from this one, is all that is left.
LEMMA ReturnsFewer ==
    ASSUME IsFiniteSet(Nics), IInv, ScriptStep, loaded' = NoFile
    PROVE  StepsLeft' < StepsLeft
<1>1. /\ Script' = Script /\ step \in 1..Len(Script)
      /\ phase' = "run" => phase = "run" /\ step' = step + 1
      /\ phase' = "rollback" => \/ phase = "run" /\ step' = step
                                \/ phase = "rollback" /\ step' = step - 1
      /\ phase' \in {"run", "rollback"} /\ phase \in {"run", "rollback"}
    BY ScriptStepReturns
<1>2. Len(Script) \in Nat
    BY <1>1, PlaceNumbers
<1>3. Used \in Nat /\ Used < PerEntry /\ PerEntry \in Nat /\ Used' = 0
    BY UsedFacts, EntriesFacts DEF Used
<1> DEFINE L == Len(Script)
<1>4. CASE phase' = "run"
    <2>1. StepsLeft = Entries((L + 1) - step) + Entries(L + 1) + 3 - Used
        BY <1>1, <1>4 DEF StepsLeft
    <2>2. StepsLeft' = Entries((L + 1) - (step + 1)) + Entries(L + 1) + 3 - 0
        BY <1>1, <1>3, <1>4 DEF StepsLeft
    <2>3. /\ (L + 1) - (step + 1) \in Nat /\ L + 1 \in Nat
          /\ (L + 1) - step = ((L + 1) - (step + 1)) + 1
        BY <1>1, <1>2
    <2> HIDE DEF L
    <2>4. /\ Entries((L + 1) - (step + 1)) \in Nat /\ Entries(L + 1) \in Nat
          /\ Entries((L + 1) - step) = Entries((L + 1) - (step + 1)) + PerEntry
        BY <2>3, EntriesFacts
    <2> QED BY <1>3, <2>1, <2>2, <2>4
<1>5. CASE phase' = "rollback" /\ phase = "run"
    <2>1. StepsLeft = Entries((L + 1) - step) + Entries(L + 1) + 3 - Used
        BY <1>5 DEF StepsLeft
    <2>2. StepsLeft' = Entries(step) + 2 - 0
        BY <1>1, <1>3, <1>5 DEF StepsLeft
    <2>3. (L + 1) - step \in Nat /\ (L + 1) - step > 0 /\ step \in Nat /\ L + 1 \in Nat
          /\ step <= L + 1
        BY <1>1, <1>2
    <2> HIDE DEF L
    <2>4. /\ Entries((L + 1) - step) \in Nat /\ Entries((L + 1) - step) >= PerEntry
          /\ Entries(step) \in Nat /\ Entries(L + 1) \in Nat /\ Entries(step) <= Entries(L + 1)
        BY <2>3, EntriesFacts
    <2> QED BY <1>3, <2>1, <2>2, <2>4
<1>6. CASE phase' = "rollback" /\ phase = "rollback"
    <2>1. StepsLeft = Entries(step) + 2 - Used
        BY <1>6 DEF StepsLeft
    <2>2. StepsLeft' = Entries(step - 1) + 2 - 0
        BY <1>1, <1>3, <1>6 DEF StepsLeft
    <2>3. step - 1 \in Nat /\ (step - 1) + 1 = step
        BY <1>1
    <2>4. Entries(step - 1) \in Nat /\ Entries((step - 1) + 1) = Entries(step - 1) + PerEntry
        BY <2>3, EntriesFacts
    <2> QED BY <1>3, <2>1, <2>2, <2>3, <2>4
<1> QED BY <1>1, <1>4, <1>5, <1>6

\* A failure starts the rollback, or goes on with it.
LEMMA FailureFewer ==
    ASSUME IsFiniteSet(Nics), IInv, SettingsActionFails \/ OtherActionFails
    PROVE  StepsLeft' < StepsLeft
<1>1. TypeOK /\ PlaceInv
    BY DEF IInv
<1>2. /\ phase \in {"run", "rollback"} /\ phase' = "rollback" /\ kind' = kind
      /\ loaded = NoFile /\ loaded' = NoFile
      /\ phase = "run" => step' \in {step, step - 1}
      /\ phase = "rollback" => step' = step - 1 /\ step \in DOMAIN Script
      /\ step' = step => step \in DOMAIN Script
    <2>1. CASE SettingsActionFails
        <3>1. At("SaveSettings") => ~ At("RestoreSettings")
            BY DEF At
        <3>2. loaded = NoFile
            BY <1>1, <2>1, <3>1 DEF SettingsActionFails, PlaceInv
        <3>3. phase \in {"run", "rollback"} /\ step \in DOMAIN Script
            BY <2>1 DEF SettingsActionFails, At
        <3> QED BY <2>1, <3>2, <3>3 DEF SettingsActionFails
    <2>2. CASE OtherActionFails
        <3>1. step \in Int
            BY <1>1, <2>2, PlaceNumbers DEF OtherActionFails
        <3> QED BY <2>2, <3>1 DEF OtherActionFails, restoring
    <2> QED BY <2>1, <2>2
<1>3. /\ Len(Script) \in Nat /\ step \in 0..(Len(Script) + 1)
      /\ phase = "run" => step >= 1
      /\ step \in DOMAIN Script => step \in 1..Len(Script)
    BY <1>1, <1>2, PlaceNumbers, Places
<1>4. Used = 0 /\ Used' = 0 /\ PerEntry \in Nat /\ PerEntry >= 2
    BY <1>2, EntriesFacts DEF Used
<1> DEFINE L == Len(Script)
<1>5. CASE phase = "run"
    <2>1. StepsLeft = Entries((L + 1) - step) + Entries(L + 1) + 3 - 0
        BY <1>4, <1>5 DEF StepsLeft
    <2>2. StepsLeft' = Entries(step') + 2 - 0
        BY <1>2, <1>4 DEF StepsLeft
    <2>3. /\ (L + 1) - step \in Nat /\ step' \in Nat /\ L + 1 \in Nat
          /\ step' <= L + 1
        BY <1>2, <1>3, <1>5
    <2> HIDE DEF L
    <2>4. /\ Entries((L + 1) - step) \in Nat /\ Entries(step') \in Nat
          /\ Entries(L + 1) \in Nat /\ Entries(step') <= Entries(L + 1)
        BY <2>3, EntriesFacts
    <2> QED BY <2>1, <2>2, <2>4
<1>6. CASE phase = "rollback"
    <2>1. StepsLeft = Entries(step) + 2 - 0 /\ StepsLeft' = Entries(step - 1) + 2 - 0
        BY <1>2, <1>4, <1>6 DEF StepsLeft
    <2>2. step - 1 \in Nat /\ (step - 1) + 1 = step
        BY <1>2, <1>3, <1>6
    <2>3. Entries(step - 1) \in Nat /\ Entries((step - 1) + 1) = Entries(step - 1) + PerEntry
        BY <2>2, EntriesFacts
    <2> QED BY <1>4, <2>1, <2>2, <2>3
<1> QED BY <1>2, <1>5, <1>6

\* A restore that begins, or is done with an adapter, uses up of its entry.
LEMMA RestoreFewer ==
    ASSUME IsFiniteSet(Nics), IInv, RestoreBegins \/ \E n \in Nics : RestoreOne(n)
    PROVE  StepsLeft' < StepsLeft
<1>1. TypeOK /\ PlaceInv
    BY DEF IInv
<1>2. /\ kind' = kind /\ phase' = phase /\ step' = step /\ At("RestoreSettings")
    BY <1>1 DEF RestoreBegins, RestoreOne, PlaceInv
<1>3. /\ phase \in {"run", "rollback"} /\ step \in DOMAIN Script /\ Script' = Script
    BY <1>2, SameScript DEF At
<1>4. Len(Script) \in Nat /\ step \in 1..Len(Script)
    BY <1>1, <1>3, PlaceNumbers, Places
<1>5. Used \in Nat /\ Used' \in Nat /\ Used < Used'
    <2>1. Cardinality(Nics) \in Nat /\ Cardinality(pending) \in 0..Cardinality(Nics)
        BY <1>1, PendingCount, EntriesFacts DEF TypeOK
    <2>2. CASE RestoreBegins
        <3>1. loaded = NoFile /\ loaded' # NoFile /\ pending' \in SUBSET Nics
            <4>1. NoRecords # NoFile
                BY NoRecordsTyped, DistinctAssumption
            <4> QED BY <2>2, <4>1 DEF RestoreBegins, Parsed
        <3>2. Cardinality(pending') \in 0..Cardinality(Nics)
            BY <3>1, PendingCount
        <3>3. Used = 0 /\ Used' = (Cardinality(Nics) + 1) - Cardinality(pending')
            BY <3>1 DEF Used
        <3> QED BY <2>1, <3>2, <3>3
    <2>3. CASE \E n \in Nics : RestoreOne(n)
        <3>1. PICK n \in Nics : RestoreOne(n)
            BY <2>3
        <3>2. /\ loaded # NoFile /\ loaded' = loaded
              /\ n \in pending /\ pending' = pending \ {n}
            BY <3>1 DEF RestoreOne
        <3>3. Cardinality(pending \ {n}) = Cardinality(pending) - 1
            BY <1>1, <3>2, PendingCount DEF TypeOK
        <3>4. /\ Used = (Cardinality(Nics) + 1) - Cardinality(pending)
              /\ Used' = (Cardinality(Nics) + 1) - Cardinality(pending \ {n})
            BY <3>2 DEF Used
        <3> QED BY <2>1, <3>3, <3>4
    <2> QED BY <2>2, <2>3
<1> DEFINE L == Len(Script)
<1>6. CASE phase = "run"
    <2>1. /\ StepsLeft = Entries((L + 1) - step) + Entries(L + 1) + 3 - Used
          /\ StepsLeft' = Entries((L + 1) - step) + Entries(L + 1) + 3 - Used'
        BY <1>2, <1>3, <1>6 DEF StepsLeft
    <2>2. (L + 1) - step \in Nat /\ L + 1 \in Nat
        BY <1>4
    <2> HIDE DEF L
    <2>3. Entries((L + 1) - step) \in Nat /\ Entries(L + 1) \in Nat
        BY <2>2, EntriesFacts
    <2> QED BY <1>5, <2>1, <2>3
<1>7. CASE phase = "rollback"
    <2>1. StepsLeft = Entries(step) + 2 - Used /\ StepsLeft' = Entries(step) + 2 - Used'
        BY <1>2, <1>7 DEF StepsLeft
    <2>2. step \in Nat
        BY <1>4
    <2>3. Entries(step) \in Nat
        BY <2>2, EntriesFacts
    <2> QED BY <1>5, <2>1, <2>3
<1> QED BY <1>3, <1>6, <1>7

\* Every step of Windows Installer leaves fewer.
LEMMA StepsFewer ==
    ASSUME IsFiniteSet(Nics), IInv, Installer
    PROVE  StepsLeft' < StepsLeft
<1>1. TypeOK /\ PlaceInv
    BY DEF IInv
<1>2. CASE RestoreEnds
    <2>1. ScriptStep /\ loaded' = NoFile
        BY <1>2 DEF ScriptStep, RestoreEnds
    <2> QED BY <2>1, ReturnsFewer
<1>3. CASE SaveSettings \/ SaveUnopened \/ InstallPackages \/ UninstallPackages \/ MoveFiles
           \/ Pass
    <2>1. ~ At("RestoreSettings")
        BY <1>3 DEF SaveSettings, SaveUnopened, InstallPackages, UninstallPackages, MoveFiles,
              Pass, At
    <2>2. loaded' = loaded /\ loaded = NoFile
        BY <1>1, <1>3, <2>1
           DEF SaveSettings, SaveUnopened, InstallPackages, UninstallPackages, MoveFiles, Pass,
               restoring, PlaceInv
    <2> QED BY <1>3, <2>2, ReturnsFewer DEF ScriptStep
<1>4. CASE Commit \/ RolledBack
    <2>1. phase \in {"run", "rollback"} /\ phase' = "over"
        BY <1>4 DEF Commit, RolledBack
    <2>2. Used \in Nat /\ PerEntry \in Nat
        BY UsedFacts, EntriesFacts
    <2>3. Len(Script) \in Nat /\ step \in 0..(Len(Script) + 1)
        BY <2>1, PlaceNumbers
    <2>4. Used = 0
        <3>1. ~ (step \in 1..Len(Script))
            BY <1>4, <2>3 DEF Commit, RolledBack
        <3> QED BY <3>1, UsedFacts
    <2>5. StepsLeft' = 1
        BY <2>1 DEF StepsLeft
    <2>6. CASE Commit
        <3>1. StepsLeft = Entries((Len(Script) + 1) - step) + Entries(Len(Script) + 1) + 3 - 0
            BY <2>4, <2>6 DEF Commit, StepsLeft
        <3>2. (Len(Script) + 1) - step \in Nat /\ Len(Script) + 1 \in Nat
            BY <2>3
        <3>3. /\ Entries((Len(Script) + 1) - step) \in Nat
              /\ Entries(Len(Script) + 1) \in Nat
            BY <3>2, EntriesFacts
        <3> QED BY <2>5, <3>1, <3>3
    <2>7. CASE RolledBack
        <3>1. StepsLeft = Entries(0) + 2 - 0 /\ 0 \in Nat
            BY <2>4, <2>7 DEF RolledBack, StepsLeft
        <3>2. Entries(0) \in Nat
            BY <3>1, EntriesFacts
        <3> QED BY <2>5, <3>1, <3>2
    <2> QED BY <1>4, <2>6, <2>7
<1>5. CASE Finish
    <2>1. StepsLeft = 1 /\ StepsLeft' = 0
        BY <1>5 DEF Finish, StepsLeft
    <2> QED BY <2>1
<1> QED BY <1>2, <1>3, <1>4, <1>5, FailureFewer, RestoreFewer DEF Installer, Actions

\* No transaction repeats itself, whatever fails: it has at most Entries(15) + 3 steps,
\* every step of Windows Installer takes one of them at least, and what Plug and Play
\* does meanwhile adds none (installSequence.wxs; each entry is undone once at most).
THEOREM StepsAreCounted ==
    ASSUME IsFiniteSet(Nics)
    PROVE  Spec => /\ [](StepsLeft \in 0..(Entries(15) + 3))
                   /\ [][/\ Installer => StepsLeft' < StepsLeft
                         /\ User /\ phase # "idle" => StepsLeft' = StepsLeft]_vars
<1> DEFINE Counted == /\ Installer => StepsLeft' < StepsLeft
                      /\ User /\ phase # "idle" => StepsLeft' = StepsLeft
<1>1. IInv => StepsLeft \in 0..(Entries(15) + 3)
    BY StepsBounded
<1>2. IInv /\ [Next]_vars => [Counted]_vars
    <2> SUFFICES ASSUME IInv PROVE Counted
        OBVIOUS
    <2>1. ASSUME User, phase # "idle" PROVE StepsLeft' = StepsLeft
        <3>1. UNCHANGED <<kind, phase, step, loaded, pending>>
            BY <2>1 DEF User, Begin, StartNic, Configure, PublishByHand, restoring
        <3>2. Script' = Script
            BY <3>1, SameScript
        <3> QED BY <3>1, <3>2 DEF StepsLeft, Used
    <2> QED BY <2>1, StepsFewer
<1> QED BY <1>1, <1>2, InductiveInvariant, PTL DEF Spec
===============================================================================
