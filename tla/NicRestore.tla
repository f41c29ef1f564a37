------------------------------ MODULE NicRestore ------------------------------
(***************************************************************************)
(* ConfigRead::Run (src/DrvInst/DrvInstCA/ConfigClass.cpp): the custom     *)
(* action CA_RestoreVIOConfig gives every network adapter recorded in      *)
(* viocfg.cfg its static settings back.  The netkvm driver has just        *)
(* been installed, so the adapters re-enumerate while the loop runs: each  *)
(* attempt takes a WMI query, walks its rows, and applies to a row the     *)
(* first pending record with the same MAC address and service name.        *)
(*                                                                         *)
(* Two parties interleave: the custom action (one WMI call per step) and   *)
(* Plug and Play, which starts and stops adapters at any moment.           *)
(***************************************************************************)
EXTENDS Naturals, Sequences, FiniteSets

CONSTANTS
    Nics,        \* the network adapters of the guest
    NoNic,       \* m_pclsObj == NULL: no row is loaded
    MacOf,       \* [Nics -> STRING]: property MACAddress
    ServiceOf,   \* [Nics -> STRING]: property ServiceName
    SavedLists,  \* the lists of records the configuration file may hold
    MaxRetries   \* RESTORE_MAX_RETRIES

\* The vectors of an AdapterConfig that become arguments of a WMI method.
Fields == {"addr4", "mask4", "gw4", "addr6", "mask6", "gw6", "dns", "suffix"}

\* AdapterConfig: the identity, and which of the vectors are not empty.
Records == [mac : STRING, svc : STRING, has : SUBSET Fields]

ASSUME NicAssumption == /\ NoNic \notin Nics
                        /\ MacOf \in [Nics -> STRING]
                        /\ ServiceOf \in [Nics -> STRING]
ASSUME SavedAssumption == SavedLists \subseteq Seq(Records)
ASSUME RetriesAssumption == MaxRetries \in Nat \ {0}

\* What GetStringProperty returns when the property cannot be read.
Unread == ""

\* The arguments of the calls of ApplyAdapterConfig, in the order it makes them:
\* EnableStatic (IPv4, IPv6), SetDNSServer, SetGateWays (IPv4, IPv6), EnableDNS.
Calls == 1..6
Arguments ==
    << {"addr4", "mask4"}, {"addr6", "mask6"}, {"dns"}, {"gw4"}, {"gw6"},
       {"dns", "suffix"} >>

\* EnableDNS is a static method of the class: it has no adapter to act on.
HostWide == 6

VARIABLES
    adapters,  \* the parsed records
    live,      \* the adapters Plug and Play has started
    pc,        \* "attempt" | "scan" | "apply" | "report" | "done"
    attempt,   \* the loop variable of the retry loop
    rows,      \* adapters the enumerator has still to return
    cur,       \* m_pclsObj
    idx,       \* the record being applied, 0 before the first
    call,      \* the next call of ApplyAdapterConfig
    restored,  \* std::set<size_t> restored
    inForce,   \* inForce[n][c]: the record whose call c last took effect on n
    host,      \* the record whose EnableDNS last took effect
    reported,  \* records named by an ERROR line at the end
    seen       \* history: adapters whose MAC and service were read

loopVars == <<attempt, rows, cur>>
workVars == <<idx, call>>
effects  == <<inForce, host>>
vars == <<adapters, live, pc, loopVars, workVars, restored, effects, reported,
          seen>>

Saved == DOMAIN adapters

-------------------------------------------------------------------------------
(* Selection of a record for the row that was read *)

\* Mutant: the service name is not compared.
MatchesMacOnly(i, mac, svc) == adapters[i].mac = mac

Matches(i, mac, svc) == adapters[i].mac = mac /\ adapters[i].svc = svc

\* Mutants: records already restored are not skipped; the loop starts at 1.
CandidatesAgain(mac, svc) == {i \in Saved : Matches(i, mac, svc)}
CandidatesFromSecond(mac, svc) ==
    {i \in Saved \ restored : i > 1 /\ Matches(i, mac, svc)}

\* The records the inner loop stops at: pending, and the same adapter.
Candidates(mac, svc) == {i \in Saved \ restored : Matches(i, mac, svc)}

\* Mutant: the break is missing, so the last match counts.
ChosenLast(mac, svc) ==
    {i \in Candidates(mac, svc) : \A j \in Candidates(mac, svc) : i >= j}

\* The loop goes up from index 0 and breaks at the first of them.
Chosen(mac, svc) ==
    {i \in Candidates(mac, svc) : \A j \in Candidates(mac, svc) : i <= j}

Pending == Saved \ restored

-------------------------------------------------------------------------------
Init ==
    /\ adapters \in SavedLists
    /\ live \in SUBSET Nics
    /\ pc = "attempt"
    /\ attempt = 1
    /\ rows = {}
    /\ cur = NoNic
    /\ idx = 0
    /\ call = 1
    /\ restored = {}
    /\ inForce = [n \in Nics |-> [c \in Calls |-> 0]]
    /\ host = 0
    /\ reported = {}
    /\ seen = {}

\* Mutant: one attempt too many.
MoreAttemptsThanAllowed ==
    pc = "attempt" /\ attempt <= MaxRetries + 1 /\ Pending # {}

\* The condition of the retry loop holds: another attempt is made.
MoreAttempts == pc = "attempt" /\ attempt <= MaxRetries /\ Pending # {}

\* Mutant: the row of the last attempt is kept.
QueryKeepsRow ==
    /\ MoreAttempts
    /\ pc' = "scan"
    /\ rows' = live
    /\ UNCHANGED <<adapters, live, attempt, cur, workVars, restored, effects,
                   reported, seen>>

\* GetInstances succeeds: the enumerator will return the adapters started now.
QuerySucceeds ==
    /\ MoreAttempts
    /\ pc' = "scan"
    /\ rows' = live
    /\ cur' = NoNic
    /\ UNCHANGED <<adapters, live, attempt, workVars, restored, effects,
                   reported, seen>>

\* GetInstances fails: `continue`, which still counts the attempt.
QueryFails ==
    /\ MoreAttempts
    /\ attempt' = attempt + 1
    /\ rows' = {}
    /\ cur' = NoNic
    /\ UNCHANGED <<adapters, live, pc, workVars, restored, effects, reported,
                   seen>>

\* MoveNext returns adapter n; its two properties are read (a failed read gives
\* the empty string).  A record is chosen, or the row is passed over.
ReadRow(n, mac, svc) ==
    /\ pc = "scan"
    /\ n \in rows
    /\ rows' = rows \ {n}
    /\ cur' = n
    /\ seen' = IF mac = MacOf[n] /\ svc = ServiceOf[n] THEN seen \cup {n} ELSE seen
    /\ \/ /\ Chosen(mac, svc) = {}
          /\ UNCHANGED <<pc, workVars>>
       \/ /\ idx' \in Chosen(mac, svc)
          /\ call' = 1
          /\ pc' = "apply"
    /\ UNCHANGED <<adapters, live, attempt, restored, effects, reported>>

\* Mutant: an attempt that comes to its end is not counted.
ScanEndsUncounted ==
    /\ pc = "scan"
    /\ pc' = "attempt"
    /\ rows' = {}
    /\ UNCHANGED <<adapters, live, attempt, cur, workVars, restored, effects,
                   reported, seen>>

\* MoveNext returns false: no row is left, or Next failed.  The row that was
\* loaded last stays in m_pclsObj.
ScanEnds ==
    /\ pc = "scan"
    /\ pc' = "attempt"
    /\ attempt' = attempt + 1
    /\ rows' = {}
    /\ UNCHANGED <<adapters, live, cur, workVars, restored, effects, reported,
                   seen>>

\* A method can take effect only with all of its arguments, and a method of the
\* adapter only while the adapter is started.
CanTakeEffect ==
    /\ Arguments[call] \subseteq adapters[idx].has
    /\ call # HostWide => cur \in live

\* One guarded call of ApplyAdapterConfig takes effect.
CallTakesEffect ==
    /\ pc = "apply"
    /\ call \in Calls
    /\ CanTakeEffect
    /\ IF call = HostWide
       THEN host' = idx /\ UNCHANGED inForce
       ELSE inForce' = [inForce EXCEPT ![cur][call] = idx] /\ UNCHANGED host
    /\ call' = call + 1
    /\ UNCHANGED <<adapters, live, pc, loopVars, idx, restored, reported, seen>>

\* It is skipped by its guard, fails, or returns an error code: each is logged
\* and nothing else.
CallHasNoEffect ==
    /\ pc = "apply"
    /\ call \in Calls
    /\ call' = call + 1
    /\ UNCHANGED <<adapters, live, pc, loopVars, idx, restored, effects, reported,
                   seen>>

\* Mutant: it returns the result of its last call, EnableDNS.
ApplyReturnsLast ==
    /\ pc = "apply"
    /\ call \notin Calls
    /\ restored' = IF host = idx THEN restored \cup {idx} ELSE restored
    /\ pc' = "scan"
    /\ UNCHANGED <<adapters, live, loopVars, workVars, effects, reported, seen>>

\* ApplyAdapterConfig returns true whatever its calls returned.
ApplyReturns ==
    /\ pc = "apply"
    /\ call \notin Calls
    /\ restored' = restored \cup {idx}
    /\ pc' = "scan"
    /\ UNCHANGED <<adapters, live, loopVars, workVars, effects, reported, seen>>

\* The retry loop ends.
LoopEnds ==
    /\ pc = "attempt"
    /\ attempt > MaxRetries \/ Pending = {}
    /\ pc' = "report"
    /\ UNCHANGED <<adapters, live, loopVars, workVars, restored, effects,
                   reported, seen>>

\* Mutant: nothing is reported once some record was restored.
ReportNoneOrAll ==
    /\ pc = "report"
    /\ reported' = IF restored = {} THEN Pending ELSE {}
    /\ pc' = "done"
    /\ UNCHANGED <<adapters, live, loopVars, workVars, restored, effects, seen>>

\* An ERROR line for every record not in `restored`.
Report ==
    /\ pc = "report"
    /\ reported' = Pending
    /\ pc' = "done"
    /\ UNCHANGED <<adapters, live, loopVars, workVars, restored, effects, seen>>

\* Plug and Play starts, stops or restarts an adapter.  Its settings are kept in
\* the registry, so stopping it loses none of them.
Start(n) == /\ live' = live \cup {n}
            /\ n \notin live
            /\ UNCHANGED <<adapters, pc, loopVars, workVars, restored, effects,
                           reported, seen>>
Stop(n) == /\ live' = live \ {n}
           /\ n \in live
           /\ UNCHANGED <<adapters, pc, loopVars, workVars, restored, effects,
                          reported, seen>>

ReadAny == \E n \in Nics :
              \E mac \in {MacOf[n], Unread}, svc \in {ServiceOf[n], Unread} :
                  ReadRow(n, mac, svc)

Restore == \/ QuerySucceeds \/ QueryFails \/ ReadAny \/ ScanEnds
           \/ CallTakesEffect \/ CallHasNoEffect \/ ApplyReturns
           \/ LoopEnds \/ Report
PlugAndPlay == \E n \in Nics : Start(n) \/ Stop(n)

Next == Restore \/ PlugAndPlay

\* Every WMI call and Sleep returns, so the custom action keeps running.
Fairness == WF_vars(Restore)

Spec == Init /\ [][Next]_vars /\ Fairness

-------------------------------------------------------------------------------
(* Properties *)

\* The record ApplyAdapterConfig is working on.
InFlight == IF pc = "apply" THEN {idx} ELSE {}

\* Record i was written for adapter n.
Describes(i, n) == adapters[i].mac = MacOf[n] /\ adapters[i].svc = ServiceOf[n]

\* Record i and record j name the same adapter.
SameKey(i, j) == adapters[i].mac = adapters[j].mac /\ adapters[i].svc = adapters[j].svc

\* No setting of record i is in force anywhere.
Untouched(i) == /\ \A n \in Nics, c \in Calls : inForce[n][c] # i
                /\ host # i

\* Every variable keeps its type, and the loop makes no more than MaxRetries
\* attempts (lines 551-553).
TypeOK ==
    /\ adapters \in SavedLists
    /\ live \subseteq Nics
    /\ pc \in {"attempt", "scan", "apply", "report", "done"}
    /\ attempt \in 1..(MaxRetries + 1)
    /\ rows \subseteq Nics
    /\ cur \in Nics \cup {NoNic}
    /\ idx \in Saved \cup {0}
    /\ call \in 1..7
    /\ restored \subseteq Saved
    /\ inForce \in [Nics -> [Calls -> Saved \cup {0}]]
    /\ host \in Saved \cup {0}
    /\ reported \subseteq Saved
    /\ seen \subseteq Nics

\* A static setting never lands on an adapter other than the one it was saved
\* from, although adapters come and go between the query, the match and the
\* calls.  Twins (a virtual function shares its MAC with its netkvm standby) are
\* told apart by the service.  The exception is a record saved with an empty
\* property, which any row with an unreadable one matches (line 572).
RightNic ==
    \A n \in Nics, c \in Calls :
        inForce[n][c] # 0 =>
            LET r == adapters[inForce[n][c]]
            IN  r.mac \in {MacOf[n], Unread} /\ r.svc \in {ServiceOf[n], Unread}

\* An adapter that has shown up in any attempt, and that some record describes,
\* has been given such a record (or is being given it): the retries are spent
\* only on adapters that have not shown up (lines 568-586).
SeenIsServed ==
    \A n \in seen :
        (\E i \in Saved : Describes(i, n)) =>
            \E i \in restored \cup InFlight : Describes(i, n)

\* Records of one key are used in the order of the file, over all the attempts:
\* a later one is never used while an earlier one is pending (the break at 584).
FileOrder ==
    \A i, j \in Saved :
        i < j /\ SameKey(i, j) /\ j \in restored \cup InFlight => i \in restored

\* What the closing report says is true: a record it names was tried for the
\* full number of attempts and none of its settings is in force (lines 591-601).
ReportTruthful ==
    \A i \in reported : Untouched(i) /\ attempt > MaxRetries /\ i \notin restored

\* A record counted as restored is never applied again, so a later attempt does
\* not undo what was changed on its adapter since (lines 570-571).
RestoredOnce ==
    [][/\ \A n \in Nics, c \in Calls :
            inForce'[n][c] # inForce[n][c] => inForce'[n][c] \notin restored
       /\ host' # host => host' \notin restored]_vars

\* The custom action ends, whatever the devices do (lines 551-553).
Terminates == <>(pc = "done")

-------------------------------------------------------------------------------
(* The inductive invariant of the proofs *)

\* A row with MAC and service mac, svc can have come from adapter n.
ReadFrom(n, mac, svc) == mac \in {MacOf[n], Unread} /\ svc \in {ServiceOf[n], Unread}

\* The loop's place: attempts are left inside a scan, the loop is left only when
\* they are used up or nothing is pending, and the report is made at the end.
LoopInv ==
    /\ pc \in {"scan", "apply"} => attempt <= MaxRetries
    /\ pc \in {"report", "done"} => attempt > MaxRetries \/ Pending = {}
    /\ reported = IF pc = "done" THEN Pending ELSE {}

\* While a record is applied it is pending, and it was chosen for the row that
\* m_pclsObj still holds.
ApplyInv ==
    pc = "apply" =>
        /\ idx \in Pending
        /\ cur \in Nics
        /\ ReadFrom(cur, adapters[idx].mac, adapters[idx].svc)

\* A record that was never chosen has left no trace.
UnusedUntouched == \A i \in Saved \ (restored \cup InFlight) : Untouched(i)

IInv == /\ TypeOK
        /\ LoopInv
        /\ ApplyInv
        /\ RightNic
        /\ SeenIsServed
        /\ FileOrder
        /\ UnusedUntouched

-------------------------------------------------------------------------------
(* The abstract promise this implements *)

Outcome == [i \in Saved |-> CASE i \in restored -> "restored"
                              [] i \in reported -> "lost"
                              [] OTHER -> "pending"]

Promise == INSTANCE RestorePromise
               WITH records <- adapters, outcome <- Outcome, ended <- (pc = "done")

\* The loop implements the promise: one record at a time, each at most once, in
\* the order of the file among records of one key, and every record has an
\* outcome when the action ends.
ImplementsPromise == Promise!Spec

-------------------------------------------------------------------------------
(* The abstract cursor this uses *)

Cursor == INSTANCE WmiCursor WITH Rows <- Nics, NoRow <- NoNic, left <- rows

\* The loop uses its WMI session only as the session allows: no row of an earlier
\* attempt is current in a later one, and none is read twice.
UsesCursor == Cursor!Spec
===============================================================================
