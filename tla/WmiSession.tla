------------------------------ MODULE WmiSession ------------------------------
(***************************************************************************)
(* ManagementClass, inside the Config object that owns it: the COM         *)
(* pointers of a WMI session from CoInitializeEx to CoUninitialize         *)
(* (ManagementClass.cpp, Config::Init and Config::Close of ConfigClass.cpp).*)
(*                                                                         *)
(* A custom action creates the Config, queries any number of times, walks  *)
(* the rows of a query and calls methods for a row, and deletes it.  Every *)
(* call of COM may fail.  Several actions may run one after the other in   *)
(* one process, each with the DLL loaded anew.  A pointer is the number of *)
(* the query that set it; 0 is NULL.                                       *)
(***************************************************************************)
EXTENDS Naturals

CONSTANTS
    Rows,        \* the instances of the class
    NoRow,       \* no row
    MaxQueries,  \* bound on the queries of an action
    MaxActions   \* bound on the custom actions of a process

ASSUME RowAssumption == NoRow \notin Rows
ASSUME BoundAssumption == MaxQueries \in Nat /\ MaxActions \in Nat

VARIABLES
    pc,          \* "out" | "ready" | a stage of GetInstances | "scan" | "method" | "close" | "uninit"
    loc, svc,    \* m_pLoc, m_pSvc
    enum, obj,   \* m_pEnumerator, m_pclsObj
    row, left,   \* the row in m_pclsObj; the rows of m_pEnumerator still to come
    params,      \* pInInstClass, a local of the callers of GetMethod
    queries,     \* GetInstances calls of this action
    security,    \* m_bSecurity
    process,     \* the process has a COM security level
    com, host,   \* CoInitializeEx calls in effect; those of the host of the DLL
    inside,      \* history: CoInitializeEx succeeded in this action
    actions, failures,  \* actions started; history: those whose CoInitializeEx failed
    leaked       \* history: pointers that were overwritten without Release

pointers == <<loc, svc, enum, obj>>
cursor == <<row, left>>
comVars == <<com, host, inside, actions, failures>>
secVars == <<security, process>>
vars == <<pc, pointers, cursor, params, queries, secVars, comVars, leaked>>

Null == 0

Init ==
    /\ pc = "out"
    /\ loc = Null /\ svc = Null /\ enum = Null /\ obj = Null /\ params = Null
    /\ row = NoRow /\ left = {}
    /\ queries = 0 /\ actions = 0 /\ failures = 0
    /\ security = FALSE /\ process = FALSE
    /\ host \in 0..1 /\ com = host /\ inside = FALSE
    /\ leaked = {}

\* A pointer handed out as an address: CComPtr expects it to be NULL.
Overwrites(p) == leaked' = IF p = Null THEN leaked ELSE leaked \cup {p}

-------------------------------------------------------------------------------
(* Config::Init and Config::Close *)

\* CoInitializeEx succeeds, and the ManagementClass is made.
InitSucceeds ==
    /\ pc = "out" /\ actions < MaxActions
    /\ pc' = "ready"
    /\ com' = com + 1 /\ inside' = TRUE
    /\ actions' = actions + 1 /\ queries' = 0
    /\ security' = FALSE
    /\ UNCHANGED <<pointers, cursor, params, process, host, failures, leaked>>

\* It fails, and the Config is deleted.
InitFails ==
    /\ pc = "out" /\ actions < MaxActions
    /\ pc' = "close"
    /\ actions' = actions + 1 /\ failures' = failures + 1 /\ queries' = 0
    /\ security' = FALSE
    /\ UNCHANGED <<pointers, cursor, params, process, com, host, inside, leaked>>

\* The action is through: ~Config.
StartClose ==
    /\ pc = "ready"
    /\ pc' = "close"
    /\ UNCHANGED <<pointers, cursor, params, queries, secVars, comVars, leaked>>

\* Mutant: the ManagementClass is deleted after CoUninitialize.
DeleteNothing ==
    /\ pc = "close"
    /\ pc' = "uninit"
    /\ UNCHANGED <<pointers, cursor, params, queries, secVars, comVars, leaked>>

\* Close: `delete nac` releases what the pointers hold.
DeleteManagementClass ==
    /\ pc = "close"
    /\ pc' = "uninit"
    /\ loc' = Null /\ svc' = Null /\ enum' = Null /\ obj' = Null
    /\ row' = NoRow /\ left' = {}
    /\ UNCHANGED <<params, queries, secVars, comVars, leaked>>

\* Mutant: COM stays initialised.
KeepCom ==
    /\ pc = "uninit"
    /\ pc' = "out"
    /\ inside' = FALSE
    /\ UNCHANGED <<pointers, cursor, params, queries, secVars, com, host, actions,
                   failures, leaked>>

\* Close: CoUninitialize, also when CoInitializeEx had failed.
Uninitialize ==
    /\ pc = "uninit"
    /\ pc' = "out"
    /\ com' = IF com = 0 THEN 0 ELSE com - 1
    /\ inside' = FALSE
    /\ UNCHANGED <<pointers, cursor, params, queries, secVars, host, actions,
                   failures, leaked>>

-------------------------------------------------------------------------------
(* GetInstances *)

\* A call of GetInstances fails and it returns false; ConfigRead::Run may try again.
GiveUp(stage) ==
    /\ pc = stage
    /\ pc' = "ready"
    /\ UNCHANGED <<pointers, cursor, params, queries, secVars, comVars, leaked>>

\* Mutant: m_pclsObj is kept until the next row replaces it.
ReleaseButRow ==
    /\ pc = "ready" /\ queries < MaxQueries
    /\ pc' = IF security THEN "locator" ELSE "security"
    /\ queries' = queries + 1
    /\ loc' = Null /\ svc' = Null /\ enum' = Null
    /\ left' = {}
    /\ UNCHANGED <<obj, row, params, secVars, comVars, leaked>>

\* Mutant: m_pSvc is not released.
ReleaseButService ==
    /\ pc = "ready" /\ queries < MaxQueries
    /\ pc' = IF security THEN "locator" ELSE "security"
    /\ queries' = queries + 1
    /\ loc' = Null /\ enum' = Null /\ obj' = Null
    /\ row' = NoRow /\ left' = {}
    /\ UNCHANGED <<svc, params, secVars, comVars, leaked>>

\* It begins by releasing what an earlier query left.
Release ==
    /\ pc = "ready" /\ queries < MaxQueries
    /\ pc' = IF security THEN "locator" ELSE "security"
    /\ queries' = queries + 1
    /\ loc' = Null /\ svc' = Null /\ enum' = Null /\ obj' = Null
    /\ row' = NoRow /\ left' = {}
    /\ UNCHANGED <<params, secVars, comVars, leaked>>

\* Mutant: m_bSecurity is set before the result is looked at.
SecureAnyway ==
    /\ pc = "security"
    /\ pc' = "locator"
    /\ security' = TRUE
    /\ process' \in {process, TRUE}
    /\ UNCHANGED <<pointers, cursor, params, queries, comVars, leaked>>

\* CoInitializeSecurity succeeds, or is too late because the process has a level.
Secure ==
    /\ pc = "security"
    /\ pc' = "locator"
    /\ security' = TRUE /\ process' = TRUE
    /\ UNCHANGED <<pointers, cursor, params, queries, comVars, leaked>>

\* CoCreateInstance.
CreateLocator ==
    /\ pc = "locator"
    /\ pc' = "connect"
    /\ loc' = queries /\ Overwrites(loc)
    /\ UNCHANGED <<svc, enum, obj, cursor, params, queries, secVars, comVars>>

ConnectServer ==
    /\ pc = "connect"
    /\ pc' = "blanket"
    /\ svc' = queries /\ Overwrites(svc)
    /\ UNCHANGED <<loc, enum, obj, cursor, params, queries, secVars, comVars>>

\* CoSetProxyBlanket.
SetBlanket ==
    /\ pc = "blanket"
    /\ pc' = "query"
    /\ UNCHANGED <<pointers, cursor, params, queries, secVars, comVars, leaked>>

ExecQuery ==
    /\ pc = "query"
    /\ pc' = "scan"
    /\ enum' = queries /\ Overwrites(enum)
    /\ left' \in SUBSET Rows
    /\ UNCHANGED <<loc, svc, obj, row, params, queries, secVars, comVars>>

\* ExecQuery returns an error together with an enumerator.
ExecQueryFails ==
    /\ pc = "query"
    /\ pc' = "ready"
    /\ enum' = queries /\ Overwrites(enum)
    /\ UNCHANGED <<loc, svc, obj, cursor, params, queries, secVars, comVars>>

-------------------------------------------------------------------------------
(* MoveNext and the methods, called while the rows of a query are walked *)

MoveNext(r) ==
    /\ pc = "scan" /\ enum # Null
    /\ r \in left
    /\ left' = left \ {r} /\ row' = r
    /\ obj' = enum
    /\ UNCHANGED <<pc, loc, svc, enum, params, queries, secVars, comVars, leaked>>

\* MoveNext returns false: there is no row left, or Next failed.  The walk is over.
MoveNextFails ==
    /\ pc = "scan"
    /\ pc' = "ready"
    /\ left' = {}
    /\ UNCHANGED <<pointers, row, params, queries, secVars, comVars, leaked>>

\* GetMethod, which needs m_pSvc only; each of its three calls may fail, which
\* leaves no trace.
GetMethod ==
    /\ pc = "scan" /\ obj # Null
    /\ svc # Null
    /\ pc' = "method"
    /\ params' = svc
    /\ UNCHANGED <<pointers, cursor, queries, secVars, comVars, leaked>>

\* Put and ExecMethod, or a Put that failed; the caller releases its pointer.
MethodReturns ==
    /\ pc = "method"
    /\ pc' = "scan"
    /\ params' = Null
    /\ UNCHANGED <<pointers, cursor, queries, secVars, comVars, leaked>>

GetInstances ==
    \/ Release \/ Secure \/ CreateLocator \/ ConnectServer \/ SetBlanket
    \/ ExecQuery \/ ExecQueryFails
    \/ \E stage \in {"security", "locator", "connect", "blanket", "query"} : GiveUp(stage)

Next ==
    \/ InitSucceeds \/ InitFails \/ StartClose \/ DeleteManagementClass \/ Uninitialize
    \/ GetInstances
    \/ MoveNextFails \/ GetMethod \/ MethodReturns
    \/ \E r \in Rows : MoveNext(r)

Spec == Init /\ [][Next]_vars

-------------------------------------------------------------------------------
(* Properties *)

\* Every variable keeps its type, and COM is never initialised more than once by the
\* host and once by an action.
PointerTypes == /\ loc \in 0..MaxQueries /\ svc \in 0..MaxQueries
                /\ enum \in 0..MaxQueries /\ obj \in 0..MaxQueries
                /\ params \in 0..MaxQueries /\ queries \in 0..MaxQueries
CursorTypes == row \in Rows \cup {NoRow} /\ left \subseteq Rows /\ leaked \subseteq Nat
ComTypes == /\ host \in 0..1 /\ com \in 0..2
            /\ actions \in 0..MaxActions /\ failures \in 0..MaxActions
FlagTypes == security \in BOOLEAN /\ process \in BOOLEAN /\ inside \in BOOLEAN
TypeOK ==
    /\ pc \in {"out", "ready", "security", "locator", "connect", "blanket", "query",
               "scan", "method", "close", "uninit"}
    /\ PointerTypes /\ CursorTypes /\ ComTypes /\ FlagTypes

\* The row that is read, and the object a method is called on, are of the query made
\* last, and its connection is still there: ExecMethod dereferences m_pSvc having looked
\* at m_pclsObj only (ManagementClass.cpp:349, 363), also after a query that failed
\* half-way (lines 51-54).
RowIsCurrent ==
    obj # Null =>
        /\ obj = enum /\ enum = svc /\ svc = loc /\ obj = queries
        /\ row # NoRow
        /\ params \in {Null, svc}

\* No pointer is overwritten while it holds something, however many queries were made
\* and wherever they failed (lines 51-54, 83, 99, 133).
NoLeak == leaked = {}

\* Whatever a session holds is released before COM is uninitialised, so every pointer
\* lives between a CoInitializeEx that succeeded and its CoUninitialize
\* (ConfigClass.cpp:67-82).
HeldInsideCom ==
    loc # Null \/ svc # Null \/ enum # Null \/ obj # Null \/ params # Null =>
        inside /\ com > 0 /\ pc # "uninit"

\* Between actions COM is initialised as often as the host did, but for the actions
\* whose own CoInitializeEx failed: Close uninitialises all the same, and may take
\* the host's (ConfigClass.cpp:55-58, 81).
ComBalanced == pc = "out" => com <= host /\ host <= com + failures

\* No locator is made, and so no proxy, before the process has a security level,
\* although a failed CoInitializeSecurity is tried again by the next query and one
\* that comes too late is taken for done (ManagementClass.cpp:56-77).
SecuredFirst == loc # Null => process /\ security

-------------------------------------------------------------------------------
(* The abstract cursor this implements *)

Cursor == INSTANCE WmiCursor WITH cur <- row

\* The session implements the cursor its users work with.
ImplementsCursor == Cursor!Spec

-------------------------------------------------------------------------------
(* The inductive invariant of the proofs *)

\* How far a query has come: the pointers set so far are of this query, the others NULL.
StageInv ==
    /\ loc \in {Null, queries} /\ svc \in {Null, loc} /\ enum \in {Null, svc}
    /\ obj \in {Null, enum}
    /\ pc \in {"security", "locator"} => loc = Null
    /\ pc = "connect" => svc = Null /\ loc # Null
    /\ pc \in {"blanket", "query"} => enum = Null /\ svc # Null
    /\ pc \in {"scan", "method"} => enum # Null
    /\ pc \in {"security", "locator", "connect", "blanket", "query"} => left = {} /\ queries > 0
    /\ obj # Null <=> row # NoRow
    /\ params # Null <=> pc = "method"
    /\ pc = "method" => params = svc /\ obj # Null
    /\ pc \in {"out", "uninit"} => loc = Null /\ left = {}
    /\ pc = "out" => ~ inside
    /\ pc = "locator" => security
    /\ loc # Null => security /\ inside
    /\ security => process \/ pc = "out"
    /\ pc \notin {"out", "uninit", "close"} => inside

\* COM is as deep as the host's and this action's initialisations, less what failed
\* actions took.
ComInv ==
    /\ failures <= actions
    /\ inside => com > 0 /\ com <= host + 1 /\ host + 1 <= com + failures
    /\ ~ inside => com <= host /\ host <= com + failures
    /\ ~ inside /\ pc \in {"close", "uninit"} => host < com + failures

IInv == TypeOK /\ StageInv /\ ComInv /\ NoLeak
===============================================================================
