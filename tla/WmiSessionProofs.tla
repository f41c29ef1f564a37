--------------------------- MODULE WmiSessionProofs ---------------------------
(***************************************************************************)
(* The safety properties of WmiSession, for every number of queries and    *)
(* actions and every class of instances, and that it implements WmiCursor. *)
(***************************************************************************)
EXTENDS WmiSession, TLAPS

LEMMA InitInv == Init => IInv
<1> SUFFICES ASSUME Init PROVE IInv
    OBVIOUS
<1> USE BoundAssumption DEF Init, Null
<1>1. PointerTypes
    BY DEF PointerTypes
<1>2. CursorTypes /\ FlagTypes
    BY DEF CursorTypes, FlagTypes
<1>3. ComTypes
    BY DEF ComTypes
<1>4. StageInv
    BY DEF StageInv
<1>5. ComInv
    BY DEF ComInv
<1>6. NoLeak
    BY DEF NoLeak
<1> QED BY <1>1, <1>2, <1>3, <1>4, <1>5, <1>6 DEF IInv, TypeOK

\* The steps of GetInstances leave COM alone, those of Init and Close the pointers.
LEMMA TypeStep == IInv /\ [Next]_vars => TypeOK'
<1> SUFFICES ASSUME IInv, [Next]_vars PROVE TypeOK'
    OBVIOUS
<1> USE BoundAssumption
<1>0. /\ PointerTypes /\ CursorTypes /\ ComTypes /\ FlagTypes
      /\ StageInv /\ ComInv /\ NoLeak
    BY DEF IInv, TypeOK
<1>1. PointerTypes'
    BY <1>0 DEF PointerTypes, Null, Next, GetInstances, InitSucceeds, InitFails, StartClose,
        DeleteManagementClass, Uninitialize, Release, Secure, CreateLocator, ConnectServer,
        SetBlanket, ExecQuery, ExecQueryFails, GiveUp, MoveNext, MoveNextFails, GetMethod,
        MethodReturns, vars, pointers
<1>2. CursorTypes'
    <2>1. loc \in Nat /\ svc \in Nat /\ enum \in Nat
        BY <1>0 DEF PointerTypes
    <2> QED
        BY <1>0, <2>1 DEF CursorTypes, Overwrites, Next, GetInstances, InitSucceeds, InitFails,
            StartClose, DeleteManagementClass, Uninitialize, Release, Secure, CreateLocator,
            ConnectServer, SetBlanket, ExecQuery, ExecQueryFails, GiveUp, MoveNext,
            MoveNextFails, GetMethod, MethodReturns, vars, cursor
<1>3. ComTypes'
    <2>1. CASE InitSucceeds
        BY <1>0, <2>1 DEF InitSucceeds, ComTypes, ComInv, StageInv
    <2>2. CASE InitFails
        BY <1>0, <2>2 DEF InitFails, ComTypes, ComInv
    <2>3. CASE Uninitialize
        BY <1>0, <2>3 DEF Uninitialize, ComTypes
    <2>4. CASE UNCHANGED <<com, host, actions, failures>>
        BY <1>0, <2>4 DEF ComTypes
    <2>5. InitSucceeds \/ InitFails \/ Uninitialize \/ UNCHANGED <<com, host, actions, failures>>
        BY DEF Next, GetInstances, StartClose, DeleteManagementClass, Release, Secure,
            CreateLocator, ConnectServer, SetBlanket, ExecQuery, ExecQueryFails, GiveUp,
            MoveNext, MoveNextFails, GetMethod, MethodReturns, vars, comVars
    <2> QED BY <2>1, <2>2, <2>3, <2>4, <2>5
<1>4. FlagTypes'
    BY <1>0 DEF FlagTypes, Next, GetInstances, InitSucceeds, InitFails, StartClose,
        DeleteManagementClass, Uninitialize, Release, Secure, CreateLocator, ConnectServer,
        SetBlanket, ExecQuery, ExecQueryFails, GiveUp, MoveNext, MoveNextFails, GetMethod,
        MethodReturns, vars, secVars, comVars
<1>5. pc' \in {"out", "ready", "security", "locator", "connect", "blanket", "query",
               "scan", "method", "close", "uninit"}
    BY DEF IInv, TypeOK, Next, GetInstances, InitSucceeds, InitFails, StartClose,
        DeleteManagementClass, Uninitialize, Release, Secure, CreateLocator, ConnectServer,
        SetBlanket, ExecQuery, ExecQueryFails, GiveUp, MoveNext, MoveNextFails, GetMethod,
        MethodReturns, vars
<1> QED BY <1>1, <1>2, <1>3, <1>4, <1>5 DEF TypeOK

\* A query sets its pointers in order, on top of NULL.
LEMMA StageStep == IInv /\ [Next]_vars => StageInv' /\ NoLeak'
<1> SUFFICES ASSUME IInv, [Next]_vars PROVE StageInv' /\ NoLeak'
    OBVIOUS
<1>0. /\ PointerTypes /\ CursorTypes /\ FlagTypes
      /\ StageInv /\ NoLeak
    BY DEF IInv, TypeOK
<1> USE <1>0, RowAssumption DEF Null, PointerTypes, CursorTypes, FlagTypes, StageInv, NoLeak
<1>1. CASE InitSucceeds
    BY <1>1 DEF InitSucceeds, pointers, cursor
<1>2. CASE InitFails
    BY <1>2 DEF InitFails, pointers, cursor
<1>3. CASE StartClose \/ (\E stage \in {"security", "locator", "connect", "blanket", "query"} : GiveUp(stage))
    BY <1>3 DEF StartClose, GiveUp, pointers, cursor, secVars, comVars
<1>4. CASE DeleteManagementClass
    BY <1>4 DEF DeleteManagementClass, secVars, comVars
<1>5. CASE Uninitialize
    BY <1>5 DEF Uninitialize, pointers, cursor, secVars
<1>6. CASE Release
    BY <1>6 DEF Release, secVars, comVars
<1>7. CASE Secure \/ SetBlanket
    BY <1>7 DEF Secure, SetBlanket, pointers, cursor, secVars, comVars
<1>8. CASE CreateLocator
    BY <1>8 DEF CreateLocator, Overwrites, cursor, secVars, comVars
<1>9. CASE ConnectServer
    BY <1>9 DEF ConnectServer, Overwrites, cursor, secVars, comVars
<1>10. CASE ExecQuery
    BY <1>10 DEF ExecQuery, Overwrites, secVars, comVars
<1>11. CASE ExecQueryFails
    BY <1>11 DEF ExecQueryFails, Overwrites, cursor, secVars, comVars
<1>12. CASE \E r \in Rows : MoveNext(r)
    BY <1>12 DEF MoveNext, secVars, comVars
<1>13. CASE MoveNextFails \/ GetMethod \/ MethodReturns
    BY <1>13 DEF MoveNextFails, GetMethod, MethodReturns, pointers, cursor, secVars, comVars
<1>14. CASE UNCHANGED vars
    BY <1>14 DEF vars, pointers, cursor, secVars, comVars
<1> QED BY <1>1, <1>2, <1>3, <1>4, <1>5, <1>6, <1>7, <1>8, <1>9, <1>10, <1>11, <1>12,
           <1>13, <1>14 DEF Next, GetInstances

\* Only an action whose CoInitializeEx failed takes more than it gave.
LEMMA ComStep == IInv /\ [Next]_vars => ComInv'
<1> SUFFICES ASSUME IInv, [Next]_vars PROVE ComInv'
    OBVIOUS
<1>0. ComTypes /\ FlagTypes /\ StageInv /\ ComInv
    BY DEF IInv, TypeOK
<1> USE <1>0 DEF ComTypes, FlagTypes, ComInv
<1>1. CASE InitSucceeds
    BY <1>1 DEF InitSucceeds, StageInv
<1>2. CASE InitFails
    BY <1>2 DEF InitFails, StageInv
<1>3. CASE Uninitialize
    BY <1>3 DEF Uninitialize
<1>4. CASE DeleteManagementClass
    BY <1>4 DEF DeleteManagementClass, comVars
<1>5. CASE StartClose
    BY <1>5 DEF StartClose, comVars, StageInv
<1>6. CASE UNCHANGED comVars /\ pc \notin {"close", "uninit"} /\ pc' \notin {"close", "uninit"}
    BY <1>6 DEF comVars
<1>7. CASE UNCHANGED vars
    BY <1>7 DEF vars, comVars
<1>8. \/ InitSucceeds \/ InitFails \/ StartClose \/ DeleteManagementClass \/ Uninitialize
      \/ UNCHANGED comVars /\ pc \notin {"close", "uninit"} /\ pc' \notin {"close", "uninit"}
      \/ UNCHANGED vars
    BY DEF Next, GetInstances, GiveUp, Release, Secure, CreateLocator, ConnectServer,
           SetBlanket, ExecQuery, ExecQueryFails, MoveNext, MoveNextFails, GetMethod,
           MethodReturns, comVars
<1> QED BY <1>1, <1>2, <1>3, <1>4, <1>5, <1>6, <1>7, <1>8

LEMMA InductiveInvariant == Spec => []IInv
<1>1. IInv /\ [Next]_vars => IInv'
    BY TypeStep, StageStep, ComStep DEF IInv
<1> QED BY <1>1, InitInv, PTL DEF Spec

-------------------------------------------------------------------------------
\* Every reachable state is well typed.
THEOREM TypeCorrect == Spec => []TypeOK
<1>1. IInv => TypeOK
    BY DEF IInv
<1> QED BY <1>1, InductiveInvariant, PTL

\* The row and the connection in use are those of the last query, wherever the queries
\* before it failed.
THEOREM CurrentRow == Spec => []RowIsCurrent
<1>1. IInv => RowIsCurrent
    BY DEF IInv, StageInv, RowIsCurrent, Null
<1> QED BY <1>1, InductiveInvariant, PTL

\* No interface pointer is leaked by a query that is repeated.
THEOREM NothingLeaks == Spec => []NoLeak
<1>1. IInv => NoLeak
    BY DEF IInv
<1> QED BY <1>1, InductiveInvariant, PTL

\* Every pointer is released while COM is still initialised.
THEOREM ReleasedInTime == Spec => []HeldInsideCom
<1>1. IInv => HeldInsideCom
    BY DEF IInv, TypeOK, PointerTypes, StageInv, ComInv, HeldInsideCom, Null
<1> QED BY <1>1, InductiveInvariant, PTL

\* COM is left as the host had it, but for actions that could not initialise it.
THEOREM BalancedCom == Spec => []ComBalanced
<1>1. IInv => ComBalanced
    BY DEF IInv, TypeOK, ComTypes, StageInv, ComInv, ComBalanced
<1> QED BY <1>1, InductiveInvariant, PTL

\* No WMI object is made before the process has a security level.
THEOREM SecurityFirst == Spec => []SecuredFirst
<1>1. IInv => SecuredFirst
    BY DEF IInv, TypeOK, FlagTypes, StageInv, SecuredFirst, Null
<1> QED BY <1>1, InductiveInvariant, PTL

\* Every step of the session is a step of the cursor, or leaves it as it is.
THEOREM CursorImplemented == Spec => ImplementsCursor
<1>1. Init => Cursor!Init
    BY DEF Init, Cursor!Init
<1>2. IInv /\ [Next]_vars => [Cursor!Next]_Cursor!vars
    <2> SUFFICES ASSUME IInv, [Next]_vars PROVE [Cursor!Next]_Cursor!vars
        OBVIOUS
    <2> USE DEF Cursor!Next, Cursor!vars
    <2>1. CASE Release
        BY <2>1 DEF Release, Cursor!Close
    <2>2. CASE DeleteManagementClass
        BY <2>2 DEF DeleteManagementClass, Cursor!Close
    <2>3. CASE ExecQuery
        <3>1. row = NoRow
            BY <2>3 DEF IInv, StageInv, ExecQuery, Null
        <3> QED BY <2>3, <3>1 DEF ExecQuery, Cursor!Query
    <2>4. CASE MoveNextFails
        BY <2>4 DEF MoveNextFails, Cursor!End
    <2>5. CASE \E r \in Rows : MoveNext(r)
        BY <2>5 DEF MoveNext, Cursor!Advance
    <2>6. CASE UNCHANGED cursor
        BY <2>6 DEF cursor
    <2>7. \/ Release \/ DeleteManagementClass \/ ExecQuery \/ MoveNextFails
          \/ (\E r \in Rows : MoveNext(r)) \/ UNCHANGED cursor
        BY DEF Next, GetInstances, GiveUp, InitSucceeds, InitFails, StartClose, Uninitialize,
               Secure, CreateLocator, ConnectServer, SetBlanket, ExecQueryFails, GetMethod,
               MethodReturns, vars, cursor
    <2> QED BY <2>1, <2>2, <2>3, <2>4, <2>5, <2>6, <2>7
<1> QED BY <1>1, <1>2, InductiveInvariant, PTL DEF Spec, ImplementsCursor, Cursor!Spec
===============================================================================
