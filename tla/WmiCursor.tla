------------------------------- MODULE WmiCursor -------------------------------
(***************************************************************************)
(* What ManagementClass promises to the code that uses it: a query whose   *)
(* rows come one at a time, each once, and a current row that is never one *)
(* of an earlier query.  WmiSession implements it, and NicRestore uses the *)
(* session in no other way.                                                *)
(***************************************************************************)
CONSTANTS Rows,   \* what a query may return
          NoRow   \* no current row

VARIABLES left,  \* rows still to come
          cur    \* the current row

vars == <<left, cur>>

Init == left = {} /\ cur = NoRow

\* A query, or a query that failed: the current row is gone in either case.
Query == left' \in SUBSET Rows /\ cur' = NoRow

\* The next row becomes the current one.
Advance(r) == r \in left /\ left' = left \ {r} /\ cur' = r

\* There are no more rows, or they cannot be had.  The current row stays.
End == left' = {} /\ UNCHANGED cur

\* The session is closed.
Close == left' = {} /\ cur' = NoRow

Next == Query \/ End \/ Close \/ \E r \in Rows : Advance(r)

Spec == Init /\ [][Next]_vars
===============================================================================
