---------------------------- MODULE RestorePromise ----------------------------
(***************************************************************************)
(* What restoring the saved network settings promises, without adapters,   *)
(* attempts or WMI: each record of the file ends up restored or reported   *)
(* lost, exactly once.  NicRestore implements it.                          *)
(***************************************************************************)
EXTENDS Naturals, Sequences

CONSTANT SavedLists  \* the lists of records the configuration file may hold

VARIABLES records,  \* the saved list
          outcome,  \* of each record: "pending", "restored" or "lost"
          ended     \* the custom action has returned

vars == <<records, outcome, ended>>

SameAdapter(i, j) == /\ records[i].mac = records[j].mac
                     /\ records[i].svc = records[j].svc

Init == /\ records \in SavedLists
        /\ outcome = [i \in DOMAIN records |-> "pending"]
        /\ ended = FALSE

\* A record is restored.  Of the records of one adapter, the first pending one.
RestoreOne(i) ==
    /\ ~ended
    /\ outcome[i] = "pending"
    /\ \A j \in DOMAIN records :
           j < i /\ SameAdapter(i, j) => outcome[j] # "pending"
    /\ outcome' = [outcome EXCEPT ![i] = "restored"]
    /\ UNCHANGED <<records, ended>>

\* The action returns: what is still pending is reported.
End ==
    /\ ~ended
    /\ ended' = TRUE
    /\ outcome' = [i \in DOMAIN records |->
                       IF outcome[i] = "pending" THEN "lost" ELSE outcome[i]]
    /\ UNCHANGED records

Next == End \/ \E i \in DOMAIN records : RestoreOne(i)

Safety == Init /\ [][Next]_vars
Spec == Safety /\ WF_vars(Next)
===============================================================================
