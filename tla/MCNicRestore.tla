----------------------------- MODULE MCNicRestore -----------------------------
(* Instance of NicRestore for TLC: three adapters, two of them twins. *)
EXTENDS NicRestore

CONSTANTS kvmA, kvmB, vfA

MCNics == {kvmA, kvmB, vfA}
MCMacOf == [n \in Nics |-> IF n = kvmB THEN "B" ELSE "A"]
MCServiceOf == [n \in Nics |-> IF n = vfA THEN "vf" ELSE "netkvm"]

Rec(mac, has) == [mac |-> mac, svc |-> "netkvm", has |-> has]

\* What the file of ConfigWrite can hold.  DNS servers and suffixes are never empty
\* (an empty line is split into one empty name); an empty list of addresses counts
\* as an IPv6 one; and masks or gateways may have been unreadable.
Names == {"dns", "suffix"}
Static == {"addr4", "mask4", "gw4"} \cup Names
Dual == {"addr4", "mask4", "addr6", "mask6", "gw6"} \cup Names
Maskless == {"addr4", "mask6", "gw6"} \cup Names

\* No record; one; two adapters; an adapter that is absent; two records of one
\* adapter; a record saved with an unreadable MAC.
MCSavedLists ==
    { << >>,
      << Rec("A", Dual) >>,
      << Rec("A", Static), Rec("B", Maskless) >>,
      << Rec("C", Static), Rec("A", Maskless) >>,
      << Rec("A", Maskless), Rec("A", Maskless) >>,
      << Rec("", Maskless), Rec("B", Maskless) >> }
===============================================================================
