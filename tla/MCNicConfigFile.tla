--------------------------- MODULE MCNicConfigFile ----------------------------
(* Instance of NicConfigFile for TLC.  Lines have three characters unless told. *)
EXTENDS NicConfigFile

MCIPv4 == {"10.1", "10.2", "255.0", "255.8"}

\* Adapter `id` with lists of addresses, masks and gateways and a metric.
Adapter(id, addr, mask, gw, metric, big, size) ==
    [value |-> [n \in Names |->
        CASE n = "IPAddress" -> addr
          [] n = "IPSubnet" -> mask
          [] n = "DefaultIPGateway" -> gw
          [] n = "IPConnectionMetric" -> << metric >>
          [] n \in {"Index", "IPFilterSecurityEnabled", "DNSEnabledForWINSResolution"} -> << 1 >>
          [] n = "ServiceName" -> Netkvm
          [] OTHER -> << id >>],
     size |-> [n \in Names |-> IF n = big THEN size ELSE 3],
     ipEnabled |-> TRUE, dhcp |-> FALSE]

\* One IPv4 address; two families, IPv6 last or first; two of each family.
Plain == Adapter("A", << "10.1" >>, << "255.0" >>, << "10.2" >>, 5, "Index", 3)
Dual == Adapter("B", << "10.2", "fe80" >>, << "255.8", "64" >>, << "10.2", "fe81" >>,
                40000, "Description", 6)
SixFirst == Adapter("C", << "fe80", "10.1" >>, << "64", "255.0" >>, Empty, 5, "Index", 5)
ManySix == Adapter("D", << "10.1", "10.2", "fe80", "fe82" >>, << "255.0", "255.8", "64", "48" >>,
                   Empty, 5, "Index", 3)
\* A list of suffixes that does not fit the buffer.
Long == Adapter("E", << "10.1" >>, << "255.0" >>, Empty, 5, "DNSDomainSuffixSearchOrder", 7)
\* Adapters that are not saved.
Leasing == [Plain EXCEPT !.dhcp = TRUE]
Down == [Dual EXCEPT !.ipEnabled = FALSE]
Foreign == [Plain EXCEPT !.value["ServiceName"] = << "e1000" >>]

\* Nothing; two adapters, with others before and between them that are passed over;
\* many addresses; a line that does not fit.
MCNetworks == << << >>, << Leasing, SixFirst, Foreign, Dual >>, << ManySix >>, << Down, Long >> >>
MCBackups == {SixFirst}
===============================================================================
