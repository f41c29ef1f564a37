---------------------------- MODULE MCPackageQueue ----------------------------
(* Instance of PackageQueue for TLC: tables of up to three packages. *)
EXTENDS PackageQueue

CONSTANTS viorng, vioser, netkvm

MCPackages == {viorng, vioser, netkvm}

\* Column Flags is 0 or 3 in this installer.
FlagValues == {{}, Flags}
Row(p, f, t) == [pkg |-> p, flags |-> f, todo |-> t]

\* Every table of two packages, and three packages of one list or of both.
MCTables ==
    { << Row(viorng, f, t), Row(vioser, g, u) >> :
          f, g \in FlagValues, t, u \in {"install", "uninstall", "none"} }
    \cup { << Row(netkvm, {}, "install"), Row(viorng, Flags, t),
              Row(vioser, {}, "install") >> : t \in {"install", "uninstall"} }
===============================================================================
