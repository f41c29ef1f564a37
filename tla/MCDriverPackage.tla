---------------------------- MODULE MCDriverPackage ----------------------------
(* Instance of DriverPackage for TLC: a device with two IDs of the package and  *)
(* one with none; two versions of the package that products ship one after the  *)
(* other, the second for one ID only; a package of another vendor for both.     *)
EXTENDS DriverPackage, TLC

CONSTANTS first, second, theirs, dev, alt

MCDevices == {dev, alt}
MCHwidOf == (dev :> {"id1", "id2"}) @@ (alt :> {"id3"})
MCVersions == {first, second, theirs}
MCInfHwids == (first :> <<"id1", "id2">>) @@ (second :> <<"id2">>) @@ (theirs :> <<"id2", "id3">>)
MCReleaseOf == (first :> "r1") @@ (second :> "r2") @@ (theirs :> "r3")
MCSlots == 1..2

\* One product, or one that a later version replaces.
OneProduct == {first}
TwoProducts == {first, second}

\* Without a second product only two versions are about.
TwoVersions == {first, theirs}
===============================================================================
