------------------------- MODULE MCInstallTransaction -------------------------
(* Instance of InstallTransaction for TLC. *)
EXTENDS InstallTransaction

CONSTANTS nicA, nicB, ipX, ipY, dirP, dirQ

OneNic == {nicA}
TwoNics == {nicA, nicB}
OneStatic == {ipX}
TwoStatics == {ipX, ipY}
OneDir == {dirP}
TwoDirs == {dirP, dirQ}
===============================================================================
