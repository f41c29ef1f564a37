----------------------------- MODULE MCWmiSession -----------------------------
(* Instance of WmiSession for TLC. *)
EXTENDS WmiSession

CONSTANTS nicA, nicB

TwoRows == {nicA, nicB}
===============================================================================
