--------------------------- MODULE MCLazyClients ---------------------------
(***************************************************************************)
(* Constants of LazyClients for TLC: calls that overlap on two accessors.  *)
(***************************************************************************)
EXTENDS LazyClients

CONSTANTS p1, d1, s1

Provisions == {p1}
Terminates == {d1}
Statuses == {s1}
=============================================================================
