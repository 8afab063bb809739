----------------------------- MODULE MCScaling -----------------------------
(***************************************************************************)
(* Constants of Scaling for TLC: consumers, and recommendations at, inside *)
(* and outside the bounds, in the notations Kubernetes allows and some it  *)
(* does not.                                                               *)
(***************************************************************************)
EXTENDS Scaling

CONSTANTS server, simulator

WellFormed ==
  Simulated \cup {
   Ask("scale_up", 500, "m", 1, "Gi"),      \* shares its CPU with scale_down
   Ask("scale_up", 1000, "m", 1024, "Mi"),  \* stored as 1 and 1Gi
   Ask("scale_up", 4000, "m", 128, "Mi"),   \* above one bound, below the other
   Ask("scale_up", 250, "m", 4, "Gi"),      \* on one bound, above the other
   Ask("scale_up", 2, "", 512, "Mi"),       \* two cores, read as 2m
   Ask("scale_up", 500, "", 512, "Mi")}     \* five hundred cores

IllFormed ==
  {Ask("scale_up", 500, "bad", 512, "Mi"),
   Ask("scale_up", 500, "m", 512, "bad"),
   Ask("scale_up", 500, "number", 512, "bad"),
   Ask("scale_up", 500, "m", 512, "number"),
   Ask("unknown", 500, "m", 512, "Mi"),
   Ask("scale_up", 600, "displaced", 512, "Mi"),
   [Ask("scale_up", 500, "m", 512, "Mi") EXCEPT !.complete = FALSE]}

AnyEvent == WellFormed \cup IllFormed

OneConsumer == {server}
TwoConsumers == {server, simulator}
OneSimulator == {simulator}
NoSimulator == {}
=============================================================================
