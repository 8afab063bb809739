----------------------- MODULE MCCloudResourceManager -----------------------
(***************************************************************************)
(* Constants of CloudResourceManager for TLC: one provisioning, or none,   *)
(* while the server's consumer is asked for more than both bounds allow    *)
(* and a run of simulate_scaling_event.py patches beside it.               *)
(***************************************************************************)
EXTENDS CloudResourceManager, TLC

CONSTANTS p1, t1, server, simulator

Provisions == {p1}
NoProvision == {}
NoTerminate == {}
Tenants == {t1}
Schemas == p1 :> t1
NoSchemas == [r \in {} |-> t1]
\* Who leads has no bearing on the check, as both claims are bound, so only the
\* run without a call has failovers.
NoCandidates == {}
BothPods == K!Pod
Consumers == {server, simulator}
Simulators == {simulator}
\* One beyond both bounds, and one of the simulator's.
Recommendation(cpu, memory) ==
  [complete |-> TRUE, action |-> "scale_up",
   cpu |-> [n |-> cpu, suffix |-> "m"], memory |-> [n |-> memory, suffix |-> "Gi"]]
Recommendations == {Recommendation(4000, 4), Recommendation(1500, 1)}
=============================================================================
