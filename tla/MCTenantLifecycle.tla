------------------------- MODULE MCTenantLifecycle -------------------------
(***************************************************************************)
(* Constants of TenantLifecycle for TLC.  Every call names tenant t1, for  *)
(* tenants share nothing but the queue and the threads.                    *)
(***************************************************************************)
EXTENDS TenantLifecycle, TLC

CONSTANTS p1, p2, d1, t1

\* Two provisionings of one tenant and its termination.
OneTenantProvisions == {p1, p2}
OneTenantTerminates == {d1}
OneTenant == {t1}
OneTenantSchema == p1 :> t1 @@ p2 :> t1 @@ d1 :> t1

\* A single provisioning, for the runs about one call and the cluster.
OneProvision == {p1}
NoTerminate == {}
OneProvisionSchema == p1 :> t1

OnlyPrimaryFragile == {PRIMARY_POD}
AllFragile == ClusterObject
=============================================================================
