--------------------------- MODULE TenantService ---------------------------
(***************************************************************************)
(* What the Cloud Resource Manager promises the backend about tenant       *)
(* schemas, without threads, health checks, queues or the wire.            *)
(*                                                                         *)
(* A call takes effect at most once, and a call that is answered READY or  *)
(* TERMINATED has taken effect before the answer.  A call that is refused  *)
(* (the shared cluster was not ready, or could not be asked) never takes   *)
(* effect.  Any other failure, and the loss of the answer in a restart,    *)
(* leaves the effect open: it may have happened, may still happen, or may  *)
(* never happen.                                                           *)
(***************************************************************************)
EXTENDS Naturals

CONSTANTS
  ProvisionCall,   \* calls of ProvisionTenant the backend may make
  TerminateCall,   \* calls of TerminateTenant the backend may make
  Tenant,          \* tenants; each has one schema
  SchemaOf         \* the tenant whose schema a call names

Request == ProvisionCall \cup TerminateCall

VARIABLES
  schemas,   \* tenants whose schema exists in the shared database
  phase,     \* where each call stands, as the backend sees it
  effect     \* whether each call has changed the database

vars == <<schemas, phase, effect>>

Pending == {r \in Request : phase[r] = "pending"}

Init ==
  /\ schemas = {}
  /\ phase = [r \in Request |-> "idle"]
  /\ effect = [r \in Request |-> FALSE]

Invoke(r) ==
  /\ phase[r] = "idle"
  /\ phase' = [phase EXCEPT ![r] = "pending"]
  /\ UNCHANGED <<schemas, effect>>

Effect(r) ==
  /\ phase[r] \in {"pending", "FAILED", "lost"}
  /\ ~effect[r]
  /\ effect' = [effect EXCEPT ![r] = TRUE]
  /\ schemas' = IF r \in ProvisionCall THEN schemas \cup {SchemaOf[r]}
                                       ELSE schemas \ {SchemaOf[r]}
  /\ UNCHANGED phase

Succeed(r) ==
  /\ phase[r] = "pending"
  /\ effect[r]
  /\ phase' = [phase EXCEPT ![r] = IF r \in ProvisionCall THEN "READY"
                                                          ELSE "TERMINATED"]
  /\ UNCHANGED <<schemas, effect>>

Refuse(r) ==
  /\ r \in ProvisionCall
  /\ phase[r] = "pending"
  /\ ~effect[r]
  /\ phase' = [phase EXCEPT ![r] = "refused"]
  /\ UNCHANGED <<schemas, effect>>

Fail(r) ==
  /\ phase[r] = "pending"
  /\ phase' = [phase EXCEPT ![r] = "FAILED"]
  /\ UNCHANGED <<schemas, effect>>

Lose ==
  /\ phase' = [r \in Request |-> IF r \in Pending THEN "lost" ELSE phase[r]]
  /\ UNCHANGED <<schemas, effect>>

Next ==
  \/ \E r \in Request :
       Invoke(r) \/ Effect(r) \/ Succeed(r) \/ Refuse(r) \/ Fail(r)
  \/ Lose

Spec == Init /\ [][Next]_vars
=============================================================================
