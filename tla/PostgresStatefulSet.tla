------------------------ MODULE PostgresStatefulSet ------------------------
(***************************************************************************)
(* Kubernetes' StatefulSet controller for the two PostgreSQL pods, as far  *)
(* as deploy.sh and the scaling consumer depend on it: pods are made in    *)
(* order, each when the one before is ready; a changed template restarts   *)
(* them one at a time, the last one first, and only while all are ready.   *)
(***************************************************************************)

CONSTANT Fitting   \* templates for whose pod a node has room

VARIABLES
  template,   \* the pod template of the StatefulSet, which others change
  state,      \* each pod's state
  runs        \* the template each pod was made from

Pod == {"postgres-0", "postgres-1"}
State == {"absent", "starting", "ready"}

AllReady == \A p \in Pod : state[p] = "ready"

CreatePod(p) ==
  /\ state[p] = "absent"
  /\ p = "postgres-1" => state["postgres-0"] = "ready"
  /\ state' = [state EXCEPT ![p] = "starting"]
  /\ runs' = [runs EXCEPT ![p] = template]
  /\ UNCHANGED template

PodReady(p) ==
  /\ state[p] = "starting"
  /\ runs[p] \in Fitting
  /\ state' = [state EXCEPT ![p] = "ready"]
  /\ UNCHANGED <<template, runs>>

\* A container dies; the kubelet starts it again in the same pod.
PodFails(p) ==
  /\ state[p] = "ready"
  /\ state' = [state EXCEPT ![p] = "starting"]
  /\ UNCHANGED <<template, runs>>

\* The rolling update deletes the last pod that is not of the template.
RollOut(p) ==
  /\ AllReady
  /\ runs[p] # template
  /\ p = "postgres-0" => runs["postgres-1"] = template
  /\ state' = [state EXCEPT ![p] = "absent"]
  /\ UNCHANGED <<template, runs>>

\* What the controller and the kubelets do of themselves.
Control(p) == CreatePod(p) \/ PodReady(p) \/ RollOut(p)

UpToDate == AllReady /\ \A p \in Pod : runs[p] = template
=============================================================================
