---------------------------- MODULE InfraStatus ----------------------------
(***************************************************************************)
(* GetInfraStatus of server.py: get_cluster_status reads both pods and     *)
(* both claims from Kubernetes, then get_patroni_status runs curl in each  *)
(* pod in turn, all while the cluster goes on working and failing over.    *)
(* The answer mixes the two.                                               *)
(***************************************************************************)
EXTENDS PatroniCluster, Integers

VARIABLES
  k8sCore,   \* _get_k8s_core() has a client
  pc,        \* the next remote call of the handler
  phase,     \* pod phases read so far by get_cluster_status
  status,    \* primary_status, replica_status and pvcs_bound
  output,    \* what the exec in postgres-0 printed
  patroni,   \* what get_patroni_status returned
  \* history of the call under way, or of the latest one
  masters,   \* pods that led at some instant of it
  running,   \* pods that ran at some instant of it, and those that did not
  stopped,
  stable,    \* no pod stopped, started, led or ceased to lead
  apiFailed, \* a remote call failed although its pod ran
  prints,    \* how much of a position the execs printed
  first,     \* positions at the first exec and at the second
  last,
  farthest   \* the farthest the pods have ever been apart

callVars == <<phase, status, output, patroni>>
instantVars == <<masters, running, stopped, stable, farthest>>
readVars == <<apiFailed, prints, first, last>>
vars == <<clusterState, k8sCore, pc, callVars, instantVars, readVars>>

Up == {p \in Pod : up[p]}

UnknownStatus == [primary_status |-> "Unknown", replica_status |-> "Unknown",
                  pvcs_bound |-> FALSE]

UnknownPatroni == [leader_pod |-> "unknown", replica_pod |-> "unknown",
                   lag_bytes |-> 0, patroni_healthy |-> FALSE]

\* What a running pod's Patroni prints of its position: all of it, nothing (as
\* while PostgreSQL starts), or something the evaluation raises on, such as a
\* null position or an empty list of replicas.
Printout == {"all", "no_position", "unusable"}

\* Locals are reset when their function returns.
NoPhase == [p \in Pod |-> "Unknown"]
NoPosition == [p \in Pod |-> 0]
NoOutput == [role |-> "none", prints |-> "all", location |-> 0, replayed_location |-> 0]

Init ==
  /\ ClusterInit
  /\ k8sCore \in BOOLEAN
  /\ pc = "idle"
  /\ phase = NoPhase
  /\ status = UnknownStatus
  /\ output = NoOutput
  /\ patroni = UnknownPatroni
  /\ masters = {} /\ running = {} /\ stopped = {}
  /\ stable = TRUE /\ apiFailed = FALSE
  /\ prints = {} /\ first = NoPosition /\ last = NoPosition /\ farthest = 0

----------------------------------------------------------------------------

Begin ==
  /\ pc = "idle"
  /\ pc' = "pod0"
  /\ phase' = NoPhase
  /\ status' = UnknownStatus
  /\ output' = NoOutput
  /\ patroni' = UnknownPatroni
  /\ masters' = Leaders /\ running' = Up /\ stopped' = Pod \ Up
  /\ stable' = TRUE /\ apiFailed' = FALSE /\ prints' = {}
  /\ first' = NoPosition /\ last' = NoPosition
  /\ UNCHANGED <<clusterState, k8sCore, farthest>>

\* No Kubernetes client: both functions return their defaults at once.  One
\* whose making raises ends the call without any answer (see LazyClients).
Unconfigured ==
  /\ pc = "pod0"
  /\ ~k8sCore
  /\ pc' = "idle"
  /\ apiFailed' = TRUE
  /\ UNCHANGED <<clusterState, k8sCore, callVars, instantVars, prints, first, last>>

----------------------------------------------------------------------------
(* get_cluster_status                                                      *)

ReadPod(p, from, to) ==
  /\ pc = from
  /\ k8sCore
  /\ phase' = [phase EXCEPT ![p] = IF up[p] THEN "Running" ELSE "Pending"]
  /\ pc' = to
  /\ UNCHANGED <<clusterState, k8sCore, output, patroni, instantVars, readVars>>

ReadPod0 == ReadPod(PRIMARY_POD, "pod0", "pod1") /\ UNCHANGED status

\* The statuses are stored once both pods have been read.
ReadPod1 ==
  /\ ReadPod(REPLICA_POD, "pod1", "claims")
  /\ status' = [status EXCEPT !.primary_status = phase'[PRIMARY_POD],
                              !.replica_status = phase'[REPLICA_POD]]

ReadClaims ==
  /\ pc = "claims"
  /\ \E b \in BOOLEAN : status' = [status EXCEPT !.pvcs_bound = b]
  /\ pc' = "exec0"
  /\ phase' = NoPhase
  /\ UNCHANGED <<clusterState, k8sCore, output, patroni, instantVars, readVars>>

\* An exception keeps what status already holds.
StatusRaises ==
  /\ pc \in {"pod0", "pod1", "claims"}
  /\ k8sCore
  /\ pc' = "exec0"
  /\ phase' = NoPhase
  /\ apiFailed' = TRUE
  /\ UNCHANGED <<clusterState, k8sCore, status, output, patroni, instantVars, prints, first, last>>

----------------------------------------------------------------------------
(* get_patroni_status                                                      *)

\* What Patroni in pod p prints: a master gives its location, a replica its
\* replayed location, and the caller takes a position it does not find for 0.
PatroniOutput(p, printed) ==
  [role |-> role[p], prints |-> printed,
   location |-> IF role[p] = "master" /\ printed = "all" THEN wal[p] ELSE 0,
   replayed_location |-> IF role[p] = "replica" /\ printed = "all" THEN wal[p] ELSE 0]

\* Plausible bugs: no max, and both pods are asked for their location.
Lag_negative(leader, replica) == leader.location - replica.replayed_location

Lag_ofLocations(leader, replica) ==
  IF replica.location < leader.location THEN leader.location - replica.location ELSE 0

\* max(0, leader_lsn - replica_lsn)
Lag(leader, replica) ==
  IF replica.replayed_location < leader.location
    THEN leader.location - replica.replayed_location ELSE 0

\* l, whose output is leader, leads.  An exception while the positions are
\* evaluated comes after both pods have been named.
Named(l, leader, replica) ==
  LET raises == "unusable" \in {leader.prints, replica.prints}
  IN  [leader_pod |-> l, replica_pod |-> Other(l),
       lag_bytes |-> IF raises THEN 0 ELSE Lag(leader, replica),
       patroni_healthy |-> ~raises]

\* Plausible bugs: whoever is not the first pod leads, and only the first pod
\* is asked.
PatroniStatus_byElimination(out0, out1) ==
  IF out0.role = "master" THEN Named(PRIMARY_POD, out0, out1)
                          ELSE Named(REPLICA_POD, out1, out0)

PatroniStatus_firstPodOnly(out0, out1) ==
  IF out0.role = "master" THEN Named(PRIMARY_POD, out0, out1) ELSE UnknownPatroni

\* postgres-0 is asked first whether it leads.
PatroniStatus(out0, out1) ==
  CASE out0.role = "master" -> Named(PRIMARY_POD, out0, out1)
    [] out0.role # "master" /\ out1.role = "master" -> Named(REPLICA_POD, out1, out0)
    [] OTHER -> UnknownPatroni

ExecPatroni0 ==
  /\ pc = "exec0"
  /\ up[PRIMARY_POD]
  /\ \E printed \in Printout :
       /\ output' = PatroniOutput(PRIMARY_POD, printed)
       /\ prints' = {printed}
  /\ first' = wal
  /\ pc' = "exec1"
  /\ UNCHANGED <<clusterState, k8sCore, phase, status, patroni, instantVars, apiFailed, last>>

ExecPatroni1 ==
  /\ pc = "exec1"
  /\ up[REPLICA_POD]
  /\ \E printed \in Printout :
       /\ patroni' = PatroniStatus(output, PatroniOutput(REPLICA_POD, printed))
       /\ prints' = prints \cup {printed}
  /\ last' = wal
  /\ output' = NoOutput
  /\ pc' = "idle"
  /\ UNCHANGED <<clusterState, k8sCore, phase, status, instantVars, apiFailed, first>>

\* The exec cannot be made, or what it printed is no dictionary: every field
\* keeps its default.
ExecRaises ==
  /\ pc \in {"exec0", "exec1"}
  /\ apiFailed' = (apiFailed \/ up[IF pc = "exec0" THEN PRIMARY_POD ELSE REPLICA_POD])
  /\ output' = NoOutput
  /\ pc' = "idle"
  /\ UNCHANGED <<clusterState, k8sCore, phase, status, patroni, instantVars, prints, first, last>>

----------------------------------------------------------------------------
(* The cluster, and the call's witness of it                               *)

Witness(steady) ==
  /\ IF pc = "idle"
       THEN UNCHANGED <<masters, running, stopped, stable>>
       ELSE /\ masters' = masters \cup Leaders'
            /\ running' = running \cup Up'
            /\ stopped' = stopped \cup (Pod \ Up')
            /\ stable' = (stable /\ steady)
  /\ farthest' = IF Distance' > farthest THEN Distance' ELSE farthest
  /\ UNCHANGED <<k8sCore, pc, callVars, readVars>>

ClusterStreams == Streaming /\ Witness(TRUE)
ClusterFails == Failing /\ Witness(FALSE)

Handler ==
  \/ Begin \/ Unconfigured
  \/ ReadPod0 \/ ReadPod1 \/ ReadClaims \/ StatusRaises
  \/ ExecPatroni0 \/ ExecPatroni1 \/ ExecRaises

Next == Handler \/ ClusterStreams \/ ClusterFails

Spec == Init /\ [][Next]_vars
----------------------------------------------------------------------------
(* Properties, all of the answer of the latest call                        *)

TypeOK ==
  /\ ClusterTypeOK
  /\ k8sCore \in BOOLEAN
  /\ pc \in {"idle", "pod0", "pod1", "claims", "exec0", "exec1"}
  /\ phase \in [Pod -> {"Running", "Pending", "Unknown"}]
  /\ status \in [primary_status : {"Running", "Pending", "Unknown"},
                 replica_status : {"Running", "Pending", "Unknown"},
                 pvcs_bound : BOOLEAN]
  /\ output \in [role : {"none", "master", "replica"}, prints : Printout,
                 location : 0 .. MaxWal, replayed_location : 0 .. MaxWal]
  /\ patroni \in [leader_pod : Pod \cup {"unknown"}, replica_pod : Pod \cup {"unknown"},
                  lag_bytes : 0 .. MaxWal, patroni_healthy : BOOLEAN]
  /\ masters \subseteq Pod /\ running \subseteq Pod /\ stopped \subseteq Pod
  /\ stable \in BOOLEAN /\ apiFailed \in BOOLEAN
  /\ prints \subseteq Printout
  /\ first \in [Pod -> 0 .. MaxWal] /\ last \in [Pod -> 0 .. MaxWal]
  /\ farthest \in 0 .. MaxWal

Answered == pc = "idle"

\* A leader is never made up: although the pods are asked at different
\* moments, the pod reported as the leader did lead at some instant of the
\* call, and both pods did run at one, also when the answer is cut short after
\* the leader was named.  The election is healthy only with a leader.
LeaderWitnessed ==
  Answered =>
    /\ patroni.leader_pod # "unknown" =>
         /\ patroni.leader_pod \in masters
         /\ running = Pod
         /\ patroni.replica_pod = Other(patroni.leader_pod)
    /\ patroni.patroni_healthy => patroni.leader_pod # "unknown"

\* While the cluster holds still, with both pods running and the Kubernetes
\* API answering, the answer is exact: the leader, whichever pod it is, and
\* both pods Running.  The election is reported healthy unless Patroni printed
\* what the evaluation raises on.
StableClusterReported ==
  Answered /\ stable /\ ~apiFailed /\ stopped = {} /\ masters # {} =>
    /\ masters = {patroni.leader_pod}
    /\ patroni.patroni_healthy \/ "unusable" \in prints
    /\ status.primary_status = "Running"
    /\ status.replica_status = "Running"

\* While nobody fails over, the lag is at most what the leader has written; and
\* if both pods printed their positions, it lies between the smallest and the
\* largest distance these allow, in whichever order the two are asked.
LagWithinCall ==
  Answered /\ stable /\ patroni.patroni_healthy =>
    LET l == patroni.leader_pod
        r == patroni.replica_pod
    IN  /\ patroni.lag_bytes <= last[l]
        /\ prints = {"all"} => /\ patroni.lag_bytes + first[r] <= last[l]
                               /\ first[l] <= patroni.lag_bytes + last[r]

----------------------------------------------------------------------------
(* What the repository says of the program and the code does not do        *)

\* metrics.py:60-63: the lag is that "from primary to replica".  When the
\* leader changes between the two execs both pods print a location, the
\* missing replayed location counts as 0, and the lag is the leader's whole
\* position, a distance the pods never were apart: even if both pods print all
\* they have.
LagWasReal ==
  Answered /\ prints = {"all"} => patroni.lag_bytes <= farthest
=============================================================================
