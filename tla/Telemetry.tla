----------------------------- MODULE Telemetry -----------------------------
(***************************************************************************)
(* telemetry.py: one collection at start-up in serve(), then the           *)
(* telemetry-publisher thread collecting in a loop; the gauges Prometheus  *)
(* scrapes; and GetClusterMetrics, which several pool threads serve at     *)
(* once, each from the snapshot that was the latest when it looked, while  *)
(* the next one is being collected.                                        *)
(*                                                                         *)
(* A step is one remote call, one gauge, or one use of latest_metrics.     *)
(* get_patroni_status is one step here; its own interleavings are the      *)
(* subject of InfraStatus.  Of the measurements only those that the health *)
(* of the cluster is computed from are kept; of the others, that their     *)
(* calls are made, may fail, and do not end the collection.                *)
(***************************************************************************)
EXTENDS Integers, Sequences

CONSTANTS
  Call,         \* calls of GetClusterMetrics that may be open at once
  MaxCycles,    \* bound: collections
  MaxChanges    \* bound: changes of the cluster

ASSUME TelemetryBounds == MaxCycles \in Nat \ {0} /\ MaxChanges \in Nat

Pod == {"postgres-0", "postgres-1"}
Other(p) == IF p = "postgres-0" THEN "postgres-1" ELSE "postgres-0"

VARIABLES
  \* the cluster
  leader,    \* the pod that leads
  pods,      \* "ready", "starting" (Running, not ready), "pending" (no container yet)
  bound,     \* pods whose claim is Bound
  changes,
  \* serve() and the publisher
  stage,     \* "initial" collection in serve(), then "serving", then "stopped"
  k8sCore,   \* the publisher's Kubernetes client exists
  pc,
  cycle,     \* collections begun
  metrics,   \* the dictionary the collection under way is filling
  filled,    \* collections whose dictionary has all its keys
  latest,    \* latest_metrics: a collection, or 0 for {}
  gauge,     \* gauges already set by the collection under way
  gauges,    \* the collection each gauge's value comes from
  \* GetClusterMetrics
  reader,    \* the dictionary each call holds, -1 outside a call
  floor,     \* the newest dictionary answered from when each call began
  newest,    \* the newest dictionary answered from so far
  \* history
  witness,   \* what was true at some instant of the collection under way
  completed  \* the latest collection that set every gauge

envVars == <<leader, pods, bound, changes>>
dictVars == <<metrics, filled>>
gaugeVars == <<gauge, gauges>>
rpcVars == <<reader, floor, newest>>
historyVars == <<witness, completed>>
vars == <<envVars, stage, k8sCore, pc, cycle, dictVars, latest, gaugeVars, rpcVars,
          historyVars>>

Gauges == <<"CLUSTER_CPU", "CLUSTER_RAM", "CLUSTER_STORAGE_GB", "CLUSTER_BANDWIDTH_MB",
            "CLUSTER_IO_THROUGHPUT", "PATRONI_HEALTHY", "PATRONI_LAG_MB",
            "CLUSTER_PODS_READY">>
Gauge == {Gauges[i] : i \in 1 .. Len(Gauges)}

\* A fresh dictionary: a key that is missing counts as False where it is read.
Fresh == [leader_pod |-> "unknown", patroni_healthy |-> FALSE,
          primary_ready |-> FALSE, replica_ready |-> FALSE,
          primary_bound |-> FALSE, replica_bound |-> FALSE]

\* What is true of the cluster now.
Facts(l, ps, b) ==
  {<<"leads", l>>} \cup {<<"bound", p>> : p \in b}
    \cup {<<"no_unready_container", p>> : p \in {q \in Pod : ps[q] # "starting"}}

Init ==
  /\ leader = "postgres-0"
  /\ pods = [p \in Pod |-> "ready"]
  /\ bound = Pod
  /\ changes = 0
  /\ stage = "initial"
  /\ k8sCore = FALSE
  /\ pc = "begin"
  /\ cycle = 0
  /\ metrics = Fresh
  /\ filled = {}
  /\ latest = 0
  /\ gauge = 0
  /\ gauges = [g \in Gauge |-> 0]
  /\ reader = [c \in Call |-> -1]
  /\ floor = [c \in Call |-> 0]
  /\ newest = 0
  /\ witness = {}
  /\ completed = 0

----------------------------------------------------------------------------
(* _collect_metrics                                                        *)

\* A step of the collection from one remote call to the next.
Go(from, to) ==
  /\ pc = from
  /\ pc' = to
  /\ UNCHANGED <<envVars, stage, k8sCore, cycle, latest, gaugeVars, rpcVars, historyVars>>

\* The end of a collection, however it ends: its locals go; serve() starts the
\* thread, and the thread sleeps and begins again.
Finish ==
  /\ pc' = "begin"
  /\ metrics' = Fresh
  /\ gauge' = 0
  /\ witness' = {}
  /\ stage' = IF stage = "initial" THEN "serving" ELSE stage

\* Plausible bug: latest_metrics is the dictionary being filled.
BeginCycle_publishedAtOnce ==
  /\ pc = "begin"
  /\ stage # "stopped"
  /\ cycle < MaxCycles
  /\ k8sCore' = TRUE
  /\ cycle' = cycle + 1
  /\ latest' = cycle + 1
  /\ pc' = "patroni"
  /\ witness' = Facts(leader, pods, bound)
  /\ UNCHANGED <<envVars, stage, dictVars, gaugeVars, rpcVars, completed>>

\* _init_k8s succeeds, now or earlier.
BeginCycle ==
  /\ pc = "begin"
  /\ stage # "stopped"
  /\ cycle < MaxCycles
  /\ k8sCore' = TRUE
  /\ cycle' = cycle + 1
  /\ pc' = "patroni"
  /\ witness' = Facts(leader, pods, bound)
  /\ UNCHANGED <<envVars, stage, dictVars, latest, gaugeVars, rpcVars, completed>>

\* No Kubernetes configuration: latest_metrics is returned as it is.
SkipCycle ==
  /\ pc = "begin"
  /\ stage # "stopped"
  /\ ~k8sCore
  /\ Finish
  /\ UNCHANGED <<envVars, k8sCore, cycle, filled, latest, gauges, rpcVars, completed>>

\* What get_patroni_status returns: the leader, healthy or, when the positions
\* cannot be evaluated, not; or nothing, and always so while a pod has no
\* container to ask.
NamesLeader == \A p \in Pod : pods[p] # "pending"
LeaderNamed(healthy) ==
  metrics' = [metrics EXCEPT !.leader_pod = leader, !.patroni_healthy = healthy]

\* Plausible bug: a failed query leaves the dictionary without a pod name.
QueryPatroni_noDefault ==
  /\ Go("patroni", "leader_pod")
  /\ \/ NamesLeader /\ \E healthy \in BOOLEAN : LeaderNamed(healthy)
     \/ metrics' = [metrics EXCEPT !.leader_pod = "None"]
  /\ UNCHANGED filled

\* get_patroni_status turns every failure into "unknown".
QueryPatroni ==
  /\ Go("patroni", "leader_pod")
  /\ \/ NamesLeader /\ \E healthy \in BOOLEAN : LeaderNamed(healthy)
     \/ UNCHANGED metrics
  /\ UNCHANGED filled

\* all(cs.ready for cs in container_statuses or []): a pod with no container
\* yet has no container that is not ready.
ContainersReady(p) == pods[p] # "starting"

\* The pod read may fail with an ApiException, and does for "unknown".
ReadLeaderPod ==
  /\ Go("leader_pod", "replica_pod")
  /\ \/ /\ metrics.leader_pod \in Pod
        /\ metrics' = [metrics EXCEPT !.primary_ready = ContainersReady(metrics.leader_pod)]
     \/ UNCHANGED metrics
  /\ UNCHANGED filled

ReadReplicaPod ==
  /\ Go("replica_pod", "leader_pvc")
  /\ \/ /\ metrics.leader_pod \in Pod
        /\ metrics' = [metrics EXCEPT !.replica_ready = ContainersReady(Other(metrics.leader_pod))]
     \/ UNCHANGED metrics
  /\ UNCHANGED filled

ReadLeaderPvc ==
  /\ Go("leader_pvc", "replica_pvc")
  /\ \/ metrics' = [metrics EXCEPT !.primary_bound = metrics.leader_pod \in bound]
     \/ UNCHANGED metrics
  /\ UNCHANGED filled

ReadReplicaPvc ==
  /\ Go("replica_pvc", "cpu_ram")
  /\ \/ /\ metrics.leader_pod \in Pod
        /\ metrics' = [metrics EXCEPT !.replica_bound = Other(metrics.leader_pod) \in bound]
     \/ UNCHANGED metrics
  /\ UNCHANGED filled

\* The metrics server, df in the leader's pod, and the second Prometheus
\* query: measured or not, the collection goes on.
ReadCpuRam == Go("cpu_ram", "storage") /\ UNCHANGED dictVars
ReadStorage == Go("storage", "bandwidth") /\ UNCHANGED dictVars
ReadIo == Go("io", "patroni_keys") /\ UNCHANGED dictVars

\* One try block for both Prometheus queries: without the first there is no
\* second.
ReadBandwidth ==
  /\ Go("bandwidth", "io") \/ Go("bandwidth", "patroni_keys")
  /\ UNCHANGED dictVars

\* Plausible bugs: the thread ends with the first exception, and setting the
\* gauges can fail half-way.
CycleRaises_threadEnds ==
  /\ pc \in {"leader_pod", "replica_pod", "leader_pvc", "replica_pvc"}
  /\ pc' = "ended"
  /\ UNCHANGED <<envVars, stage, k8sCore, cycle, dictVars, latest, gaugeVars, rpcVars,
                 historyVars>>

CycleRaises_inGauges ==
  /\ pc \in {"leader_pod", "replica_pod", "leader_pvc", "replica_pvc", "gauges"}
  /\ Finish
  /\ UNCHANGED <<envVars, k8sCore, cycle, filled, latest, gauges, rpcVars, completed>>

\* An error of a pod or claim read that is not an ApiException leaves
\* _collect_metrics; its caller logs it and goes on.
CycleRaises ==
  /\ pc \in {"leader_pod", "replica_pod", "leader_pvc", "replica_pvc"}
  /\ Finish
  /\ UNCHANGED <<envVars, k8sCore, cycle, filled, latest, gauges, rpcVars, completed>>

\* Plausible bug: the replica's storage is left out.
Healthy_replicaStorageIgnored(m) ==
  m.patroni_healthy /\ m.primary_ready /\ m.replica_ready /\ m.primary_bound

\* cluster_healthy
Healthy(m) ==
  /\ m.patroni_healthy
  /\ m.primary_ready /\ m.replica_ready
  /\ m.primary_bound /\ m.replica_bound

\* The last keys of the dictionary, cluster_healthy among them.
PutPatroni ==
  /\ Go("patroni_keys", "gauges")
  /\ filled' = filled \cup {cycle}
  /\ UNCHANGED metrics

\* The gauges are set one after the other.
SetGauge ==
  /\ pc = "gauges"
  /\ gauge' = gauge + 1
  /\ gauges' = [gauges EXCEPT ![Gauges[gauge + 1]] = cycle]
  /\ pc' = IF gauge' = Len(Gauges) THEN "latest" ELSE "gauges"
  /\ UNCHANGED <<envVars, stage, k8sCore, cycle, dictVars, latest, rpcVars, historyVars>>

\* latest_metrics = metrics; publishing it only writes it to the log.
SetLatest ==
  /\ pc = "latest"
  /\ latest' = cycle
  /\ completed' = cycle
  /\ Finish
  /\ UNCHANGED <<envVars, k8sCore, cycle, filled, gauges, rpcVars>>

----------------------------------------------------------------------------
(* GetClusterMetrics                                                       *)

TakeSnapshot(c) ==
  /\ stage = "serving"
  /\ reader[c] = -1
  /\ reader' = [reader EXCEPT ![c] = latest]
  /\ floor' = [floor EXCEPT ![c] = newest]
  /\ UNCHANGED <<envVars, stage, k8sCore, pc, cycle, dictVars, latest, gaugeVars, newest,
                 historyVars>>

\* The fields are read off the dictionary it holds, 0.0 for one it lacks.
Respond(c) ==
  /\ reader[c] # -1
  /\ newest' = IF newest < reader[c] THEN reader[c] ELSE newest
  /\ reader' = [reader EXCEPT ![c] = -1]
  /\ floor' = [floor EXCEPT ![c] = 0]
  /\ UNCHANGED <<envVars, stage, k8sCore, pc, cycle, dictVars, latest, gaugeVars, historyVars>>

----------------------------------------------------------------------------
(* Outside                                                                 *)

\* The other pod leads, or one pod or one claim changes.
Change ==
  /\ changes < MaxChanges
  /\ changes' = changes + 1
  /\ \/ leader' = Other(leader) /\ UNCHANGED <<pods, bound>>
     \/ /\ \E p \in Pod, x \in {"ready", "starting", "pending"} :
             x # pods[p] /\ pods' = [pods EXCEPT ![p] = x]
        /\ UNCHANGED <<leader, bound>>
     \/ /\ \E p \in Pod : bound' = IF p \in bound THEN bound \ {p} ELSE bound \cup {p}
        /\ UNCHANGED <<leader, pods>>
  /\ witness' = IF pc = "begin" THEN witness
                                ELSE witness \cup Facts(leader', pods', bound')
  /\ UNCHANGED <<stage, k8sCore, pc, cycle, dictVars, latest, gaugeVars, rpcVars, completed>>

\* KeyboardInterrupt in serve().
Stop ==
  /\ stage = "serving"
  /\ stage' = "stopped"
  /\ UNCHANGED <<envVars, k8sCore, pc, cycle, dictVars, latest, gaugeVars, rpcVars,
                 historyVars>>

Collect ==
  \/ BeginCycle \/ SkipCycle
  \/ QueryPatroni \/ ReadLeaderPod \/ ReadReplicaPod \/ ReadLeaderPvc \/ ReadReplicaPvc
  \/ CycleRaises
  \/ ReadCpuRam \/ ReadStorage \/ ReadBandwidth \/ ReadIo
  \/ PutPatroni \/ SetGauge \/ SetLatest

Next ==
  \/ Collect
  \/ \E c \in Call : TakeSnapshot(c) \/ Respond(c)
  \/ Change \/ Stop

Spec == Init /\ [][Next]_vars

\* The publisher's thread runs, and each of its remote calls returns or raises.
FairSpec == Spec /\ WF_vars(Collect)

----------------------------------------------------------------------------
(* Properties                                                              *)

TypeOK ==
  /\ leader \in Pod
  /\ pods \in [Pod -> {"ready", "starting", "pending"}]
  /\ bound \subseteq Pod
  /\ changes \in 0 .. MaxChanges
  /\ stage \in {"initial", "serving", "stopped"}
  /\ k8sCore \in BOOLEAN
  /\ pc \in {"begin", "patroni", "leader_pod", "replica_pod", "leader_pvc", "replica_pvc",
             "cpu_ram", "storage", "bandwidth", "io", "patroni_keys", "gauges", "latest"}
  /\ cycle \in 0 .. MaxCycles /\ latest \in 0 .. cycle /\ completed \in 0 .. cycle
  /\ metrics \in [leader_pod : Pod \cup {"unknown"}, patroni_healthy : BOOLEAN,
                  primary_ready : BOOLEAN, replica_ready : BOOLEAN,
                  primary_bound : BOOLEAN, replica_bound : BOOLEAN]
  /\ filled \subseteq 1 .. cycle
  /\ gauge \in 0 .. Len(Gauges)
  /\ gauges \in [Gauge -> 0 .. cycle]
  /\ reader \in [Call -> -1 .. cycle] /\ floor \in [Call -> 0 .. cycle]
  /\ newest \in 0 .. cycle

\* What an open call of GetClusterMetrics answers from is never a snapshot
\* that is still being filled, and never an older one than any call had been
\* answered from when it began, however collections and open calls interleave.
\* (Of two calls open at once, the later answer may be from the older one.)
SnapshotsWhole ==
  \A c \in Call :
    reader[c] # -1 => reader[c] \in filled \cup {0} /\ floor[c] <= reader[c]

\* Whoever looks at all the gauges at one instant sees values of at most two
\* collections, the one under way up to some gauge and the latest completed
\* one from there on; a collection that fails leaves none of its own behind.
GaugesOfTwoCollections ==
  \A i \in 1 .. Len(Gauges) :
    gauges[Gauges[i]] =
      IF pc \in {"gauges", "latest"} /\ i <= gauge THEN cycle ELSE completed

\* A snapshot calls the cluster healthy only if the leader it names led, both
\* claims were Bound, and neither pod had an unready container, each at some
\* instant of the collection, although all are read at different moments and
\* the leader may change between them.
HealthyWitnessed ==
  pc \in {"gauges", "latest"} /\ Healthy(metrics) =>
    /\ <<"leads", metrics.leader_pod>> \in witness
    /\ \A p \in Pod : {<<"bound", p>>, <<"no_unready_container", p>>} \subseteq witness

\* Collecting goes on whatever fails in a collection, until the server stops.
CollectingGoesOn ==
  (stage = "serving" /\ k8sCore) ~> (cycle = MaxCycles \/ stage = "stopped")
=============================================================================
