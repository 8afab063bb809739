--------------------------- MODULE PatroniCluster ---------------------------
(***************************************************************************)
(* The shared PostgreSQL cluster as the Cloud Resource Manager sees it     *)
(* from outside: two pods, the role Patroni gives each, and how much       *)
(* write-ahead log each has written or replayed.  Kubernetes, Patroni and  *)
(* PostgreSQL do these steps; nothing in the Cloud Resource Manager does.  *)
(***************************************************************************)
EXTENDS Naturals

CONSTANT MaxWal   \* bound: write-ahead log written

ASSUME WalAssumption == MaxWal \in Nat

PRIMARY_POD == "postgres-0"
REPLICA_POD == "postgres-1"
Pod == {PRIMARY_POD, REPLICA_POD}
Other(p) == IF p = PRIMARY_POD THEN REPLICA_POD ELSE PRIMARY_POD

VARIABLES
  up,     \* the pod is Running and answers an exec
  role,   \* "master" or "replica", as its Patroni reports it
  wal     \* a master's write position, a replica's replay position

clusterState == <<up, role, wal>>

Leaders == {p \in Pod : up[p] /\ role[p] = "master"}

ClusterInit ==
  /\ up = [p \in Pod |-> TRUE]
  /\ role = [p \in Pod |-> IF p = PRIMARY_POD THEN "master" ELSE "replica"]
  /\ wal = [p \in Pod |-> 0]

\* A pod stops; when it is back its Patroni starts as a replica.
PodDown(p) ==
  /\ up[p]
  /\ up' = [up EXCEPT ![p] = FALSE]
  /\ role' = [role EXCEPT ![p] = "replica"]
  /\ UNCHANGED wal

\* A pod that returns is rewound to where it follows the leader.
PodUp(p) ==
  /\ ~up[p]
  /\ up' = [up EXCEPT ![p] = TRUE]
  /\ wal' = IF Other(p) \in Leaders /\ wal[Other(p)] < wal[p]
              THEN [wal EXCEPT ![p] = wal[Other(p)]]
              ELSE wal
  /\ UNCHANGED role

\* The leader loses its lock in etcd.
Demote(p) ==
  /\ p \in Leaders
  /\ role' = [role EXCEPT ![p] = "replica"]
  /\ UNCHANGED <<up, wal>>

\* A running pod takes the free lock, and the other one follows it.
Promote(p) ==
  /\ up[p]
  /\ Leaders = {}
  /\ role' = [role EXCEPT ![p] = "master"]
  /\ wal' = IF up[Other(p)] /\ wal[p] < wal[Other(p)]
              THEN [wal EXCEPT ![Other(p)] = wal[p]]
              ELSE wal
  /\ UNCHANGED up

Write(p) ==
  /\ p \in Leaders
  /\ wal[p] < MaxWal
  /\ wal' = [wal EXCEPT ![p] = @ + 1]
  /\ UNCHANGED <<up, role>>

Replay(p) ==
  /\ up[p] /\ role[p] = "replica"
  /\ Other(p) \in Leaders
  /\ wal[p] < wal[Other(p)]
  /\ wal' = [wal EXCEPT ![p] = @ + 1]
  /\ UNCHANGED <<up, role>>

\* Who leads, and which pods run, stays as it is.
Streaming == \E p \in Pod : Write(p) \/ Replay(p)
Failing == \E p \in Pod : PodDown(p) \/ PodUp(p) \/ Demote(p) \/ Promote(p)

ClusterTypeOK ==
  /\ up \in [Pod -> BOOLEAN]
  /\ role \in [Pod -> {"master", "replica"}]
  /\ wal \in [Pod -> 0 .. MaxWal]

\* How far the pods are apart.
Distance == IF wal[PRIMARY_POD] < wal[REPLICA_POD]
              THEN wal[REPLICA_POD] - wal[PRIMARY_POD]
              ELSE wal[PRIMARY_POD] - wal[REPLICA_POD]
=============================================================================
