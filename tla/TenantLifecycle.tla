-------------------------- MODULE TenantLifecycle --------------------------
(***************************************************************************)
(* ProvisionTenant and TerminateTenant of cloud/grpc/server.py, with the   *)
(* capacity check of provisioner.py and the client of db_client.py they    *)
(* call, run by the gRPC thread pool, against three things the server does *)
(* not control: the Kubernetes objects of the shared cluster, the          *)
(* Database Resource Manager (which may execute a call after its caller    *)
(* has given up on it), and a restart of the server process.               *)
(*                                                                         *)
(* A step of a handler is one remote call; what a handler computes between *)
(* two remote calls is part of the step before it.                         *)
(***************************************************************************)
EXTENDS Naturals, Sequences, FiniteSets

CONSTANTS
  ProvisionCall,   \* calls of ProvisionTenant the backend may make
  TerminateCall,   \* calls of TerminateTenant the backend may make
  Tenant,          \* tenants; each has one schema
  SchemaOf,        \* the tenant whose schema a call names
  MaxWorkers,      \* threads of the gRPC pool
  AllowDev,        \* ALLOW_DEV_WITHOUT_K8S
  Fragile,         \* cluster objects whose health may change
  MaxRestarts      \* bound: restarts of the server process

Request == ProvisionCall \cup TerminateCall

PRIMARY_POD == "postgres-0"
REPLICA_POD == "postgres-1"
PRIMARY_PVC == "postgres-data-postgres-0"
REPLICA_PVC == "postgres-data-postgres-1"

Pod == {PRIMARY_POD, REPLICA_POD}
ClusterObject == Pod \cup {PRIMARY_PVC, REPLICA_PVC}
StorageOf(p) == IF p = PRIMARY_POD THEN PRIMARY_PVC ELSE REPLICA_PVC

\* The objects check_shared_cluster_capacity reads.
Checked == {PRIMARY_POD, REPLICA_POD, PRIMARY_PVC}

ASSUME CallsAssumption ==
  /\ ProvisionCall \cap TerminateCall = {}
  /\ SchemaOf \in [Request -> Tenant]

ASSUME BoundsAssumption ==
  /\ MaxWorkers \in Nat \ {0}
  /\ MaxRestarts \in Nat
  /\ AllowDev \in BOOLEAN
  /\ Fragile \subseteq ClusterObject

VARIABLES
  \* the shared cluster and the database, outside the server
  healthy,     \* pods that are Running and ready, claims that are Bound
  leader,      \* the pod Patroni runs as the primary
  schemas,     \* tenants whose schema exists
  dbcall,      \* what became of each call's request to the database manager
  \* the server process
  k8sCore,     \* what _get_k8s_core() gives: a "valid" client, "none", or, at its
               \* first use, an exception ("broken": a configuration it cannot parse)
  queue,       \* calls accepted and waiting for a thread
  pc,          \* where each call's handler stands
  seen,        \* flags of the capacity result that are True
  answer,      \* the response of each call
  restarts,
  PROVISION_REQUESTS,
  TERMINATE_REQUESTS,
  \* history, never read by an action's guard
  witness,     \* what was true at some instant of a call's capacity check
  settled,     \* each tenant's latest READY or TERMINATED answer
  overlapped   \* tenants of which two calls were under way at once

clusterVars == <<healthy, leader>>
dbVars == <<schemas, dbcall>>
serverVars == <<k8sCore, queue, restarts>>
callVars == <<pc, seen, answer>>
metricVars == <<PROVISION_REQUESTS, TERMINATE_REQUESTS>>
historyVars == <<witness, settled, overlapped>>
vars == <<clusterVars, dbVars, serverVars, callVars, metricVars, historyVars>>

Checking == {"check_primary", "check_replica", "check_storage"}
Working == Checking \cup {"cluster_status", "create", "delete", "calling"}
PC == {"idle", "queued", "done"} \cup Working

ProvisionAnswer == {"READY", "FAILED_capacity", "FAILED_db"}
TerminateAnswer == {"TERMINATED", "FAILED"}
\* Without an answer of the handler: "lost" in a restart, or "raised", an
\* exception that the handler does not catch.
Answer == ProvisionAnswer \cup TerminateAnswer \cup {"none", "lost", "raised"}

Definitive == {"READY", "TERMINATED"}

\* Plausible bug: only the database layer's failures have a label.
Label_capacityAsDb(a) == CASE a \in Definitive -> "success"
                           [] a \in {"FAILED_capacity", "FAILED_db"} -> "failed_db"
                           [] OTHER -> "failed"

\* The label a response is counted under.
Label(a) == CASE a \in Definitive      -> "success"
              [] a = "FAILED_capacity" -> "failed_capacity"
              [] a = "FAILED_db"       -> "failed_db"
              [] OTHER                 -> "failed"

Active(r) == pc[r] \notin {"idle", "done"}
Busy == {r \in Request : pc[r] \in Working}

\* What holds of the cluster now, for the history of a capacity check.
Facts(h, l) == h \cup (IF StorageOf(l) \in h THEN {"leader_storage"} ELSE {})

----------------------------------------------------------------------------
(* Initial state: serve() has started, the database is empty.              *)

Init ==
  /\ healthy = ClusterObject
  /\ leader = PRIMARY_POD
  /\ schemas = {}
  /\ dbcall = [r \in Request |-> "none"]
  /\ k8sCore \in {"valid", "none", "broken"}
  /\ queue = <<>>
  /\ pc = [r \in Request |-> "idle"]
  /\ seen = [r \in Request |-> {}]
  /\ answer = [r \in Request |-> "none"]
  /\ restarts = 0
  /\ PROVISION_REQUESTS = [l \in {"success", "failed_capacity", "failed_db"} |-> 0]
  /\ TERMINATE_REQUESTS = [l \in {"success", "failed"} |-> 0]
  /\ witness = [r \in Request |-> {}]
  /\ settled = [t \in Tenant |-> "none"]
  /\ overlapped = {}

----------------------------------------------------------------------------
(* The backend and the thread pool.                                        *)

\* The backend makes a call; the pool queues it.
Send(r) ==
  /\ pc[r] = "idle"
  /\ pc' = [pc EXCEPT ![r] = "queued"]
  /\ queue' = Append(queue, r)
  /\ overlapped' = IF \E q \in Request : SchemaOf[q] = SchemaOf[r] /\ Active(q)
                     THEN overlapped \cup {SchemaOf[r]}
                     ELSE overlapped
  /\ UNCHANGED <<clusterVars, dbVars, k8sCore, restarts, seen, answer,
                 metricVars, witness, settled>>

\* A free thread takes the oldest queued call and enters its handler.
Start(r) ==
  /\ queue # <<>>
  /\ r = Head(queue)
  /\ pc[r] = "queued"
  /\ Cardinality(Busy) < MaxWorkers
  /\ queue' = Tail(queue)
  /\ pc' = [pc EXCEPT ![r] = IF r \in ProvisionCall THEN "check_primary"
                                                    ELSE "delete"]
  /\ witness' = [witness EXCEPT ![r] = Facts(healthy, leader)]
  /\ UNCHANGED <<clusterVars, dbVars, k8sCore, restarts, seen, answer,
                 metricVars, settled, overlapped>>

\* The handler counts its outcome and returns its response.
Reply(r, a) ==
  /\ pc' = [pc EXCEPT ![r] = "done"]
  /\ answer' = [answer EXCEPT ![r] = a]
  /\ IF r \in ProvisionCall
       THEN /\ PROVISION_REQUESTS' = [PROVISION_REQUESTS EXCEPT ![Label(a)] = @ + 1]
            /\ UNCHANGED TERMINATE_REQUESTS
       ELSE /\ TERMINATE_REQUESTS' = [TERMINATE_REQUESTS EXCEPT ![Label(a)] = @ + 1]
            /\ UNCHANGED PROVISION_REQUESTS
  /\ settled' = IF a \in Definitive THEN [settled EXCEPT ![SchemaOf[r]] = a]
                                    ELSE settled

----------------------------------------------------------------------------
(* check_shared_cluster_capacity                                           *)

\* No Kubernetes client: refused, unless development mode lets it through.
CheckUnconfigured(r) ==
  /\ pc[r] = "check_primary"
  /\ k8sCore = "none"
  /\ IF AllowDev
       THEN /\ pc' = [pc EXCEPT ![r] = "cluster_status"]
            /\ UNCHANGED <<answer, metricVars, settled>>
       ELSE Reply(r, "FAILED_capacity")
  /\ UNCHANGED <<clusterVars, dbVars, serverVars, seen, witness, overlapped>>

\* The first use of a configuration that cannot be parsed raises through the
\* handler, uncounted; the calls after it are told that there is none.
ClientRaises(r) ==
  /\ pc[r] = "check_primary"
  /\ k8sCore = "broken"
  /\ k8sCore' = "none"
  /\ pc' = [pc EXCEPT ![r] = "done"]
  /\ answer' = [answer EXCEPT ![r] = "raised"]
  /\ UNCHANGED <<clusterVars, dbVars, queue, restarts, seen, metricVars, historyVars>>

\* Reading one object sets its flag to whether it is healthy now.
ReadFlag(r, o) ==
  seen' = [seen EXCEPT ![r] = IF o \in healthy THEN @ \cup {o} ELSE @]

CheckPrimary(r) ==
  /\ pc[r] = "check_primary"
  /\ k8sCore = "valid"
  /\ ReadFlag(r, PRIMARY_POD)
  /\ pc' = [pc EXCEPT ![r] = "check_replica"]
  /\ UNCHANGED <<clusterVars, dbVars, serverVars, answer, metricVars, historyVars>>

CheckReplica(r) ==
  /\ pc[r] = "check_replica"
  /\ ReadFlag(r, REPLICA_POD)
  /\ pc' = [pc EXCEPT ![r] = "check_storage"]
  /\ UNCHANGED <<clusterVars, dbVars, serverVars, answer, metricVars, historyVars>>

\* Plausible bug: the primary's flag is left out of the decision.
CheckStorage_primaryIgnored(r) ==
  /\ pc[r] = "check_storage"
  /\ ReadFlag(r, PRIMARY_PVC)
  /\ IF {REPLICA_POD, PRIMARY_PVC} \subseteq seen'[r]
       THEN /\ pc' = [pc EXCEPT ![r] = "cluster_status"]
            /\ UNCHANGED <<answer, metricVars, settled>>
       ELSE Reply(r, "FAILED_capacity")
  /\ UNCHANGED <<clusterVars, dbVars, serverVars, witness, overlapped>>

\* Plausible bug: the decision waits for a flag no read sets.
CheckStorage_replicaStorageToo(r) ==
  /\ pc[r] = "check_storage"
  /\ ReadFlag(r, PRIMARY_PVC)
  /\ IF seen'[r] = Checked \cup {REPLICA_PVC}
       THEN /\ pc' = [pc EXCEPT ![r] = "cluster_status"]
            /\ UNCHANGED <<answer, metricVars, settled>>
       ELSE Reply(r, "FAILED_capacity")
  /\ UNCHANGED <<clusterVars, dbVars, serverVars, witness, overlapped>>

\* The last read decides: all three flags, or FAILED.
CheckStorage(r) ==
  /\ pc[r] = "check_storage"
  /\ ReadFlag(r, PRIMARY_PVC)
  /\ IF seen'[r] = Checked
       THEN /\ pc' = [pc EXCEPT ![r] = "cluster_status"]
            /\ UNCHANGED <<answer, metricVars, settled>>
       ELSE Reply(r, "FAILED_capacity")
  /\ UNCHANGED <<clusterVars, dbVars, serverVars, witness, overlapped>>

\* A Kubernetes API error, or any other exception, during the check.
CheckRaises(r) ==
  /\ pc[r] \in Checking
  /\ k8sCore = "valid"
  /\ Reply(r, "FAILED_capacity")
  /\ UNCHANGED <<clusterVars, dbVars, serverVars, seen, witness, overlapped>>

----------------------------------------------------------------------------
(* The rest of the two handlers                                            *)

\* get_cluster_status, for the node names of the answer; it never fails the
\* call, since it turns every exception into the node name "Unknown".
ClusterStatus(r) ==
  /\ pc[r] = "cluster_status"
  /\ pc' = [pc EXCEPT ![r] = "create"]
  /\ UNCHANGED <<clusterVars, dbVars, serverVars, seen, answer, metricVars,
                 historyVars>>

SendToDb(r, from) ==
  /\ pc[r] = from
  /\ pc' = [pc EXCEPT ![r] = "calling"]
  /\ dbcall' = [dbcall EXCEPT ![r] = "open"]
  /\ UNCHANGED <<clusterVars, schemas, serverVars, seen, answer, metricVars,
                 historyVars>>

CreateTenantSchema(r) == SendToDb(r, "create")
DeleteTenantSchema(r) == SendToDb(r, "delete")

\* Plausible bugs: the database manager's own status is passed through, and
\* a failed create is reported under the other label.
Succeeded_dbStatus(r) == "success"
Failed_asCapacity(r) == IF r \in ProvisionCall THEN "FAILED_capacity" ELSE "FAILED"

\* The response a handler gives when its database call has come back, well
\* or not.
Succeeded(r) == IF r \in ProvisionCall THEN "READY" ELSE "TERMINATED"
Failed(r) == IF r \in ProvisionCall THEN "FAILED_db" ELSE "FAILED"

\* Plausible bug: any answer that is not an RpcError counts as success.
Receive_statusIgnored(r) ==
  /\ pc[r] = "calling"
  /\ dbcall[r] \in {"success", "error"}
  /\ Reply(r, Succeeded(r))
  /\ UNCHANGED <<clusterVars, dbVars, serverVars, seen, witness, overlapped>>

\* The database manager's answer arrives within the deadline.
Receive(r) ==
  /\ pc[r] = "calling"
  /\ dbcall[r] \in {"success", "error"}
  /\ Reply(r, IF dbcall[r] = "success" THEN Succeeded(r) ELSE Failed(r))
  /\ UNCHANGED <<clusterVars, dbVars, serverVars, seen, witness, overlapped>>

\* Plausible bugs: the request is sent again when the call raises, and the
\* call is made without a deadline.
RpcError_retried(r) ==
  /\ pc[r] = "calling"
  /\ dbcall' = [dbcall EXCEPT ![r] = "open"]
  /\ UNCHANGED <<clusterVars, schemas, serverVars, callVars, metricVars, historyVars>>

RpcError_noDeadline(r) ==
  /\ pc[r] = "calling"
  /\ dbcall[r] # "open"
  /\ Reply(r, Failed(r))
  /\ UNCHANGED <<clusterVars, dbVars, serverVars, seen, witness, overlapped>>

\* The call raises grpc.RpcError: the 10 s deadline passes, or the database
\* manager cannot be reached, whatever it has done with the request so far.
RpcError(r) ==
  /\ pc[r] = "calling"
  /\ Reply(r, Failed(r))
  /\ UNCHANGED <<clusterVars, dbVars, serverVars, seen, witness, overlapped>>

----------------------------------------------------------------------------
(* Outside the server                                                      *)

\* The database manager executes a request, while its caller waits or after.
DbCommit(r) ==
  /\ dbcall[r] = "open"
  /\ dbcall' = [dbcall EXCEPT ![r] = "success"]
  /\ schemas' = IF r \in ProvisionCall THEN schemas \cup {SchemaOf[r]}
                                       ELSE schemas \ {SchemaOf[r]}
  /\ UNCHANGED <<clusterVars, serverVars, callVars, metricVars, historyVars>>

\* The database manager answers a request with an error, changing nothing.
DbRefuse(r) ==
  /\ dbcall[r] = "open"
  /\ dbcall' = [dbcall EXCEPT ![r] = "error"]
  /\ UNCHANGED <<clusterVars, schemas, serverVars, callVars, metricVars,
                 historyVars>>

\* Capacity checks under way witness the cluster's new state.
Observe(h, l) ==
  witness' = [r \in Request |-> IF pc[r] \in Checking
                                  THEN witness[r] \cup Facts(h, l)
                                  ELSE witness[r]]

\* A pod or a claim becomes healthy or stops being so.
ObjectChanges(o) ==
  /\ o \in Fragile
  /\ healthy' = IF o \in healthy THEN healthy \ {o} ELSE healthy \cup {o}
  /\ Observe(healthy', leader)
  /\ UNCHANGED <<leader, dbVars, serverVars, callVars, metricVars, settled,
                 overlapped>>

\* Patroni promotes the other pod when the leader's pod is down.
Failover(p) ==
  /\ leader # p
  /\ leader \notin healthy
  /\ p \in healthy
  /\ leader' = p
  /\ Observe(healthy, p)
  /\ UNCHANGED <<healthy, dbVars, serverVars, callVars, metricVars, settled,
                 overlapped>>

\* The server process dies and is started again: its calls, its queue and
\* its counters are gone, its requests to the database manager are not.
Restart ==
  /\ restarts < MaxRestarts
  /\ restarts' = restarts + 1
  /\ k8sCore' \in {"valid", "none", "broken"}
  /\ queue' = <<>>
  /\ pc' = [r \in Request |-> IF Active(r) THEN "done" ELSE pc[r]]
  /\ answer' = [r \in Request |-> IF Active(r) THEN "lost" ELSE answer[r]]
  /\ PROVISION_REQUESTS' = [l \in DOMAIN PROVISION_REQUESTS |-> 0]
  /\ TERMINATE_REQUESTS' = [l \in DOMAIN TERMINATE_REQUESTS |-> 0]
  /\ UNCHANGED <<clusterVars, dbVars, seen, historyVars>>

----------------------------------------------------------------------------

\* The steps a thread takes in the handler of r.
Handle(r) ==
  \/ CheckUnconfigured(r) \/ ClientRaises(r)
  \/ CheckPrimary(r) \/ CheckReplica(r) \/ CheckStorage(r) \/ CheckRaises(r)
  \/ ClusterStatus(r)
  \/ CreateTenantSchema(r) \/ DeleteTenantSchema(r)
  \/ Receive(r) \/ RpcError(r)

Next ==
  \/ \E r \in Request :
       Send(r) \/ Start(r) \/ Handle(r) \/ DbCommit(r) \/ DbRefuse(r)
  \/ \E o \in ClusterObject : ObjectChanges(o)
  \/ \E p \in Pod : Failover(p)
  \/ Restart

Spec == Init /\ [][Next]_vars

\* Threads run, and every Kubernetes call returns or raises; nothing is
\* assumed of the database manager, of the backend or of the cluster.
Fairness == \A r \in Request : WF_vars(Start(r)) /\ WF_vars(Handle(r))

FairSpec == Spec /\ Fairness

----------------------------------------------------------------------------
(* Properties                                                              *)

TypeOK ==
  /\ healthy \subseteq ClusterObject
  /\ leader \in Pod
  /\ schemas \subseteq Tenant
  /\ dbcall \in [Request -> {"none", "open", "success", "error"}]
  /\ k8sCore \in {"valid", "none", "broken"}
  /\ queue \in Seq(Request)
  /\ pc \in [Request -> PC]
  /\ seen \in [Request -> SUBSET Checked]
  /\ answer \in [Request -> Answer]
  /\ restarts \in 0 .. MaxRestarts
  /\ PROVISION_REQUESTS \in [{"success", "failed_capacity", "failed_db"} -> Nat]
  /\ TERMINATE_REQUESTS \in [{"success", "failed"} -> Nat]
  /\ witness \in [Request -> SUBSET (ClusterObject \cup {"leader_storage"})]
  /\ settled \in [Tenant -> Definitive \cup {"none"}]
  /\ overlapped \subseteq Tenant

\* No schema is created on a cluster that was never seen healthy: when a
\* ProvisionTenant call has reached the database manager, each of the three
\* objects it reads was healthy at some instant of its own capacity check,
\* or development mode let it through without a single read
\* (check_shared_cluster_capacity, then create_tenant_schema).
CreateNeedsHealthyReads ==
  \A r \in ProvisionCall :
    dbcall[r] # "none" =>
      \/ Checked \subseteq witness[r]
      \/ AllowDev /\ seen[r] = {}

\* The two failure labels of ProvisionTenant tell the backend which layer
\* refused: "failed_capacity" calls never reach the database manager, even
\* later, and "failed_db" calls passed the capacity check and did reach it.
FailureLabelsTruthful ==
  \A r \in ProvisionCall :
    /\ answer[r] = "FAILED_capacity" => dbcall[r] = "none"
    /\ answer[r] = "FAILED_db" =>
         /\ dbcall[r] # "none"
         /\ seen[r] = Checked \/ (AllowDev /\ seen[r] = {})

\* A call whose answer left its effect open, and that did take effect.
Ghost(t) ==
  \E r \in Request : /\ SchemaOf[r] = t
                     /\ pc[r] = "done"
                     /\ answer[r] \notin Definitive
                     /\ dbcall[r] = "success"

\* A backend that waits for each answer can trust the definitive ones: for a
\* tenant whose calls never overlapped, while none of them runs and none of
\* its failed or lost calls took effect behind the backend's back, the schema
\* exists exactly when the latest definitive answer was READY, whatever
\* failed and restarted since.
SettledAnswerHolds ==
  \A t \in Tenant \ overlapped :
    (\A r \in Request : SchemaOf[r] = t => ~Active(r)) /\ ~Ghost(t)
      => (t \in schemas <=> settled[t] = "READY")

Answered(a) == Cardinality({r \in Request : answer[r] = a})

CountedAs(count, a) == count <= Answered(a) /\ (restarts = 0 => count = Answered(a))

\* Every answered call is counted once, under the label of its answer; only
\* a restart of the server loses counts.  (A call ended by an exception has no
\* answer of the handler's, and no count.)
CountersMatchAnswers ==
  /\ CountedAs(PROVISION_REQUESTS["success"], "READY")
  /\ CountedAs(PROVISION_REQUESTS["failed_capacity"], "FAILED_capacity")
  /\ CountedAs(PROVISION_REQUESTS["failed_db"], "FAILED_db")
  /\ CountedAs(TERMINATE_REQUESTS["success"], "TERMINATED")
  /\ CountedAs(TERMINATE_REQUESTS["failed"], "FAILED")

\* Every call is answered, raises or is lost in a restart, even when the database
\* manager never answers and the pool is smaller than the number of calls:
\* the deadline of the database call frees the thread.
EveryCallAnswered ==
  \A r \in Request : (pc[r] = "queued") ~> (pc[r] = "done")

\* The service the backend is promised (TenantService).
phaseBar == [r \in Request |->
  CASE pc[r] = "idle"                -> "idle"
    [] pc[r] \notin {"idle", "done"} -> "pending"
    [] OTHER -> CASE answer[r] \in {"FAILED_capacity", "raised"} -> "refused"
                  [] answer[r] = "FAILED_db"                    -> "FAILED"
                  [] OTHER                                      -> answer[r]]

effectBar == [r \in Request |-> dbcall[r] = "success"]

Service == INSTANCE TenantService WITH phase <- phaseBar, effect <- effectBar

\* The server implements that service: each call takes effect at most once,
\* before a READY or TERMINATED answer, and never after a refusal or an
\* exception of the capacity check.
ImplementsService == Service!Spec

----------------------------------------------------------------------------
(* What the repository says of the program and the code does not do        *)

\* provisioner.py:93-95: the primary pod and the primary's storage are
\* checked.  The names are fixed, so after a failover the storage of the pod
\* that takes the writes is never looked at.
PrimaryStorageChecked ==
  \A r \in ProvisionCall :
    dbcall[r] # "none" /\ ~AllowDev => "leader_storage" \in witness[r]
=============================================================================
