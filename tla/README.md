# Verification of the IntelliDB Cloud Resource Manager

TLA+ models, TLC runs and TLAPS proofs for the orchestration layer in
`cloud/grpc`: the gRPC server that provisions tenants in a shared PostgreSQL
cluster, the checks it makes on that cluster, the scaling consumer that patches
the cluster's StatefulSet, and the telemetry publisher. Line numbers refer to
the files under `src/`.

    tlc -workers 2 -config lifecycle.cfg MCTenantLifecycle.tla
    tlapm TenantLifecycle_proofs.tla

## The system

| component | state it keeps | operations |
|---|---|---|
| `server.py` ProvisionTenant, TerminateTenant | a pool of 10 threads and its queue; `PROVISION_REQUESTS`, `TERMINATE_REQUESTS` | check capacity, read the cluster status, call the database manager, count, answer |
| `provisioner.py` | `_k8s_core`, `_k8s_checked` | `check_shared_cluster_capacity`, `get_cluster_status`, `get_patroni_status` |
| `db_client.py` | `_channel`, `_stub` | `create_tenant_schema`, `delete_tenant_schema`, each with a 10 s deadline |
| `server.py` GetInfraStatus | none | two rounds of remote calls, one answer |
| `telemetry.py` | `latest_metrics`, `_running`, its own Kubernetes clients | a collection in `serve()`, then one every 30 s on a thread of its own |
| `metrics.py` | the Prometheus counters and gauges | scraped by Prometheus at any moment |
| `server.py` GetClusterMetrics | none | reads `latest_metrics` on a pool thread |
| `scaling_consumer.py` | `_scale_count`, `SCALING_EVENTS`, the StatefulSet's resources | `handle_event`: validate, clamp, compare, patch, count |
| `simulate_scaling_event.py` | a consumer's counters, which no endpoint exports | a second consumer, in a process of its own that ends after one event |
| `cloud/scripts`, `cloud/k8s` | the cluster | deploy, tear down, fail over |

Outside the repository, and modelled by what the code can observe of them: the
backend that calls the server; the Database Resource Manager, which executes
`CreateTenantSchema` and `DeleteTenantSchema`; Kubernetes (pods, claims, the
StatefulSet); Patroni and PostgreSQL in the two pods.

**Interaction.** Handlers run on pool threads and share no locks. Between two
remote calls of a handler the other handlers, the publisher's thread and the
cluster itself move on. Handlers and the publisher share the provisioner's
lazily made Kubernetes client, the counters and `latest_metrics`. The consumer
and the capacity check meet only in the cluster: a patch restarts the pods whose
readiness the check reads. The operator's scripts make and remove that cluster
under all of them.

**What is hard.** Reads made one after the other of things that change
(capacity, status, Patroni, telemetry); the use of what was read after further
remote calls; the database deadline, which ends the caller's wait and not the
request; restarts, which lose calls, queue and counters and keep what was sent;
read, compare and patch without a resource version; patches that are stored
before their consumer knows of it, after it has reported a failure, or after its
process has ended; quantities that the API server rewrites; gauges written one
by one while they are scraped; GetClusterMetrics calls that overlap each other
and a collection; clients that several threads make at once without a lock;
scripts that end half-way and are run again over what they left. `PROJECT.json`
lists each hazard at its line, with the properties that cover it or the reason
why none does.

**What makes each part correct.** Tenants: a call takes effect at most once,
before a READY or TERMINATED answer and never after a refusal; each answer is
counted once; every call ends. Capacity: no create without three healthy reads.
Status: no leader is made up, and a cluster that holds still is reported as it
is. Scaling: requests within bounds, never a mix of two recommendations, an
outcome that is true, and counters that miss no patch whose answer came.
Telemetry: `cluster_healthy` only of what was seen, whole snapshots, gauges of
at most two collections, and collecting goes on. Clients:
a configured server never takes itself for an unconfigured one. The whole: a
refusal for want of capacity and a restart of the pods have causes, and a
rolling update completes. Scripts: "Deploy Complete" is true, and deploying again recovers.

## Modules

| module | models | uses |
|---|---|---|
| `TenantService` | the promise to the backend: Invoke, Effect, Succeed, Refuse, Fail, Lose | |
| `TenantLifecycle` | both tenant handlers, the capacity check, the database client, the pool, restarts | instantiates `TenantService` |
| `PatroniCluster` | two pods, roles and write-ahead log, as seen from outside | |
| `InfraStatus` | GetInfraStatus against that cluster | extends `PatroniCluster` |
| `Scaling` | consumers, their processes, and the API server that stores their patches | |
| `Telemetry` | collections, gauges, snapshots, GetClusterMetrics | |
| `LazyClients` | the lazily made clients of provisioner, db_client and publisher, statement by statement | |
| `PostgresStatefulSet` | the StatefulSet controller and the two PostgreSQL pods, as the code depends on them | |
| `CloudResourceManager` | provisioning while the cluster is scaled | instantiates `TenantLifecycle`, `Scaling`, `PostgresStatefulSet` |
| `Deployment` | deploy.sh, teardown.sh, test-failover.sh against that controller | instantiates `PostgresStatefulSet` |
| `MCTenantLifecycle`, `MCScaling`, `MCLazyClients`, `MCCloudResourceManager` | constants for TLC | extend the modules they give values to |
| `TenantLifecycle_proofs`, `Scaling_proofs`, `LazyClients_proofs`, `Telemetry_proofs`, `InfraStatus_proofs`, `Deployment_proofs`, `CloudResourceManager_proofs` | theorems and their proofs | extend the modules they are about |

The common convention: a step is one remote call; what the code computes from
one remote call to the next belongs to the step before it, as nobody else can
see it happen. Where it matters that the API server acts before the answer
arrives, as for patches and database calls, a call is several steps: sent,
executed, answered. History variables (`witness`, `settled`, `masters`, `completed`
and so on) record what was true at the instants of a call; no guard reads them.
Definitions named `Action_bug` before a definition `Action` are plausible bugs
of that piece of code; nothing uses them except to show that the properties
notice such bugs.

### TenantLifecycle

`pc[r]` is where the handler of call `r` stands. `Start` is a pool thread that
takes the oldest queued call (`MaxWorkers` threads). `CheckPrimary`,
`CheckReplica` and `CheckStorage` are the three reads of
`check_shared_cluster_capacity`; `seen[r]` holds its flags that are True, and
the last read decides. `CheckRaises` is either of its exception handlers,
`CheckUnconfigured` the way out without a Kubernetes client, where `AllowDev` is
`ALLOW_DEV_WITHOUT_K8S`. `ClientRaises` is a configuration that cannot be parsed:
the exception is raised outside both try blocks (provisioner.py:113), so the
call ends with it, uncounted, and the calls after it find no client. `ClusterStatus` is `get_cluster_status`, whose result
only gives node names. `CreateTenantSchema` and `DeleteTenantSchema` put the
request on the wire; `Receive` is an answer in time, `RpcError` the deadline or
an unreachable database manager, at whatever point the request has reached.
`Reply` counts and answers.

`DbCommit` may happen before or after the caller has given up. `Restart` loses
everything the process holds; `dbcall` and `schemas` survive it.

The history variable `overlapped` holds the tenants for which the backend has
sent a call while another of theirs was open. For these the last definitive
answer need not describe the schema, as the two database calls may take effect
in either order; `SettledAnswerHolds` is about all the others.

`phaseBar` and `effectBar` map this to `TenantService`: a call has had its
effect when the database manager has executed it, and is pending from `Send` to
its answer. With this mapping `RpcError` is `Fail`, and a late `DbCommit` is an
`Effect` after a failure.

### InfraStatus

`GetInfraStatus` reads the two pods, then the claims, then runs curl in
postgres-0 and in postgres-1. `PatroniOutput` is what Patroni answers: a master
gives `location` and a replica `replayed_location`. `Printout` is how much of it
is there: all; no position, which the code takes for 0; or something the
evaluation raises on, after both pods have been named (provisioner.py:336-337,
361-362) and before the answer is called healthy. `PatroniStatus` and `Named` are
the evaluation with its defaults, `ExecRaises` an exception before anything is
named. `PatroniCluster` goes on meanwhile: pods stop and
return, the leader loses its lock, a pod is promoted, log is written and
replayed. The history variables collect who led and who ran during the call,
what was printed, and the positions at the two execs.

### Scaling

A quantity is a number with a suffix, which is what the code looks at: `m`,
none, an `m` elsewhere, nothing `int()` accepts, or no string at all; `Mi` and
`Gi`. `Receive` is validation (`Verdict`: a value that is no string raises an
AttributeError that nothing catches) and clamping. `ReadCurrent` is
`get_current_resources`; `SkipDuplicate`, `BuildRaises` and `SendPatch` are the
three ways on from the comparison, taken later, when what was read may be stale.
`StorePatch` is the API server's step: it stores a patch on the wire while the
consumer waits, or when nobody waits any more. `PatchAnswered`, `PatchRefused`
and `PatchUnanswered` are what the consumer learns, and only `PatchAnswered`
counts (lines 118 to 127). `ProcessEnds` is the end of the consumer's process at
any point, a restart of the server or the exit of a simulator; its counters go
with it and what it sent stays. The API server is `Valid` (a request above its
limit is refused), `CanonicalCpu` and `CanonicalMemory` (the form in which it
returns a quantity) and `Store`. `Redeploy` is deploy.sh applied to the running
cluster. The consumers in `Simulator` are runs of simulate_scaling_event.py, each
of which handles one of its two events. Nothing exports a simulator's counters:
server.py:265 is the only place that starts the metrics endpoint.

The history variables: `stores` is the patches stored, each known by its
consumer, the process of it (`life`) and the number of the event; `unanswered`
the events whose patch got no answer; `met` and `overtaken` say for each event
whether the StatefulSet has had its resources, and whether somebody else's
patch, or an earlier one of the same consumer, has changed it since the event
arrived.

### Telemetry

One collection is the remote calls of `_collect_metrics` in their order, then
the keys computed from them, then the eight gauges one after the other, then
`latest_metrics`. `CycleRaises` is an exception that is not an `ApiException`
in one of the reads that only catch that. A dictionary is identified with the
number of its collection; `filled` says which have all their keys, and a gauge
holds the number of the collection that set it. Of the measured values only
those that `cluster_healthy` and the number of ready pods are computed from are
kept. CPU, memory, storage, bandwidth and IO are steps that may fail and go on:
no property depends on their values, and the error counters are incremented
where the code logs the failure and are read by nothing. `QueryPatroni` names the
leader healthy, or unhealthy where InfraStatus would, or names nobody.
`TakeSnapshot` and `Respond` are GetClusterMetrics, any number of calls at once,
one for each element of `Call`: `reader[c]` is the dictionary a call holds, and
`floor[c]` the newest that any call had been answered from when it began.

### LazyClients

Here a step is one statement that reads or writes a global of the process:
`TestChecked`, `MarkChecked`, `LoadConfig` or `LoadRaises`, `AssignCore` and
`ReturnCore` are `_get_k8s_core`; `TestStub`, `OpenChannel`, `MakeStub`,
`AssignStub` and `ReturnStub` are `_get_stub`; `InitK8s` is the publisher's own
`_init_k8s`, which only one thread calls at a time. `Plan(t)` is the order in
which a handler or a collection calls them, and `started` the moment at which
`serve()`, after its initial collection, has started the other threads. `config`
is absent, broken (an exception that nobody catches) or valid, and may become
valid later. `late` holds the threads that entered an accessor after some thread
had left it.

### CloudResourceManager

The state of `TenantLifecycle`, `Scaling` and `PostgresStatefulSet` side by side.
The StatefulSet's resources, `sts`, are `Scaling`'s variable and the
controller's template; the pods that are ready are the pods whose readiness the
capacity check reads. `Serve`, `Scale`, `StorePatch`, `Control`, `PodFails` and
`Failover` are steps of one component each, except that a change of the pods is
witnessed by the checks under way. Between `StorePatch` and the consumer's
answer the controller may already have taken a pod down. A run of the simulator
may end at any point. Claims are bound throughout, the server does not restart,
and deploy.sh does not run: `ProcessEnds` and `Redeploy` of `Scaling` and
`Restart` of `TenantLifecycle` cover these for each part alone. `Candidate` is the
pods that Patroni may promote: who leads has no bearing on the check while the
claims are bound, so the run with a call leaves failovers out. A node is
assumed to have room for a pod of `MAX_CPU` and `MAX_MEMORY` (`NodeAssumption`);
the code states these bounds and nothing in it checks them against a node.

### Deployment

A script is a sequence of commands: apply, delete, wait, and in test-failover.sh
the test of postgres-0 and its deletion. `Passed` and `Failed` are where the
scripts differ: deploy.sh has `set -e`, the others go on. `KubectlFails` is a
command that the API server does not execute, `Interrupt` an operator's Ctrl-C.
A wait fails at once without the pod and otherwise in time. Applying is
idempotent; a terminating namespace is reported as unchanged, and nothing can be
made in it. Pods of a deleted StatefulSet stay as `orphans` until they are
collected, and a new StatefulSet waits for that. `kubectl delete` of the
namespace waits until everything in it is gone, also when nobody waits any more.
The SQL of test-failover.sh, services and roles have no effect on what the
scripts wait for.

## Runs

| run | what it shows | bounds |
|---|---|---|
| `lifecycle` | READY and TERMINATED can be trusted, failure labels name the layer, no create without three healthy reads, each answer counted once; implements `TenantService` | two provisionings and a termination of one tenant, at once or one after the other, two threads, one restart, postgres-0 fails and returns at will, failovers, development mode on, a Kubernetes configuration that is absent, broken or valid; 2.1 million states |
| `lifecycle_live` | every call is answered | three calls, one thread, one restart, failovers, a database manager that may never answer |
| `scaling` | bounds, true outcomes, no mixed resources, patches counted | the server's consumer with up to two of 15 events in all notations, one restart of the server, one run of the simulator, one redeploy; 2.3 million states |
| `infra_status` | leader witnessed, stable cluster exact, lag within the call | log positions 0 to 2, any number of calls and failovers, all three kinds of printout; 4.2 million states |
| `telemetry` | `cluster_healthy` is witnessed, gauges of two collections, whole snapshots, collecting goes on | two collections, two changes of the cluster, scrapes and two overlapping calls between any two steps; 2 million states |
| `lazy_clients` | a configured server refuses nobody, the first use decides, the stub is always there, the publisher recovers | one call of each kind, the publisher and the main thread, any number of collections, each state of the configuration |
| `cloud_resource_manager` | a refusal and a restart have a cause | one provisioning, two consumers with one event each (one beyond both bounds), one pod failure, no failover; 1.8 million states |
| `cloud_resource_rollout` | rolling updates complete | the same consumers without a call, two pod failures, failovers; 280 000 states |
| `deployment` | "Deploy Complete" is true, etcd before PostgreSQL, deploying again recovers | any number of runs of deploy.sh, one of another script, two faults (command, interruption, pod), one scaling patch; 510 000 states |

The bounds reach the cases that matter: a provision, a termination and a second
provision are the shortest history in which a late effect contradicts a later
answer; two threads and two consumers are what a race needs, also that of
one call of each kind in `lazy_clients`, where every accessor then has two or
more threads in it; two faults let a teardown be interrupted and the deploy
after it fail; two changes let one
object go and return, or two different ones fail, within one check or one
collection; a second collection can fail after the first has set the gauges; log
positions up to 2 allow a write and a replay between the two execs and a lag
that is neither zero nor the whole log; two events of one consumer let a patch
of the first be stored during the second or after it, and a restart between
them has the second counted by a process that knows nothing of the first. Tenants
share only the queue and the pool, so one tenant is enough for TLC, and the
proofs cover any number.

Runs that end in a violation each check one sentence of the repository that the
code does not keep:

| run | the sentence | what happens |
|---|---|---|
| `lifecycle_leader_storage` | provisioner.py:95, the primary's claim is checked | after a failover it is the other pod's claim |
| `scaling_duplicates` | scaling_consumer.py:108, duplicates are skipped | 1000m is stored as 1 and compared as a string |
| `infra_lag_real` | metrics.py:62, lag from primary to replica | two masters, and a missing position counts as 0 |

Reading the code for the models showed more such differences. No run is spent
on them, for each is visible in a line or two:

- provisioner.py:89-90, no schema on a broken database: the cluster may break
  between the capacity check and the create (`CreateNeedsHealthyReads` says what
  does hold).
- scaling_consumer.py:64 takes `"2"`, two cores and within the bounds, for two
  millicores, clamps it and counts it as clamped.
- metrics.py:88, events processed: an event whose patch fails is under no
  outcome.
- metrics.py:67, pods Running and Ready: `all()` of no container statuses is
  True and the phase is not looked at, so a Pending pod counts.
- teardown.sh:6 and 16, the claims are kept: its last command deletes the
  namespace and everything in it.
- metrics.py:57, a healthy election reads 1: when the exec in postgres-1 fails,
  what postgres-0 printed as the leader is discarded.
- provisioner.py:223-225, roles follow failovers: `primary_status`, beside the
  leader's name, is the phase of postgres-0.
- server.py:129-130, `failed_db` means that the schema creation failed: a
  create may complete after its 10 s deadline.
- provisioner.py:98, the three conditions hold: they are read one after the
  other, and need not have held together.
- db_client.py:21, one shared channel: two first calls at once make two.
- README.md:80, never on the same node: the anti-affinity is only preferred
  (statefulset.yaml:23).
- test-failover.sh:94 says that postgres-0 is back also when the wait has
  timed out.
- metrics.py:75 lists an error category `patroni` that nothing counts.
- metrics.py:32, -1 if unavailable: without Kubernetes configuration the gauges
  are never set and read 0.
- telemetry.py:338-339, 0 and failure can be told apart: failed storage is 0.0.

Deadlock is checked except where the system really stops: in `scaling` and
`scaling_duplicates` when every consumer has handled its events, in the
`telemetry` run when all collections are done and the server has stopped, in
`lifecycle_leader_storage` when the only call has ended, and in the two runs of
`CloudResourceManager` when the call and the events are used up and the pods are
up to date.

### Fairness

`TenantLifecycle`: weak fairness of `Start(r)` and `Handle(r)` for each call:
the pool's threads run, and each Kubernetes call returns or raises. `RpcError`
is part of `Handle` because of `timeout=10` (db_client.py:67, 120). Nothing is
assumed of the database manager, the backend or the cluster. The Kubernetes
calls carry no timeout in this code, so that they end is an assumption about
the client library and the network, and the weakest one under which any call
ends.

`Telemetry`: weak fairness of `Collect`: the publisher's thread runs, and its
remote calls return or raise (the Prometheus query has `timeout=5`, the
Kubernetes calls none). Changes of the cluster and stopping are never forced.

`LazyClients`: weak fairness of the main thread and of the publisher's, which
never wait for another thread. Nothing is assumed of the pool's threads.

`CloudResourceManager`, for `cloud_resource_rollout`: weak fairness of `Start`
and `Handle` as above, and of each pod's `Control`: the StatefulSet controller
and the kubelets work. Nothing is assumed of the consumers or of when the API
server stores a patch, and pods fail a bounded number of times.

`Deployment`: weak fairness of the script under way, whose waits have timeouts,
and of Kubernetes' controllers, collectors and kubelets. That the operator runs
deploy.sh again and again is the premise of `DeployRecovers` and not assumed
otherwise.

## Proofs

Every invariant and every safety property of a step that a passing run checks is
a theorem, for every value of the constants that meets the named assumptions:

| module | assumptions |
|---|---|
| `TenantLifecycle` | `CallsAssumption`: a call is either a provisioning or a termination and has a tenant. `BoundsAssumption`: `MaxWorkers` is at least 1, `MaxRestarts` a number, `AllowDev` a truth value, and `Fragile` part of the cluster |
| `Scaling` | `EventAssumption`: the shape of an event. `SimulatorAssumption`: the simulator's runs are consumers. `ScalingBounds`: the bounds on events, restarts and redeploys are numbers |
| `LazyClients` | `CallsAssumption`: a call has one kind and is not named like another thread |
| `Telemetry`, `PatroniCluster`, `Deployment` | `TelemetryBounds`, `WalAssumption`, `BoundsAssumption`: the bounds are numbers, with at least one collection |
| `CloudResourceManager` | `CallsAssumption`, `EventsAssumption`, `BoundsAssumption`: those of the two parts. `NodeAssumption`, which only `RolloutCompletes` needs: a node has room for `MAX_CPU` and `MAX_MEMORY` |

The number of calls (those of GetClusterMetrics open at once included), tenants, threads of the pool, consumers and events is thus
arbitrary in the proofs, and so are the bounds on restarts, failures,
collections and log; the two pods are the two of the code. In each proof module
`IInv` is the inductive invariant, and each conjunct is kept by a lemma of its
own.

`TenantLifecycle_proofs`. The properties are not inductive: `FAILED_db` says
that a request was sent, which depends on where the handler stood, and an answer
says what the database has done, which a restart or a late commit may have
changed since. The argument is in layers. `HandlerInv` ties each handler's place
to its flags, answer and request. `ProgressInv` ties an answer to the request's
state: READY only of an executed request, no request at all after a refusal.
`CapacityInv` says that a flag that is True was witnessed within the check, and
with `HandlerInv` gives `CreateAfterHealthyReads`. `SerialInv` says that a
tenant not in `overlapped` has one active call, and `SettledInv` relates such a
tenant's latest definitive answer, the calls still open and the schema;
together they give `DefinitiveAnswersHold`. `ServiceImplemented` maps each
action to a step of `TenantService` or a stutter, using `HandlerInv` and
`ProgressInv`. `FailureLabels` follows from the first two.

`Scaling_proofs`. `TargetInv`: a consumer past validation holds the clamped
form of an accepted event. `WireInv`: each patch under way was made from one, and
has the number of an event that its consumer still waits for or is done with.
With them `OneRecommendation` is one step per action. `Bounded` needs
`AcceptedPatchInBounds`: a clamped quantity in millicores is within the bounds
and its limit is twice itself; a clamped quantity in whole cores has its limit
below its request, which the API server refuses. So the bounds hold because of
the API server's validation and not of the clamping alone. `OutcomeTruthful`
needs `OutcomeInv`, what a consumer may rely on before it reports: its event's
resources have been stored at some instant, and unless overtaken are stored now,
both when its patch has been stored and when what it read equals them. The
latter needs that a stored value compares equal, as a string, only to the same
value in millicores (`SkipSound`).

`PatchesAccounted` is a count. `NumberInv` places each patch by its event's
number: a stored patch of the present event is the one waited for, and a patch
still under way belongs to an event without an answer. `CountInv` then says that
the counters of a process are the size of a finite set, its stored patches
without the one it waits for and those it got no answer to. An answer adds one
element to that set; a patch stored late, or while its consumer waits, adds none;
the end of a process empties it. `StoresExplained` turns this into what the
counters tell of one given patch.

Counting in `TenantLifecycle_proofs` (`CountersRight`) is of the same kind.
`CountInv` says that the calls that got an answer are a finite set whatever the
set of calls, since each step answers at most one, and that its size is the
counter. A restart sets the counters to 0 and takes no answer back, so from then
on a counter is at most that size.

`LazyClients_proofs`. `FirstUseDecides` follows from `UsedInv`: a return from an
accessor leaves its global behind for good, so whoever enters later is on the
way out at once. `StubAlwaysThere` needs `StubInv`, what a thread holds just
before it stores or returns a stub. `ConfiguredNeverRefused` is the subtle one:
`_get_k8s_core` marks itself checked before the client is there, so a second
thread could take the server for an unconfigured one. It does not because
`serve()` collects once before it starts any other thread: `PlaceInv` says that
only `serve` runs before that, and `MadeFirst` that the client is there
afterwards and never unmade.

`Telemetry_proofs`. `GaugesOfTwoCollections` with `GaugeInv` (gauges move only
in the last phase of a collection) is inductive. `WitnessInv` says that each
key in the dictionary under way was seen in this collection, which
`cluster_healthy` is then computed from; `LocalInv` says that a collection starts
without any. `SnapshotInv` with `HeldInv` orders the collections that are filled,
published, held by each open call and answered, so that calls may overlap in any
number and order.

`InfraStatus_proofs`. `ClusterInv` is about the cluster alone: no two leaders,
and a replica that is up is not ahead of its leader. `WitnessInv` relates a
call to the present, exactly so if the cluster has held still. `ExecInv` says
what the first exec's output still says of postgres-0 when the second is made,
and `ReportInv` what has been read of the pods. `LagWithinCall` rests on the
monotonic log (`first[p] <= wal[p]`); where a position is missing only its first
conjunct, an upper bound, is left.

`Deployment_proofs`. `WaitInv`: whatever deploy.sh has waited for was ready in
this run, so that its end proves `CompleteMeansReady`. `ServedInv`: where the
StatefulSet is, or is about to be applied in a namespace that exists, etcd has
served. The condition matters: the namespace may go while the script is under
way.

`CloudResourceManager_proofs`. The parts are not proved again in the
composition. `LifecycleImplemented` and `ScalingImplemented` show that the
composition implements each part: pods driven by the StatefulSet controller are
a case of pods that fail and return at will, and the template is patched as in
`Scaling`. `SameLifecycle` and its like say that the operators of an instance do
not depend on the bounds it is given. `PromisesKept` carries the parts'
theorems over, `TenantService` included. Two properties belong to the whole.
`RefusedOnlyWhenDisturbed` needs `SeenInv`: while nothing disturbs a check, both
pods are ready and each of its reads found them so. `RestartsExplained` follows
from `RestartInv`, that both pods run the template that is stored and no check is
disturbed as long as no pod has failed and no patch was stored, and from
`StoresExplained` of `Scaling`, which says what the metrics tell of a patch that
was. That no pod ever runs a
template outside the bounds (`TypeCorrect`) uses the theorem `Bounded` of
`Scaling` through the refinement.

Only model-checked: the liveness properties `EveryCallAnswered`,
`CollectingGoesOn`, `PublisherRecovers`, `RolloutCompletes` and
`DeployRecovers`, since fairness is defined with ENABLED, which the provers do
not handle; and the runs that end in a violation, which are counterexamples.

## Not modelled

- Generated stubs (beyond the making of the database stub), message layouts,
  dashboards, the Dockerfile: no behaviour of their own.
- The mock database manager and the test client: the one always succeeds, the
  other makes each call once.
- validate.sh, which only reads and prints; the placement of pods on nodes;
  services and roles.
- Log texts, latency histograms, node names, endpoints and credentials in
  answers; the values of the measurements the telemetry only passes on.
- `stream()` of the kubernetes package, which changes the client it is given
  while an exec runs: not part of the repository.

## Plan

1. (done) `TenantService`, `TenantLifecycle` and `Scaling` with their proofs;
   `PatroniCluster`, `InfraStatus`; `Telemetry`; `LazyClients`;
   `PostgresStatefulSet`, `CloudResourceManager`, `Deployment`.
2. (done) Proofs of every invariant and every safety property of a step that a
   passing run checks, and of the three refinements: `TenantService` by
   `TenantLifecycle`, and `TenantLifecycle` and `Scaling` by
   `CloudResourceManager`.
3. Left: the safety parts of the liveness arguments, such as that no call can be
   stuck outside the places `Handle` continues from.
