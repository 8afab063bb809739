------------------------ MODULE CloudResourceManager ------------------------
(***************************************************************************)
(* Provisioning while the cluster is scaled: the gRPC handlers of          *)
(* TenantLifecycle and the consumers of Scaling, which never speak to each *)
(* other, meet in the pods of the StatefulSet.  A patch of a consumer has  *)
(* the controller restart the pods, before or after the consumer learns    *)
(* that it is stored, and the capacity check reads them meanwhile.  A run  *)
(* of simulate_scaling_event.py may end at any time; the server does not   *)
(* restart here.                                                           *)
(***************************************************************************)
EXTENDS Integers

CONSTANTS
  ProvisionCall, TerminateCall, Tenant, SchemaOf, MaxWorkers, AllowDev,
  Consumer, Simulator, Event, MaxEvents,
  NodeCpu, NodeMemory,   \* what a node has for a pod
  Candidate,    \* pods that Patroni may promote
  MaxFailures   \* bound: pods that fail by themselves

VARIABLES
  \* TenantLifecycle
  leader, schemas, dbcall, k8sCore, queue, pc, seen, answer, restarts,
  PROVISION_REQUESTS, TERMINATE_REQUESTS, witness, settled, overlapped,
  \* Scaling; sts is the template of the StatefulSet
  sts, wire, consumerPc, event, target, current, scale_count, SCALING_EVENTS,
  handled, life, outcome, met, overtaken, stores, unanswered, redeploys,
  \* PostgresStatefulSet
  state, runs,
  failures,
  disturbed     \* history: calls during whose check some pod was not ready

tenantVars == <<schemas, dbcall, k8sCore, queue, pc, seen, answer, restarts,
                PROVISION_REQUESTS, TERMINATE_REQUESTS, settled, overlapped>>
scalingVars == <<sts, wire, consumerPc, event, target, current, scale_count, SCALING_EVENTS,
                 handled, life, outcome, met, overtaken, stores, unanswered, redeploys>>
podVars == <<state, runs>>
vars == <<tenantVars, leader, witness, scalingVars, podVars, failures, disturbed>>

S == INSTANCE Scaling WITH pc <- consumerPc, MaxRestarts <- 0, MaxRedeploys <- 0

\* What TenantLifecycle and Scaling assume of their constants.
ASSUME CallsAssumption ==
  /\ ProvisionCall \cap TerminateCall = {}
  /\ SchemaOf \in [ProvisionCall \cup TerminateCall -> Tenant]
  /\ AllowDev \in BOOLEAN

ASSUME EventsAssumption ==
  /\ Event \subseteq [complete : BOOLEAN, action : {"scale_up", "scale_down", "unknown"},
                    cpu : S!CpuQuantity, memory : S!MemoryQuantity]
  /\ Simulator \subseteq Consumer

ASSUME BoundsAssumption ==
  MaxWorkers \in Nat \ {0} /\ MaxEvents \in Nat /\ MaxFailures \in Nat

\* A node has room for the largest pod scaling_consumer.py allows.
ASSUME NodeAssumption == S!MAX_CPU <= NodeCpu /\ S!MAX_MEMORY <= NodeMemory

FittingNode == [cpu : 0 .. NodeCpu, memory : 0 .. NodeMemory,
                cpu_limit : Int, memory_limit : Int]

K == INSTANCE PostgresStatefulSet WITH Fitting <- FittingNode, template <- sts

\* The objects whose health the capacity check reads; both claims are bound.
Healthy == {p \in DOMAIN state : state[p] = "ready"} \cup
           {"postgres-data-postgres-0", "postgres-data-postgres-1"}

T == INSTANCE TenantLifecycle WITH healthy <- Healthy, Fragile <- {}, MaxRestarts <- 0

Init ==
  /\ state = [p \in K!Pod |-> "ready"]
  /\ runs = [p \in K!Pod |-> S!Manifest]
  /\ S!Init
  /\ T!Init
  /\ failures = 0
  /\ disturbed = {}

----------------------------------------------------------------------------

\* A step of the gRPC server, the backend or the database manager.
Serve(r) ==
  /\ UNCHANGED <<podVars, scalingVars, failures>>
  /\ T!Send(r) \/ T!Start(r) \/ T!Handle(r) \/ T!DbCommit(r) \/ T!DbRefuse(r)

\* A consumer handles a recommendation, or its process ends.
Scale(c) ==
  /\ UNCHANGED <<podVars, tenantVars, leader, witness, failures>>
  /\ S!HandleEvent(c) \/ S!ProcessEnds(c)

\* The API server stores a patch: sts changes under the controller.
StorePatch(p) ==
  /\ UNCHANGED <<podVars, tenantVars, leader, witness, failures>>
  /\ S!StorePatch(p)

\* The controller acts on the pods, and the checks under way witness it.
Control(p) ==
  /\ UNCHANGED <<tenantVars, leader, scalingVars, failures>>
  /\ K!Control(p)
  /\ T!Observe(Healthy', leader)

PodFails(p) ==
  /\ failures < MaxFailures
  /\ failures' = failures + 1
  /\ UNCHANGED <<tenantVars, leader, scalingVars>>
  /\ K!PodFails(p)
  /\ T!Observe(Healthy', leader)

\* Patroni keeps the cluster writable while its leader restarts.
Failover(p) ==
  /\ p \in Candidate
  /\ UNCHANGED <<podVars, scalingVars, failures>>
  /\ T!Failover(p)

\* After each step: the capacity checks that see a pod not ready.
NoteDisturbed ==
  disturbed' = disturbed \cup
    {r \in ProvisionCall : pc'[r] \in T!Checking /\ ~K!AllReady'}

Next ==
  /\ \/ \E r \in T!Request : Serve(r)
     \/ \E c \in Consumer : Scale(c)
     \/ \E p \in wire : StorePatch(p)
     \/ \E p \in K!Pod : Control(p) \/ PodFails(p) \/ Failover(p)
  /\ NoteDisturbed

Spec == Init /\ [][Next]_vars

\* Threads run, Kubernetes calls return, and the controller and the kubelets
\* go on; nothing is assumed of the backend, the consumers or the database
\* manager.
Fairness ==
  /\ \A r \in T!Request :
       WF_vars(/\ UNCHANGED <<podVars, scalingVars, failures>>
               /\ T!Start(r) \/ T!Handle(r)
               /\ NoteDisturbed)
  /\ \A p \in K!Pod : WF_vars(Control(p) /\ NoteDisturbed)

FairSpec == Spec /\ Fairness

----------------------------------------------------------------------------
(* Properties                                                              *)

\* What a pod may be made from.
PodTemplate == [cpu : S!MIN_CPU .. S!MAX_CPU, memory : S!MIN_MEMORY .. S!MAX_MEMORY,
                cpu_limit : Int, memory_limit : Int]

TypeOK ==
  /\ state \in [K!Pod -> K!State]
  /\ runs \in [K!Pod -> PodTemplate]
  /\ failures \in 0 .. MaxFailures
  /\ disturbed \subseteq ProvisionCall

\* The check refuses no one on a healthy cluster: when its three reads end in
\* FAILED, some pod was down, restarting or not ready at some instant of that
\* check, because a consumer scaled the cluster or a pod failed.
RefusedOnlyWhenDisturbed ==
  [][\A r \in ProvisionCall :
       T!CheckStorage(r) /\ answer'[r] = "FAILED_capacity" => r \in disturbed]_vars

\* The metrics of c's process show that it has restarted the pods.
Shown(c) ==
  /\ scale_count[c] > 0
  /\ SCALING_EVENTS[c]["applied"] + SCALING_EVENTS[c]["clamped"] > 0

\* A pod that is down, and a capacity check that one disturbed, has one of
\* these reasons: a pod failed by itself, or a consumer's patch was stored.
\* And whoever asks the consumer then learns of its patch, unless it still
\* waits for the answer, got none and reported a failure, or has ended.
RestartsExplained ==
  ~K!AllReady \/ disturbed # {} =>
    \/ failures > 0
    \/ \E s \in stores :
         \/ Shown(s.by)
         \/ consumerPc[s.by] = "stored" /\ s.number = handled[s.by]
         \/ s.number \in unanswered[s.by]
         \/ s.life < life[s.by]

\* Whatever the recommendations ask for, the pods end up ready and of the
\* StatefulSet's template: a clamped pod fits on a node.  A single patch that
\* did not fit would stop the rolling update for good, also for the patches
\* after it.
RolloutCompletes == []<>(K!UpToDate)
=============================================================================
