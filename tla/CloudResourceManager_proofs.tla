-------------------- MODULE CloudResourceManager_proofs --------------------
(***************************************************************************)
(* Proofs about the composition: any calls, consumers, recommendations and *)
(* failing pods.                                                           *)
(*                                                                         *)
(* Each part of the composition is shown to behave as its own module says, *)
(* TenantLifecycle with pods that fail and recover whenever they like, so  *)
(* that what is proved of the parts holds of the whole; then what only the *)
(* whole can say is proved from it.                                        *)
(***************************************************************************)
EXTENDS CloudResourceManager, TLAPS

SP == INSTANCE Scaling_proofs WITH pc <- consumerPc, MaxRestarts <- 0, MaxRedeploys <- 0

TP == INSTANCE TenantLifecycle_proofs WITH healthy <- Healthy, Fragile <- K!Pod,
                                           MaxRestarts <- 0

(***************************************************************************)
(* Scaling                                                                 *)
(***************************************************************************)

LEMMA SameScaling ==
  /\ S!Manifest = SP!Manifest /\ S!NoEvent = SP!NoEvent /\ S!NoTarget = SP!NoTarget
  /\ S!Outcome = SP!Outcome /\ S!Simulated = SP!Simulated
  /\ \A e : S!Verdict(e) = SP!Verdict(e) /\ S!Clamp(e) = SP!Clamp(e)
  /\ \A t : S!Resources(t) = SP!Resources(t)
  /\ \A res : S!Valid(res) = SP!Valid(res)
  /\ \A c : /\ S!Duplicate(c) = SP!Duplicate(c) /\ S!was_clamped(c) = SP!was_clamped(c)
            /\ S!PatchOf(c) = SP!PatchOf(c)
            /\ \A o : S!Close(c, o) = SP!Close(c, o) /\ S!Return(c, o) = SP!Return(c, o)
  /\ S!Read = SP!Read
  /\ \A p : S!Awaited(p) = SP!Awaited(p) /\ S!For(p) = SP!For(p)
  /\ \A res, own : S!Store(res, own) = SP!Store(res, own)
<1>1. /\ S!Manifest = SP!Manifest /\ S!NoEvent = SP!NoEvent /\ S!NoTarget = SP!NoTarget
      /\ S!Outcome = SP!Outcome
  BY DEF S!Manifest, SP!Manifest, S!NoEvent, SP!NoEvent, S!NoTarget, SP!NoTarget,
     S!CanonicalCpu, SP!CanonicalCpu, S!CanonicalMemory, SP!CanonicalMemory,
     S!Outcome, SP!Outcome
<1>2. S!Simulated = SP!Simulated
  BY DEF S!Simulated, SP!Simulated, S!Ask, SP!Ask
<1>3. ASSUME NEW e PROVE S!Verdict(e) = SP!Verdict(e)
  BY DEF S!Verdict, SP!Verdict
<1>4. ASSUME NEW e PROVE S!Clamp(e) = SP!Clamp(e)
  BY DEF S!Clamp, SP!Clamp, S!ClampCpu, SP!ClampCpu,
     S!ClampMemory, SP!ClampMemory, S!memory_to_mi, SP!memory_to_mi, S!MIN_CPU, SP!MIN_CPU,
     S!MAX_CPU, SP!MAX_CPU, S!MIN_MEMORY, SP!MIN_MEMORY, S!MAX_MEMORY, SP!MAX_MEMORY
<1>5. ASSUME NEW t PROVE S!Resources(t) = SP!Resources(t)
  BY DEF S!Resources, SP!Resources, S!CpuValue, SP!CpuValue, S!memory_to_mi,
     SP!memory_to_mi, S!double_cpu, SP!double_cpu, S!double_memory, SP!double_memory
<1>6. ASSUME NEW res PROVE S!Valid(res) = SP!Valid(res)
  BY DEF S!Valid, SP!Valid
<1>7. S!Read = SP!Read
  BY DEF S!Read, SP!Read, S!CanonicalCpu, SP!CanonicalCpu, S!CanonicalMemory,
     SP!CanonicalMemory
<1>8. ASSUME NEW c
      PROVE  /\ S!Duplicate(c) = SP!Duplicate(c) /\ S!was_clamped(c) = SP!was_clamped(c)
             /\ S!PatchOf(c) = SP!PatchOf(c)
  BY <1>5 DEF S!Duplicate, SP!Duplicate, S!was_clamped, SP!was_clamped, S!PatchOf, SP!PatchOf
<1>9. ASSUME NEW c, NEW o PROVE S!Close(c, o) = SP!Close(c, o) /\ S!Return(c, o) = SP!Return(c, o)
  BY <1>1 DEF S!Close, SP!Close, S!Return, SP!Return
<1>10. ASSUME NEW p PROVE S!Awaited(p) = SP!Awaited(p) /\ S!For(p) = SP!For(p)
  BY DEF S!Awaited, SP!Awaited, S!For, SP!For
<1>11. ASSUME NEW res, NEW own PROVE S!Store(res, own) = SP!Store(res, own)
  BY <1>5 DEF S!Store, SP!Store
<1>12. QED
  BY <1>1, <1>2, <1>3, <1>4, <1>5, <1>6, <1>7, <1>8, <1>9, <1>10, <1>11

LEMMA ScalingInit == Init => SP!Init
BY SameScaling DEF Init, S!Init, SP!Init

LEMMA ScalingStep == [Next]_vars => [SP!Next]_(SP!vars)
<1> SUFFICES ASSUME [Next]_vars PROVE [SP!Next]_(SP!vars)
  OBVIOUS
<1> USE DEF S!consumerVars, SP!consumerVars, S!countVars, SP!countVars, S!eventVars,
        SP!eventVars, S!storeVars, SP!storeVars
<1>1. ASSUME NEW c \in Consumer, Scale(c) PROVE SP!Next
  <2>1. ASSUME NEW e \in Event, S!Receive(c, e) PROVE SP!Receive(c, e)
    BY <2>1, SameScaling DEF S!Receive, SP!Receive
  <2>2. S!ReadCurrent(c) => SP!ReadCurrent(c)
    BY SameScaling DEF S!ReadCurrent, SP!ReadCurrent
  <2>3. S!SkipDuplicate(c) => SP!SkipDuplicate(c)
    BY SameScaling DEF S!SkipDuplicate, SP!SkipDuplicate
  <2>4. S!BuildRaises(c) => SP!BuildRaises(c)
    BY SameScaling DEF S!BuildRaises, SP!BuildRaises
  <2>5. S!SendPatch(c) => SP!SendPatch(c)
    BY SameScaling DEF S!SendPatch, SP!SendPatch
  <2>6. S!PatchAnswered(c) => SP!PatchAnswered(c)
    BY SameScaling DEF S!PatchAnswered, SP!PatchAnswered
  <2>7. S!PatchRefused(c) => SP!PatchRefused(c)
    BY SameScaling DEF S!PatchRefused, SP!PatchRefused
  <2>8. S!PatchUnanswered(c) => SP!PatchUnanswered(c)
    BY SameScaling DEF S!PatchUnanswered, SP!PatchUnanswered
  <2>9. S!HandleEvent(c) => SP!HandleEvent(c)
    BY <2>1, <2>2, <2>3, <2>4, <2>5, <2>6, <2>7, <2>8 DEF S!HandleEvent, SP!HandleEvent
  <2>10. S!ProcessEnds(c) => SP!ProcessEnds(c)
    BY SameScaling DEF S!ProcessEnds, SP!ProcessEnds
  <2>11. QED  BY <1>1, <2>9, <2>10 DEF Scale, SP!Next
<1>2. ASSUME NEW p \in wire, StorePatch(p) PROVE SP!Next
  <2>1. SP!StorePatch(p)
    BY <1>2, SameScaling DEF StorePatch, S!StorePatch, SP!StorePatch
  <2>2. QED  BY <2>1 DEF SP!Next
<1>3. ASSUME UNCHANGED scalingVars PROVE UNCHANGED SP!vars
  BY <1>3 DEF scalingVars, SP!vars
<1>4. CASE UNCHANGED vars
  BY <1>3, <1>4 DEF vars
<1>5. QED
  BY <1>1, <1>2, <1>3, <1>4 DEF Next, Serve, Control, PodFails, Failover

\* The StatefulSet is patched in the composition exactly as in Scaling.
THEOREM ScalingImplemented == Spec => SP!Spec
BY ScalingInit, ScalingStep, PTL DEF Spec, SP!Spec

(***************************************************************************)
(* The tenant lifecycle                                                    *)
(***************************************************************************)

(* The pods, and what the capacity checks witness of them.                  *)
PodInv ==
  /\ state \in [K!Pod -> K!State]
  /\ witness = [r \in T!Request |-> witness[r]] /\ DOMAIN pc = T!Request
  /\ \A r \in T!Request : pc[r] \in T!Checking => T!Facts(Healthy, leader) \subseteq witness[r]

LEMMA SameLifecycle ==
  /\ T!Request = TP!Request /\ T!Checking = TP!Checking /\ T!Pod = TP!Pod
  /\ T!ClusterObject = TP!ClusterObject /\ T!Checked = TP!Checked /\ T!Busy = TP!Busy
  /\ \A r : T!Active(r) = TP!Active(r)
  /\ \A h, l : T!Facts(h, l) = TP!Facts(h, l)
  /\ \A r, a : T!Reply(r, a) = TP!Reply(r, a)
  /\ \A h, l : T!Observe(h, l) = TP!Observe(h, l)
<1>1. T!Request = TP!Request /\ T!Checking = TP!Checking
  BY DEF T!Request, TP!Request, T!Checking, TP!Checking
<1>2. /\ T!Pod = TP!Pod /\ T!ClusterObject = TP!ClusterObject /\ T!Checked = TP!Checked
  BY DEF T!Pod, TP!Pod, T!ClusterObject, TP!ClusterObject, T!Checked, TP!Checked,
     T!PRIMARY_POD, TP!PRIMARY_POD, T!REPLICA_POD, TP!REPLICA_POD,
     T!PRIMARY_PVC, TP!PRIMARY_PVC, T!REPLICA_PVC, TP!REPLICA_PVC
<1>3. T!Busy = TP!Busy
  BY <1>1 DEF T!Busy, TP!Busy, T!Working, TP!Working
<1>4. \A r : T!Active(r) = TP!Active(r)
  BY DEF T!Active, TP!Active
<1>5. ASSUME NEW h, NEW l PROVE T!Facts(h, l) = TP!Facts(h, l)
  BY DEF T!Facts, TP!Facts, T!StorageOf, TP!StorageOf, T!PRIMARY_POD, TP!PRIMARY_POD,
     T!PRIMARY_PVC, TP!PRIMARY_PVC, T!REPLICA_PVC, TP!REPLICA_PVC
<1>6. ASSUME NEW r, NEW a PROVE T!Reply(r, a) = TP!Reply(r, a)
  BY DEF T!Reply, TP!Reply, T!Label, TP!Label, T!Definitive, TP!Definitive
<1>7. ASSUME NEW h, NEW l PROVE T!Observe(h, l) = TP!Observe(h, l)
  BY <1>1, <1>5 DEF T!Observe, TP!Observe
<1>8. QED  BY <1>1, <1>2, <1>3, <1>4, <1>5, <1>6, <1>7

\* What the composition calls healthy, pod by pod.
LEMMA HealthyPods ==
  ASSUME state \in [K!Pod -> K!State]
  PROVE  /\ Healthy \subseteq TP!ClusterObject
         /\ \A p \in K!Pod : p \in Healthy <=> state[p] = "ready"
         /\ \A o \in TP!ClusterObject \ K!Pod : o \in Healthy
BY DEF Healthy, K!Pod, TP!ClusterObject, TP!Pod, TP!PRIMARY_POD, TP!REPLICA_POD,
   TP!PRIMARY_PVC, TP!REPLICA_PVC

LEMMA LifecycleInit == Init => TP!Init /\ PodInv
<1> SUFFICES ASSUME Init PROVE TP!Init /\ PodInv
  OBVIOUS
<1>1. state \in [K!Pod -> K!State]
  BY DEF Init, K!State
<1>2. Healthy = TP!ClusterObject
  BY <1>1, HealthyPods DEF Init
<1>3. TP!Init
  BY <1>2, SameLifecycle DEF Init, T!Init, TP!Init, T!PRIMARY_POD, TP!PRIMARY_POD
<1>4. /\ witness = [r \in T!Request |-> witness[r]] /\ DOMAIN pc = T!Request
      /\ \A r \in T!Request : pc[r] = "idle"
  BY DEF Init, T!Init
<1>5. QED  BY <1>1, <1>3, <1>4 DEF PodInv, T!Checking

\* The pods' states in a step of the controller or a failing pod: one pod
\* changes its state.
LEMMA OnePodMoves ==
  ASSUME PodInv, NEW p \in K!Pod, Control(p) \/ PodFails(p)
  PROVE  \E x \in K!State : state' = [state EXCEPT ![p] = x]
BY DEF Control, PodFails, K!Control, K!CreatePod, K!PodReady, K!RollOut, K!PodFails, K!State

LEMMA LifecycleStep ==
  ASSUME PodInv, [Next]_vars
  PROVE  PodInv' /\ [TP!Next]_(TP!vars)
<1> USE DEF T!clusterVars, TP!clusterVars, T!dbVars, TP!dbVars, T!serverVars,
        TP!serverVars, T!callVars, TP!callVars, T!metricVars, TP!metricVars,
        T!historyVars, TP!historyVars
<1>1. ASSUME NEW r \in T!Request, Serve(r)
      PROVE  PodInv' /\ [TP!Next]_(TP!vars)
  <2>1. T!Send(r) => TP!Send(r)
    BY SameLifecycle DEF T!Send, TP!Send
  <2>2. T!Start(r) => TP!Start(r)
    <3>1. T!Facts(Healthy, leader) = TP!Facts(Healthy, leader) /\ T!Busy = TP!Busy
      BY SameLifecycle
    <3>2. T!Cardinality(T!Busy) = TP!Cardinality(TP!Busy)
      BY <3>1 DEF T!Cardinality, TP!Cardinality
    <3>3. QED  BY <3>1, <3>2 DEF T!Start, TP!Start
  <2>3. T!Handle(r) => TP!Handle(r)
    <3>1. T!CheckUnconfigured(r) => TP!CheckUnconfigured(r)
      BY SameLifecycle DEF T!CheckUnconfigured, TP!CheckUnconfigured
    <3>1a. T!ClientRaises(r) => TP!ClientRaises(r)
      BY DEF T!ClientRaises, TP!ClientRaises
    <3>2. T!CheckPrimary(r) => TP!CheckPrimary(r)
      BY DEF T!CheckPrimary, TP!CheckPrimary, T!ReadFlag, TP!ReadFlag, T!PRIMARY_POD,
         TP!PRIMARY_POD
    <3>3. T!CheckReplica(r) => TP!CheckReplica(r)
      BY DEF T!CheckReplica, TP!CheckReplica, T!ReadFlag, TP!ReadFlag, T!REPLICA_POD,
         TP!REPLICA_POD
    <3>4. T!CheckStorage(r) => TP!CheckStorage(r)
      BY SameLifecycle DEF T!CheckStorage, TP!CheckStorage, T!ReadFlag, TP!ReadFlag,
         T!PRIMARY_PVC, TP!PRIMARY_PVC
    <3>5. T!CheckRaises(r) => TP!CheckRaises(r)
      BY SameLifecycle DEF T!CheckRaises, TP!CheckRaises
    <3>6. T!ClusterStatus(r) => TP!ClusterStatus(r)
      BY DEF T!ClusterStatus, TP!ClusterStatus
    <3>7. /\ T!CreateTenantSchema(r) => TP!CreateTenantSchema(r)
          /\ T!DeleteTenantSchema(r) => TP!DeleteTenantSchema(r)
      BY DEF T!CreateTenantSchema, TP!CreateTenantSchema, T!DeleteTenantSchema,
         TP!DeleteTenantSchema, T!SendToDb, TP!SendToDb
    <3>8. T!Receive(r) => TP!Receive(r)
      BY SameLifecycle DEF T!Receive, TP!Receive, T!Succeeded, TP!Succeeded, T!Failed, TP!Failed
    <3>9. T!RpcError(r) => TP!RpcError(r)
      BY SameLifecycle DEF T!RpcError, TP!RpcError, T!Failed, TP!Failed
    <3>10. QED
      BY <3>1, <3>1a, <3>2, <3>3, <3>4, <3>5, <3>6, <3>7, <3>8, <3>9 DEF T!Handle, TP!Handle
  <2>4. T!DbCommit(r) => TP!DbCommit(r)
    BY DEF T!DbCommit, TP!DbCommit
  <2>5. T!DbRefuse(r) => TP!DbRefuse(r)
    BY DEF T!DbRefuse, TP!DbRefuse
  <2>6. TP!Next
    BY <1>1, <2>1, <2>2, <2>3, <2>4, <2>5, SameLifecycle DEF Serve, TP!Next
  <2>7. PodInv'
    <3>1. UNCHANGED <<state, leader>>
      BY <1>1 DEF Serve, podVars, T!Send, T!Start, T!Handle, T!CheckUnconfigured, T!ClientRaises,
         T!CheckPrimary, T!CheckReplica, T!CheckStorage, T!CheckRaises, T!ClusterStatus,
         T!CreateTenantSchema, T!DeleteTenantSchema, T!SendToDb, T!Receive, T!RpcError,
         T!DbCommit, T!DbRefuse
    <3>2. Healthy' = Healthy
      BY <3>1 DEF Healthy
    <3> DEFINE now == T!Facts(Healthy, leader)
    <3>3. now' = now
      BY <3>1, <3>2 DEF T!Facts
    <3> HIDE DEF now
    <3>4. CASE T!Start(r)
      <4>1. witness' = [witness EXCEPT ![r] = now]
        BY <3>4 DEF T!Start, now
      <4>2. DOMAIN pc' = T!Request /\ \A q \in T!Request : q # r => pc'[q] = pc[q]
        BY <3>4 DEF T!Start, PodInv
      <4>3. /\ witness' = [q \in T!Request |-> witness'[q]]
            /\ witness'[r] = now /\ \A q \in T!Request : q # r => witness'[q] = witness[q]
        BY <4>1 DEF PodInv
      <4>4. \A q \in T!Request : pc'[q] \in T!Checking => now \subseteq witness'[q]
        BY <4>2, <4>3 DEF PodInv, now
      <4>5. QED  BY <3>1, <3>3, <4>2, <4>3, <4>4 DEF PodInv, now
    <3>5. CASE ~T!Start(r)
      <4>1. UNCHANGED witness
        BY <1>1, <3>5 DEF Serve, T!Send, T!Handle, T!CheckUnconfigured, T!ClientRaises,
           T!CheckPrimary, T!CheckReplica, T!CheckStorage, T!CheckRaises, T!ClusterStatus,
           T!CreateTenantSchema, T!DeleteTenantSchema, T!SendToDb, T!Receive, T!RpcError,
           T!DbCommit, T!DbRefuse
      <4>2. ASSUME NEW y, pc' = [pc EXCEPT ![r] = y],
                   y \in T!Checking => pc[r] \in T!Checking
            PROVE  PodInv'
        <5>1. /\ DOMAIN pc' = T!Request
              /\ \A q \in T!Request : pc'[q] \in T!Checking => pc[q] \in T!Checking
          BY <4>2 DEF PodInv
        <5>2. \A q \in T!Request : pc'[q] \in T!Checking => now \subseteq witness'[q]
          BY <4>1, <5>1 DEF PodInv, now
        <5>3. QED  BY <3>1, <3>3, <4>1, <5>1, <5>2 DEF PodInv, now
      <4>3. CASE UNCHANGED pc
        BY <3>1, <3>3, <4>1, <4>3 DEF PodInv, now
      <4>4. CASE T!Send(r)
        BY <4>2, <4>4 DEF T!Send, T!Checking
      <4>5. CASE T!DbCommit(r) \/ T!DbRefuse(r)
        BY <4>3, <4>5 DEF T!DbCommit, T!DbRefuse
      <4>6. ASSUME NEW a, T!Reply(r, a) PROVE PodInv'
        BY <4>2, <4>6 DEF T!Reply, T!Checking
      <4>7. CASE T!CheckUnconfigured(r) \/ T!ClientRaises(r) \/ T!CheckStorage(r)
        BY <4>2, <4>6, <4>7 DEF T!CheckUnconfigured, T!ClientRaises, T!CheckStorage, T!Checking
      <4>8. CASE T!CheckPrimary(r) \/ T!CheckReplica(r)
        BY <4>2, <4>8 DEF T!CheckPrimary, T!CheckReplica, T!Checking
      <4>9. CASE T!CheckRaises(r) \/ T!Receive(r) \/ T!RpcError(r)
        BY <4>6, <4>9 DEF T!CheckRaises, T!Receive, T!RpcError
      <4>10. CASE T!ClusterStatus(r) \/ T!CreateTenantSchema(r) \/ T!DeleteTenantSchema(r)
        BY <4>2, <4>10 DEF T!ClusterStatus, T!CreateTenantSchema, T!DeleteTenantSchema,
           T!SendToDb, T!Checking
      <4>11. QED
        BY <1>1, <3>5, <4>4, <4>5, <4>7, <4>8, <4>9, <4>10 DEF Serve, T!Handle
    <3>6. QED  BY <3>4, <3>5
  <2>8. QED  BY <2>6, <2>7
<1>2. ASSUME UNCHANGED <<tenantVars, leader>>, T!Observe(Healthy', leader),
             NEW p \in K!Pod, NEW x \in K!State, state' = [state EXCEPT ![p] = x]
      PROVE  PodInv' /\ [TP!Next]_(TP!vars)
  <2>1. state \in [K!Pod -> K!State] /\ state' \in [K!Pod -> K!State]
    BY <1>2 DEF PodInv
  <2> DEFINE now == T!Facts(Healthy', leader)
  <2>2. UNCHANGED pc /\ now = T!Facts(Healthy, leader)'
    BY <1>2 DEF tenantVars, T!Facts
  <2> HIDE DEF now
  <2>3. witness' = [r \in T!Request |-> IF pc[r] \in T!Checking THEN witness[r] \cup now
                                                                ELSE witness[r]]
    BY <1>2 DEF T!Observe, now
  <2>4. PodInv'
    <3>1. witness' = [r \in T!Request |-> witness'[r]]
      BY <2>3
    <3>2. \A r \in T!Request : pc[r] \in T!Checking => now \subseteq witness'[r]
      BY <2>3
    <3>3. DOMAIN pc' = T!Request
      BY <2>2 DEF PodInv
    <3>4. \A r \in T!Request :
            pc'[r] \in T!Checking => T!Facts(Healthy, leader)' \subseteq witness'[r]
      BY <2>2, <3>2
    <3>5. QED  BY <2>1, <3>1, <3>3, <3>4 DEF PodInv
\* The pod becomes healthy, stops being so, or nothing that is read changes.
  <2>5. CASE Healthy' = Healthy
    <3>1. now = T!Facts(Healthy, leader)
      BY <2>5 DEF now
    <3>2. \A r \in T!Request : witness'[r] = witness[r]
      BY <2>3, <3>1 DEF PodInv
    <3>3. witness' = [r \in T!Request |-> witness[r]]
      BY <2>3, <3>2
    <3>4. UNCHANGED witness
      BY <3>3 DEF PodInv
    <3>5. QED  BY <1>2, <2>4, <2>5, <3>4 DEF tenantVars, TP!vars
  <2>6. CASE Healthy' # Healthy
    <3>1. Healthy' = IF p \in Healthy THEN Healthy \ {p} ELSE Healthy \cup {p}
      <4>1. \A q \in K!Pod \ {p} : state'[q] = state[q]
        BY <1>2, <2>1
      <4>2. \A o : o # p => (o \in Healthy' <=> o \in Healthy)
        BY <2>1, <4>1 DEF Healthy
      <4>3. p \in Healthy' <=> p \notin Healthy
        BY <2>6, <4>2
      <4>4. QED  BY <4>2, <4>3
    <3>2. TP!ObjectChanges(p)
      BY <1>2, <3>1, SameLifecycle DEF TP!ObjectChanges, tenantVars
    <3>3. p \in TP!ClusterObject
      BY DEF K!Pod, TP!ClusterObject, TP!Pod, TP!PRIMARY_POD, TP!REPLICA_POD
    <3>4. QED  BY <2>4, <3>2, <3>3 DEF TP!Next
  <2>7. QED  BY <2>5, <2>6
<1>3. ASSUME NEW p \in K!Pod, Control(p) \/ PodFails(p)
      PROVE  PodInv' /\ [TP!Next]_(TP!vars)
  <2>1. UNCHANGED <<tenantVars, leader>> /\ T!Observe(Healthy', leader)
    BY <1>3 DEF Control, PodFails
  <2>2. QED  BY <1>2, <1>3, <2>1, OnePodMoves
<1>4. ASSUME NEW p \in K!Pod, Failover(p)
      PROVE  PodInv' /\ [TP!Next]_(TP!vars)
  <2>1. /\ UNCHANGED state /\ Healthy' = Healthy /\ UNCHANGED pc
        /\ T!Observe(Healthy, p) /\ leader' = p
    BY <1>4 DEF Failover, podVars, T!Failover, Healthy
  <2>2. TP!Failover(p) /\ p \in TP!Pod
    BY <1>4, <2>1, SameLifecycle DEF Failover, T!Failover, TP!Failover, K!Pod, TP!Pod,
       TP!PRIMARY_POD, TP!REPLICA_POD
  <2>3. PodInv'
    BY <2>1 DEF PodInv, T!Observe, T!Facts
  <2>4. QED  BY <2>2, <2>3 DEF TP!Next
<1>5. ASSUME UNCHANGED <<podVars, tenantVars, leader, witness>>
      PROVE  PodInv' /\ [TP!Next]_(TP!vars)
  <2>1. Healthy' = Healthy
    BY <1>5 DEF podVars, Healthy
  <2>2. UNCHANGED TP!vars
    BY <1>5, <2>1 DEF tenantVars, TP!vars
  <2>3. PodInv'
    BY <1>5, <2>1 DEF podVars, tenantVars, PodInv, T!Facts
  <2>4. QED  BY <2>2, <2>3
<1>6. ASSUME (\E c \in Consumer : Scale(c)) \/ (\E p \in wire : StorePatch(p))
      PROVE  PodInv' /\ [TP!Next]_(TP!vars)
  BY <1>5, <1>6 DEF Scale, StorePatch
<1>7. CASE UNCHANGED vars
  BY <1>5, <1>7 DEF vars
<1>8. QED  BY <1>1, <1>3, <1>4, <1>6, <1>7 DEF Next

LEMMA PodInductive == Spec => []PodInv
<1>1. PodInv /\ [Next]_vars => PodInv'
  BY LifecycleStep
<1>2. QED  BY <1>1, LifecycleInit, PTL DEF Spec

\* The gRPC handlers behave in the composition as in TenantLifecycle, where the
\* pods fail and recover at any time.
THEOREM LifecycleImplemented == Spec => TP!Spec
<1>1. PodInv /\ [Next]_vars => [TP!Next]_(TP!vars)
  BY LifecycleStep
<1>2. QED  BY <1>1, LifecycleInit, PodInductive, PTL DEF Spec, TP!Spec

(***************************************************************************)
(* What the parts promise holds of the whole                               *)
(***************************************************************************)

LEMMA ScalingPromises ==
  Spec => /\ [](SP!TypeOK /\ SP!ResourcesBounded)
          /\ []SP!NoMixedResources /\ []SP!OutcomeHolds /\ []SP!PatchesCounted
          /\ [](\A s \in stores : SP!Explained(s))
<1>1. Event \subseteq [complete : BOOLEAN, action : {"scale_up", "scale_down", "unknown"},
                       cpu : SP!CpuQuantity, memory : SP!MemoryQuantity]
  BY EventsAssumption DEF S!CpuQuantity, SP!CpuQuantity, S!MemoryQuantity, SP!MemoryQuantity
<1>2. Simulator \subseteq Consumer
  BY EventsAssumption
<1>3. MaxEvents \in Nat /\ 0 \in Nat
  BY BoundsAssumption
<1>4. SP!Spec => []SP!TypeOK
  BY <1>1, <1>2, <1>3, SP!TypeCorrect
<1>5. SP!Spec => []SP!ResourcesBounded
  BY <1>1, <1>2, <1>3, SP!Bounded
<1>6. SP!Spec => []SP!NoMixedResources
  BY <1>1, <1>2, <1>3, SP!OneRecommendation
<1>7. SP!Spec => []SP!OutcomeHolds
  BY <1>1, <1>2, <1>3, SP!OutcomeTruthful
<1>8. SP!Spec => []SP!PatchesCounted
  BY <1>1, <1>2, <1>3, SP!PatchesAccounted
<1>9. SP!Spec => [](\A s \in stores : SP!Explained(s))
  BY <1>1, <1>2, <1>3, SP!StoresExplained
<1>10. QED  BY <1>4, <1>5, <1>6, <1>7, <1>8, <1>9, ScalingImplemented, PTL

LEMMA LifecyclePromises ==
  Spec => /\ [](TP!TypeOK /\ TP!ProgressInv)
          /\ []TP!CreateNeedsHealthyReads /\ []TP!SettledAnswerHolds
          /\ []TP!CountersMatchAnswers /\ TP!ImplementsService
<1>1. ProvisionCall \cap TerminateCall = {} /\ SchemaOf \in [TP!Request -> Tenant]
  BY CallsAssumption DEF TP!Request
<1>2. /\ MaxWorkers \in Nat \ {0} /\ 0 \in Nat /\ AllowDev \in BOOLEAN
      /\ K!Pod \subseteq TP!ClusterObject
  BY CallsAssumption, BoundsAssumption DEF K!Pod, TP!ClusterObject, TP!Pod,
     TP!PRIMARY_POD, TP!REPLICA_POD
<1>3. TP!Spec => []TP!TypeOK
  BY <1>1, <1>2, TP!TypeCorrect
<1>4. TP!Spec => []TP!ProgressInv
  BY <1>1, <1>2, TP!AnswersFollowDatabase
<1>5. TP!Spec => []TP!CreateNeedsHealthyReads
  BY <1>1, <1>2, TP!CreateAfterHealthyReads
<1>6. TP!Spec => []TP!SettledAnswerHolds
  BY <1>1, <1>2, TP!DefinitiveAnswersHold
<1>7. TP!Spec => []TP!CountersMatchAnswers
  BY <1>1, <1>2, TP!CountersRight
<1>8. TP!Spec => TP!ImplementsService
  BY <1>1, <1>2, TP!ServiceImplemented
<1>9. QED  BY <1>3, <1>4, <1>5, <1>6, <1>7, <1>8, LifecycleImplemented, PTL

\* Handlers and consumers, which share the pods, keep what each promises alone:
\* the StatefulSet has all of one recommendation's resources, within bounds, what
\* a consumer reports of it is true, and a running consumer has counted each of
\* its stored patches it had the answer of; a schema is created only after a healthy
\* read of each object, a definitive answer holds until another call of its
\* tenant, each answer is counted once, and the service the backend sees is
\* that of TenantService.
THEOREM PromisesKept ==
  Spec => /\ []SP!ResourcesBounded /\ []SP!NoMixedResources
          /\ []SP!OutcomeHolds /\ []SP!PatchesCounted
          /\ []TP!CreateNeedsHealthyReads /\ []TP!SettledAnswerHolds
          /\ []TP!CountersMatchAnswers /\ TP!ImplementsService
BY ScalingPromises, LifecyclePromises, PTL

(***************************************************************************)
(* Types                                                                   *)
(***************************************************************************)

\* Every pod is made from a template the consumers' bounds allow.
LEMMA TypeStep ==
  ASSUME PodInv, SP!TypeOK, SP!ResourcesBounded, TypeOK, [Next]_vars
  PROVE  TypeOK'
<1>1. sts \in PodTemplate
  BY DEF SP!TypeOK, SP!ResourceSet, SP!ResourcesBounded, PodTemplate, SP!MIN_CPU, S!MIN_CPU,
     SP!MAX_CPU, S!MAX_CPU, SP!MIN_MEMORY, S!MIN_MEMORY, SP!MAX_MEMORY, S!MAX_MEMORY
<1> HIDE DEF PodTemplate
<1>2. PodInv'
  BY LifecycleStep
<1>3. state' \in [K!Pod -> K!State]
  BY <1>2 DEF PodInv
<1>4. runs' \in [K!Pod -> PodTemplate]
  <2>1. CASE UNCHANGED runs
    BY <2>1 DEF TypeOK
  <2>2. ASSUME NEW p \in K!Pod, Control(p) \/ PodFails(p)
        PROVE  runs' \in [K!Pod -> PodTemplate]
    <3>1. runs' = runs \/ runs' = [runs EXCEPT ![p] = sts]
      BY <2>2 DEF Control, PodFails, K!Control, K!CreatePod, K!PodReady, K!RollOut, K!PodFails
    <3>2. QED  BY <1>1, <3>1 DEF TypeOK
  <2>3. QED
    BY <2>1, <2>2 DEF Next, Serve, Scale, StorePatch, Failover, podVars, vars
<1>5. failures' \in 0 .. MaxFailures
  <2>1. failures' = failures \/ (failures < MaxFailures /\ failures' = failures + 1)
    BY DEF Next, Serve, Scale, StorePatch, Control, PodFails, Failover, vars
  <2>2. QED  BY <2>1, BoundsAssumption DEF TypeOK
<1>6. disturbed' \subseteq ProvisionCall
  BY DEF TypeOK, Next, NoteDisturbed, vars
<1>7. QED  BY <1>3, <1>4, <1>5, <1>6 DEF TypeOK

\* The pods, what they run and the histories have the shapes declared: no pod
\* ever runs a template outside the bounds of scaling_consumer.py:10-13.
THEOREM TypeCorrect == Spec => []TypeOK
<1>1. Init => TypeOK
  BY BoundsAssumption DEF Init, TypeOK, K!State, PodTemplate, S!Manifest, S!MIN_CPU, S!MAX_CPU,
     S!MIN_MEMORY, S!MAX_MEMORY
<1>2. PodInv /\ SP!TypeOK /\ SP!ResourcesBounded /\ TypeOK /\ [Next]_vars => TypeOK'
  BY TypeStep
<1>3. QED  BY <1>1, <1>2, PodInductive, ScalingPromises, PTL DEF Spec

(***************************************************************************)
(* The capacity check of a healthy cluster                                 *)
(***************************************************************************)

(* While nothing disturbs a check, both pods are ready and each of its      *)
(* reads has found what it asked for.                                       *)
SeenInv ==
  \A r \in ProvisionCall :
    /\ pc[r] \in {"idle", "queued", "check_primary"} => seen[r] = {}
    /\ r \notin disturbed =>
         /\ pc[r] \in T!Checking => K!AllReady
         /\ pc[r] = "check_replica" => seen[r] = {"postgres-0"}
         /\ pc[r] = "check_storage" => seen[r] = {"postgres-0", "postgres-1"}

\* How a step changes where a call stands and the flags its check has set.
Stays(r) == pc'[r] = pc[r] /\ seen'[r] = seen[r]
Enters(r) == /\ pc[r] \in {"idle", "queued"} /\ seen'[r] = seen[r]
             /\ pc'[r] \in {"queued", "check_primary", "delete"}
Reads(r, from, o, to) ==
  pc[r] = from /\ pc'[r] = to /\ seen'[r] = IF o \in Healthy THEN seen[r] \cup {o} ELSE seen[r]
Leaves(r) == pc'[r] \notin {"idle", "queued"} \cup T!Checking

LEMMA CheckMoves ==
  ASSUME pc \in [T!Request -> TP!PC], seen \in [T!Request -> SUBSET TP!Checked],
         [Next]_vars, NEW r \in ProvisionCall
  PROVE  \/ Stays(r) \/ Enters(r) \/ Leaves(r)
         \/ Reads(r, "check_primary", "postgres-0", "check_replica")
         \/ Reads(r, "check_replica", "postgres-1", "check_storage")
<1>1. r \in T!Request
  BY DEF T!Request
<1>2. CASE UNCHANGED <<pc, seen>>
  BY <1>2 DEF Stays
<1> USE DEF T!callVars, T!metricVars, T!historyVars
<1>3. ASSUME NEW q \in T!Request, Serve(q), q # r PROVE Stays(r)
  <2>1. pc' = pc \/ \E y : pc' = [pc EXCEPT ![q] = y]
    BY <1>3 DEF Serve, T!Send, T!Start, T!Handle, T!CheckUnconfigured, T!ClientRaises, T!CheckPrimary,
       T!CheckReplica, T!CheckStorage, T!CheckRaises, T!ClusterStatus,
       T!CreateTenantSchema, T!DeleteTenantSchema, T!SendToDb, T!Receive, T!RpcError,
       T!DbCommit, T!DbRefuse, T!Reply
  <2>2. seen' = seen \/ \E y : seen' = [seen EXCEPT ![q] = y]
    BY <1>3 DEF Serve, T!Send, T!Start, T!Handle, T!CheckUnconfigured, T!ClientRaises, T!CheckPrimary,
       T!CheckReplica, T!CheckStorage, T!CheckRaises, T!ClusterStatus, T!ReadFlag,
       T!CreateTenantSchema, T!DeleteTenantSchema, T!SendToDb, T!Receive, T!RpcError,
       T!DbCommit, T!DbRefuse
  <2>3. pc'[r] = pc[r]
    BY <1>1, <1>3, <2>1
  <2>4. seen'[r] = seen[r]
    BY <1>1, <1>3, <2>2
  <2>5. QED  BY <2>3, <2>4 DEF Stays
<1>4. CASE Serve(r)
  <2>1. CASE T!Send(r)
    BY <1>1, <2>1 DEF T!Send, Enters
  <2>2. CASE T!Start(r)
    BY <1>1, <2>2 DEF T!Start, Enters
  <2>3. CASE T!CheckPrimary(r)
    <3>1. pc[r] = "check_primary" /\ pc'[r] = "check_replica"
      BY <1>1, <2>3 DEF T!CheckPrimary
    <3>2. seen'[r] = IF "postgres-0" \in Healthy THEN seen[r] \cup {"postgres-0"} ELSE seen[r]
      BY <1>1, <2>3 DEF T!CheckPrimary, T!ReadFlag, T!PRIMARY_POD
    <3>3. QED  BY <3>1, <3>2 DEF Reads
  <2>4. CASE T!CheckReplica(r)
    <3>1. pc[r] = "check_replica" /\ pc'[r] = "check_storage"
      BY <1>1, <2>4 DEF T!CheckReplica
    <3>2. seen'[r] = IF "postgres-1" \in Healthy THEN seen[r] \cup {"postgres-1"} ELSE seen[r]
      BY <1>1, <2>4 DEF T!CheckReplica, T!ReadFlag, T!REPLICA_POD
    <3>3. QED  BY <3>1, <3>2 DEF Reads
  <2>5. CASE \/ T!CheckUnconfigured(r) \/ T!ClientRaises(r) \/ T!CheckStorage(r)
             \/ T!CheckRaises(r) \/ T!ClusterStatus(r) \/ T!Receive(r) \/ T!RpcError(r)
    BY <1>1, <2>5 DEF T!CheckUnconfigured, T!ClientRaises, T!CheckStorage, T!CheckRaises, T!ClusterStatus,
       T!Receive, T!RpcError, T!Reply, Leaves, T!Checking
  <2>6. CASE T!CreateTenantSchema(r) \/ T!DeleteTenantSchema(r)
    BY <1>1, <2>6 DEF T!CreateTenantSchema, T!DeleteTenantSchema, T!SendToDb, Leaves, T!Checking
  <2>7. CASE T!DbCommit(r) \/ T!DbRefuse(r)
    BY <2>7 DEF T!DbCommit, T!DbRefuse, Stays
  <2>8. QED
    BY <1>4, <2>1, <2>2, <2>3, <2>4, <2>5, <2>6, <2>7 DEF Serve, T!Handle
<1>5. CASE ~\E q \in T!Request : Serve(q)
  BY <1>2, <1>5 DEF Next, Scale, StorePatch, Control, PodFails, Failover, T!Failover, tenantVars, vars
<1>6. QED  BY <1>3, <1>4, <1>5

LEMMA SeenStep ==
  ASSUME PodInv, TP!TypeOK, SeenInv, [Next]_vars
  PROVE  SeenInv'
<1>1. pc \in [T!Request -> TP!PC] /\ seen \in [T!Request -> SUBSET TP!Checked]
  BY SameLifecycle DEF TP!TypeOK
<1>2. ASSUME NEW r \in ProvisionCall
      PROVE  /\ pc'[r] \in {"idle", "queued", "check_primary"} => seen'[r] = {}
             /\ r \notin disturbed' =>
                  /\ pc'[r] \in T!Checking => K!AllReady'
                  /\ pc'[r] = "check_replica" => seen'[r] = {"postgres-0"}
                  /\ pc'[r] = "check_storage" => seen'[r] = {"postgres-0", "postgres-1"}
  <2>1. r \notin disturbed' => r \notin disturbed
    BY DEF Next, NoteDisturbed, vars
  <2>2. r \notin disturbed' /\ pc'[r] \in T!Checking => K!AllReady'
    <3>1. CASE NoteDisturbed
      BY <3>1 DEF NoteDisturbed
    <3>2. CASE UNCHANGED vars
      BY <3>2 DEF vars, tenantVars, podVars, SeenInv, K!AllReady
    <3>3. QED  BY <3>1, <3>2 DEF Next
  <2>3. K!AllReady => "postgres-0" \in Healthy /\ "postgres-1" \in Healthy
    BY HealthyPods DEF PodInv, K!AllReady, K!Pod
  <2>4. \/ Stays(r) \/ Enters(r) \/ Leaves(r)
        \/ Reads(r, "check_primary", "postgres-0", "check_replica")
        \/ Reads(r, "check_replica", "postgres-1", "check_storage")
    BY <1>1, CheckMoves
  <2>5. /\ pc'[r] \in {"idle", "queued", "check_primary"} => seen'[r] = {}
        /\ r \notin disturbed' /\ pc'[r] = "check_replica" => seen'[r] = {"postgres-0"}
        /\ r \notin disturbed' /\ pc'[r] = "check_storage"
             => seen'[r] = {"postgres-0", "postgres-1"}
    BY <2>1, <2>3, <2>4 DEF SeenInv, Stays, Enters, Reads, Leaves, T!Checking
  <2>6. QED  BY <2>2, <2>5
<1>3. QED  BY <1>2 DEF SeenInv

\* The capacity check refuses no one on a cluster that stays healthy while it
\* runs, although it reads it in three separate calls
\* (provisioner.py:128, 147 and 167).
THEOREM Refused == Spec => RefusedOnlyWhenDisturbed
<1>1. Init => SeenInv
  BY DEF Init, SeenInv, T!Init, T!Request, T!Checking
<1>2. PodInv /\ TP!TypeOK /\ SeenInv /\ [Next]_vars => SeenInv'
  BY SeenStep
<1>3. PodInv /\ TP!TypeOK /\ TP!ProgressInv /\ SeenInv /\ [Next]_vars =>
        [\A r \in ProvisionCall :
           T!CheckStorage(r) /\ answer'[r] = "FAILED_capacity" => r \in disturbed]_vars
  <2> SUFFICES ASSUME TP!TypeOK, TP!ProgressInv, SeenInv, NEW r \in ProvisionCall,
                      T!CheckStorage(r), r \notin disturbed
               PROVE  answer'[r] # "FAILED_capacity"
    OBVIOUS
  <2>1. r \in T!Request /\ r \in TP!Request
    BY DEF T!Request, TP!Request
  <2>2. pc[r] = "check_storage" /\ seen[r] = {"postgres-0", "postgres-1"}
    BY DEF T!CheckStorage, SeenInv
  <2>3. seen'[r] = T!Checked
    <3>1. "postgres-data-postgres-0" \in Healthy
      BY DEF Healthy
    <3>2. seen'[r] = seen[r] \cup {"postgres-data-postgres-0"}
      BY <2>1, <3>1 DEF T!CheckStorage, T!ReadFlag, T!PRIMARY_PVC, TP!TypeOK
    <3>3. QED
      BY <2>2, <3>2 DEF T!Checked, T!PRIMARY_POD, T!REPLICA_POD, T!PRIMARY_PVC
  <2>4. UNCHANGED answer
    BY <2>3 DEF T!CheckStorage
  <2>5. answer[r] = "none"
    BY <2>1, <2>2 DEF TP!ProgressInv
  <2>6. QED  BY <2>4, <2>5
<1>4. QED
  BY <1>1, <1>2, <1>3, PodInductive, LifecyclePromises, PTL DEF Spec, RefusedOnlyWhenDisturbed

(***************************************************************************)
(* What restarts the pods                                                  *)
(***************************************************************************)

(* Until a pod fails or a patch is stored the rolling update has nothing to *)
(* do.                                                                      *)
RestartInv ==
  failures = 0 /\ stores = {} =>
    K!AllReady /\ disturbed = {} /\ \A p \in K!Pod : runs[p] = sts

LEMMA RestartStep ==
  ASSUME failures \in Nat, state \in [K!Pod -> K!State], RestartInv, [Next]_vars
  PROVE  RestartInv'
<1>1. ASSUME UNCHANGED <<state, runs, sts, failures, stores>> PROVE RestartInv'
  <2>1. disturbed' = disturbed \/ NoteDisturbed
    BY DEF Next, vars
  <2>2. ASSUME failures = 0, stores = {}
        PROVE  K!AllReady' /\ disturbed' = {} /\ \A p \in K!Pod : runs'[p] = sts'
    <3>1. K!AllReady /\ disturbed = {} /\ \A p \in K!Pod : runs[p] = sts
      BY <2>2 DEF RestartInv
    <3>2. K!AllReady' /\ \A p \in K!Pod : runs'[p] = sts'
      BY <1>1, <3>1 DEF K!AllReady
    <3>3. QED  BY <2>1, <3>1, <3>2 DEF NoteDisturbed
  <2>3. QED  BY <1>1, <2>2 DEF RestartInv
<1>2. ASSUME NEW c \in Consumer, Scale(c) PROVE RestartInv'
  <2>1. UNCHANGED <<sts, stores>>
    BY <1>2 DEF Scale, S!HandleEvent, S!ProcessEnds, S!Receive, S!ReadCurrent,
       S!SkipDuplicate, S!BuildRaises, S!SendPatch, S!PatchAnswered, S!PatchRefused,
       S!PatchUnanswered, S!storeVars
  <2>2. QED  BY <1>1, <1>2, <2>1 DEF Scale, podVars
<1>3. ASSUME NEW p \in wire, StorePatch(p) PROVE RestartInv'
  <2>1. stores' # {}
    BY <1>3 DEF StorePatch, S!StorePatch
  <2>2. QED  BY <2>1 DEF RestartInv
<1>4. ASSUME NEW p \in K!Pod, Control(p) PROVE RestartInv'
  <2>1. ~(K!AllReady /\ runs[p] = sts)
    BY <1>4 DEF Control, K!Control, K!CreatePod, K!PodReady, K!RollOut, K!AllReady
  <2>2. UNCHANGED <<failures, stores>>
    BY <1>4 DEF Control, scalingVars
  <2>3. QED  BY <2>1, <2>2 DEF RestartInv
<1>5. ASSUME NEW p \in K!Pod, PodFails(p) PROVE RestartInv'
  BY <1>5 DEF PodFails, RestartInv
<1>6. ASSUME UNCHANGED <<podVars, scalingVars, failures>> PROVE RestartInv'
  BY <1>1, <1>6 DEF podVars, scalingVars
<1>7. QED  BY <1>2, <1>3, <1>4, <1>5, <1>6 DEF Next, Serve, Failover, vars

\* A pod is down, and a check disturbed, only after a failure of its own or a
\* stored patch, which the metrics of the consumer that sent it show unless it
\* waits for the answer, never had one or has ended (scaling_consumer.py:118-129
\* and 156-167).
THEOREM RestartsCaused == Spec => []RestartsExplained
<1>1. Init => RestartInv
  BY DEF Init, RestartInv, K!AllReady, S!Init
<1>2. TypeOK => failures \in Nat
  BY BoundsAssumption DEF TypeOK
<1>3. failures \in Nat /\ PodInv /\ RestartInv /\ [Next]_vars => RestartInv'
  BY RestartStep DEF PodInv
<1>4. ASSUME failures \in Nat, RestartInv, \A s \in stores : SP!Explained(s)
      PROVE  RestartsExplained
  <2>1. ASSUME ~K!AllReady \/ disturbed # {}, ~(failures > 0)
        PROVE  \E s \in stores : SP!Explained(s)
    BY <1>4, <2>1 DEF RestartInv
  <2>2. QED  BY <2>1 DEF RestartsExplained, SP!Explained, Shown
<1>5. QED
  BY <1>1, <1>2, <1>3, <1>4, PodInductive, TypeCorrect, ScalingPromises, PTL DEF Spec
=============================================================================
