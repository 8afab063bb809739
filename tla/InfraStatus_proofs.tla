------------------------ MODULE InfraStatus_proofs ------------------------
(***************************************************************************)
(* Proofs about InfraStatus: any amount of write-ahead log, any number of  *)
(* calls, the cluster failing over at any moment of them.                  *)
(***************************************************************************)
EXTENDS InfraStatus, TLAPS

(* The cluster: a pod that is down leads nothing, two pods never lead at    *)
(* once, and the pod that follows is not ahead of the one that leads.       *)
ClusterInv ==
  /\ \A p \in Pod : ~up[p] => role[p] = "replica"
  /\ \A p \in Pod : role[p] = "master" => role[Other(p)] = "replica"
  /\ \A p \in Pod : role[p] = "master" /\ up[Other(p)] => wal[Other(p)] <= wal[p]

(* A call under way has witnessed the present, and nothing else if the      *)
(* cluster has held still.                                                  *)
WitnessInv ==
  pc # "idle" =>
    /\ Leaders \subseteq masters /\ Up \subseteq running /\ Pod \ Up \subseteq stopped
    /\ stable => masters = Leaders /\ stopped = Pod \ Up
    /\ patroni = UnknownPatroni

(* Between the two execs: what the first one printed was true of postgres-0 *)
(* then, and still is if the cluster has held still.                        *)
ExecInv ==
  pc = "exec1" =>
    /\ PRIMARY_POD \in running
    /\ output.role = "master" => PRIMARY_POD \in masters
    /\ prints = {output.prints}
    /\ stable =>
         /\ output.role = role[PRIMARY_POD]
         /\ output.location <= first[PRIMARY_POD]
         /\ output.prints = "all" =>
              /\ role[PRIMARY_POD] = "master" => output.location = first[PRIMARY_POD]
              /\ role[PRIMARY_POD] = "replica" => output.replayed_location = first[PRIMARY_POD]
         /\ up[PRIMARY_POD]
         /\ \A p \in Pod : first[p] <= wal[p]

(* What get_cluster_status has read so far of a cluster that holds still.   *)
ReportInv ==
  stable /\ ~apiFailed /\ stopped = {} =>
    /\ pc = "pod1" => phase[PRIMARY_POD] = "Running"
    /\ pc \in {"claims", "exec0", "exec1"} =>
         status.primary_status = "Running" /\ status.replica_status = "Running"

IInv ==
  /\ TypeOK /\ ClusterInv /\ WitnessInv /\ ExecInv /\ ReportInv
  /\ LeaderWitnessed /\ StableClusterReported /\ LagWithinCall

(***************************************************************************)
(* The cluster                                                             *)
(***************************************************************************)

LEMMA Pods ==
  /\ PRIMARY_POD \in Pod /\ REPLICA_POD \in Pod /\ PRIMARY_POD # REPLICA_POD
  /\ Other(PRIMARY_POD) = REPLICA_POD /\ Other(REPLICA_POD) = PRIMARY_POD
  /\ \A p \in Pod : Other(p) \in Pod /\ Other(p) # p /\ Other(Other(p)) = p
  /\ \A p \in Pod, q \in Pod : q = p \/ q = Other(p)
  /\ "unknown" \notin Pod
BY DEF Pod, PRIMARY_POD, REPLICA_POD, Other

LEMMA StreamingStep ==
  ASSUME ClusterTypeOK, ClusterInv, Streaming
  PROVE  /\ ClusterTypeOK' /\ ClusterInv' /\ UNCHANGED <<up, role>>
         /\ \A p \in Pod : wal[p] <= wal'[p]
<1>1. PICK p \in Pod : Write(p) \/ Replay(p)
  BY DEF Streaming
<1>2. UNCHANGED <<up, role>> /\ wal' = [wal EXCEPT ![p] = wal[p] + 1]
  BY <1>1 DEF Write, Replay
<1>3. wal[p] < MaxWal
  <2>1. CASE Write(p)
    BY <2>1 DEF Write
  <2>2. CASE Replay(p)
    BY <2>2, Pods, WalAssumption DEF Replay, ClusterTypeOK
  <2>3. QED  BY <1>1, <2>1, <2>2
<1>4. ClusterTypeOK'
  BY <1>2, <1>3, WalAssumption DEF ClusterTypeOK
<1>5. /\ \A q \in Pod : wal[q] <= wal'[q] /\ (q # p => wal'[q] = wal[q])
      /\ wal'[p] = wal[p] + 1
  BY <1>2 DEF ClusterTypeOK
<1>6. ASSUME NEW q \in Pod, role[q] = "master", up[Other(q)]
      PROVE  wal'[Other(q)] <= wal'[q]
  <2>1. wal[Other(q)] <= wal[q] /\ wal[q] \in Nat /\ wal[Other(q)] \in Nat
    BY <1>6, Pods, WalAssumption DEF ClusterInv, ClusterTypeOK
  <2>2. CASE q = p
    BY <1>5, <2>1, <2>2, Pods
  <2>3. CASE q = Other(p)
    <3>1. wal[p] < wal[q] /\ wal'[q] = wal[q] /\ Other(q) = p
      BY <1>1, <1>5, <1>6, <2>3, Pods DEF Write, Replay, Leaders, ClusterInv
    <3>2. QED  BY <1>5, <2>1, <3>1
  <2>4. QED  BY <2>2, <2>3, Pods
<1>7. QED  BY <1>2, <1>4, <1>5, <1>6 DEF ClusterInv

LEMMA FailingStep ==
  ASSUME ClusterTypeOK, ClusterInv, Failing
  PROVE  ClusterTypeOK' /\ ClusterInv'
<1>1. PICK p \in Pod : PodDown(p) \/ PodUp(p) \/ Demote(p) \/ Promote(p)
  BY DEF Failing
<1>2. /\ wal[p] \in 0 .. MaxWal /\ wal[Other(p)] \in 0 .. MaxWal /\ Other(p) \in Pod
      /\ 0 .. MaxWal \subseteq Nat
  BY Pods, WalAssumption DEF ClusterTypeOK
<1>3. ClusterTypeOK'
  BY <1>1, <1>2 DEF PodDown, PodUp, Demote, Promote, ClusterTypeOK
<1>4. CASE PodDown(p)
  BY <1>4, Pods DEF PodDown, ClusterInv, ClusterTypeOK
<1>5. CASE PodUp(p)
  <2>1. /\ UNCHANGED role /\ role[p] = "replica"
        /\ up'[p] /\ \A q \in Pod : q # p => up'[q] = up[q]
    <3>1. UNCHANGED role /\ up' = [up EXCEPT ![p] = TRUE] /\ ~up[p]
      BY <1>5 DEF PodUp
    <3>2. up \in [Pod -> BOOLEAN]
      BY DEF ClusterTypeOK
    <3>3. role[p] = "replica"
      BY <3>1 DEF ClusterInv
    <3>4. up'[p] /\ \A q \in Pod : q # p => up'[q] = up[q]
      BY <3>1, <3>2
    <3>5. QED  BY <3>1, <3>3, <3>4
  <2>2. wal'[Other(p)] = wal[Other(p)]
    BY <1>2, <1>5, Pods DEF PodUp, ClusterTypeOK
  <2>3. role[Other(p)] = "master" => wal'[p] <= wal[Other(p)]
    <3>1. CASE role[Other(p)] = "master" /\ wal[Other(p)] < wal[p]
      BY <1>2, <1>5, <3>1 DEF PodUp, Leaders, ClusterInv, ClusterTypeOK
    <3>2. CASE role[Other(p)] = "master" /\ ~(wal[Other(p)] < wal[p])
      BY <1>2, <1>5, <3>2 DEF PodUp
    <3>3. QED  BY <3>1, <3>2
  <2>4. ASSUME NEW q \in Pod, role'[q] = "master", up'[Other(q)]
        PROVE  wal'[Other(q)] <= wal'[q]
    BY <2>1, <2>2, <2>3, <2>4, Pods
  <2>5. ASSUME NEW q \in Pod
        PROVE  /\ ~up'[q] => role'[q] = "replica"
               /\ role'[q] = "master" => role'[Other(q)] = "replica"
    BY <2>1, Pods DEF ClusterInv
  <2>6. QED  BY <1>3, <2>4, <2>5 DEF ClusterInv
<1>6. CASE Demote(p)
  BY <1>6, Pods DEF Demote, Leaders, ClusterInv, ClusterTypeOK
<1>7. CASE Promote(p)
  <2>1. /\ role'[p] = "master" /\ role'[Other(p)] = "replica" /\ UNCHANGED up /\ up[p]
    BY <1>2, <1>7, Pods DEF Promote, Leaders, ClusterInv, ClusterTypeOK
  <2>2. up[Other(p)] => wal'[Other(p)] <= wal'[p]
    <3>1. CASE wal[p] < wal[Other(p)]
      BY <1>2, <1>7, <3>1, Pods DEF Promote, ClusterTypeOK
    <3>2. CASE ~(wal[p] < wal[Other(p)])
      BY <1>2, <1>7, <3>2 DEF Promote
    <3>3. QED  BY <3>1, <3>2
  <2>3. ASSUME NEW q \in Pod
        PROVE  /\ ~up'[q] => role'[q] = "replica"
               /\ role'[q] = "master" => role'[Other(q)] = "replica"
               /\ role'[q] = "master" /\ up'[Other(q)] => wal'[Other(q)] <= wal'[q]
    BY <2>1, <2>2, Pods
  <2>4. QED  BY <1>3, <2>3 DEF ClusterInv
<1>8. QED  BY <1>1, <1>3, <1>4, <1>5, <1>6, <1>7

\* The two kinds of change of the cluster, to the handler.
LEMMA ClusterStep ==
  ASSUME TypeOK, ClusterInv, ClusterStreams \/ ClusterFails
  PROVE  /\ ClusterTypeOK' /\ ClusterInv'
         /\ UNCHANGED <<k8sCore, pc, phase, status, output, patroni, apiFailed, prints, first, last>>
         /\ stable' => /\ stable
                       /\ pc # "idle" => /\ UNCHANGED <<up, role>>
                                         /\ \A p \in Pod : wal[p] <= wal'[p]
         /\ IF pc = "idle"
              THEN UNCHANGED <<masters, running, stopped, stable>>
              ELSE /\ masters' = masters \cup Leaders'
                   /\ running' = running \cup Up'
                   /\ stopped' = stopped \cup (Pod \ Up')
<1> USE DEF Witness, callVars, readVars
<1>1. CASE ClusterStreams
  <2>1. Streaming /\ ClusterTypeOK
    BY <1>1 DEF ClusterStreams, TypeOK
  <2>2. QED  BY <1>1, <2>1, StreamingStep DEF ClusterStreams, TypeOK
<1>2. CASE ClusterFails
  <2>1. Failing /\ ClusterTypeOK
    BY <1>2 DEF ClusterFails, TypeOK
  <2>2. QED  BY <1>2, <2>1, FailingStep DEF ClusterFails, TypeOK
<1>3. QED  BY <1>1, <1>2

(***************************************************************************)
(* Types                                                                   *)
(***************************************************************************)

\* What get_patroni_status makes of the two outputs.
LEMMA PatroniCases ==
  ASSUME NEW out0, NEW out1
  PROVE  /\ out0.role = "master" =>
              PatroniStatus(out0, out1) = Named(PRIMARY_POD, out0, out1)
         /\ out0.role # "master" /\ out1.role = "master" =>
              PatroniStatus(out0, out1) = Named(REPLICA_POD, out1, out0)
         /\ out0.role # "master" /\ out1.role # "master" =>
              PatroniStatus(out0, out1) = UnknownPatroni
BY DEF PatroniStatus

LEMMA OutputType ==
  ASSUME TypeOK, NEW p \in Pod, NEW printed \in Printout
  PROVE  PatroniOutput(p, printed) \in
           [role : {"none", "master", "replica"}, prints : Printout,
            location : 0 .. MaxWal, replayed_location : 0 .. MaxWal]
<1>1. /\ role[p] \in {"none", "master", "replica"} /\ wal[p] \in 0 .. MaxWal
      /\ 0 \in 0 .. MaxWal
  BY WalAssumption DEF TypeOK, ClusterTypeOK
<1>2. /\ (IF role[p] = "master" /\ printed = "all" THEN wal[p] ELSE 0) \in 0 .. MaxWal
      /\ (IF role[p] = "replica" /\ printed = "all" THEN wal[p] ELSE 0) \in 0 .. MaxWal
  BY <1>1
<1>3. QED  BY <1>1, <1>2 DEF PatroniOutput

\* max(0, leader - replica)
LEMMA LagType ==
  ASSUME NEW l, NEW r, l.location \in 0 .. MaxWal, r.replayed_location \in 0 .. MaxWal
  PROVE  /\ Lag(l, r) \in 0 .. MaxWal
         /\ Lag(l, r) <= l.location
         /\ l.location <= Lag(l, r) + r.replayed_location
         /\ \/ Lag(l, r) = 0
            \/ Lag(l, r) + r.replayed_location = l.location
BY WalAssumption DEF Lag

LEMMA NamedType ==
  ASSUME NEW l \in Pod, NEW leader, NEW replica,
         leader.location \in 0 .. MaxWal, replica.replayed_location \in 0 .. MaxWal
  PROVE  Named(l, leader, replica) \in
           [leader_pod : Pod \cup {"unknown"}, replica_pod : Pod \cup {"unknown"},
            lag_bytes : 0 .. MaxWal, patroni_healthy : BOOLEAN]
<1>1. Lag(leader, replica) \in 0 .. MaxWal /\ 0 \in 0 .. MaxWal /\ Other(l) \in Pod
  BY LagType, WalAssumption, Pods
<1>2. QED  BY <1>1 DEF Named

\* The answer when neither function has found out anything.
LEMMA DefaultTypes ==
  /\ UnknownStatus \in [primary_status : {"Running", "Pending", "Unknown"},
                        replica_status : {"Running", "Pending", "Unknown"},
                        pvcs_bound : BOOLEAN]
  /\ UnknownPatroni \in [leader_pod : Pod \cup {"unknown"},
                         replica_pod : Pod \cup {"unknown"},
                         lag_bytes : 0 .. MaxWal, patroni_healthy : BOOLEAN]
  /\ NoOutput \in [role : {"none", "master", "replica"}, prints : Printout,
                   location : 0 .. MaxWal, replayed_location : 0 .. MaxWal]
  /\ NoPhase \in [Pod -> {"Running", "Pending", "Unknown"}]
  /\ NoPosition \in [Pod -> 0 .. MaxWal]
<1>1. 0 \in 0 .. MaxWal
  BY WalAssumption
<1>2. QED
  BY <1>1 DEF UnknownStatus, UnknownPatroni, NoOutput, Printout, NoPhase, NoPosition

LEMMA TypeInit == Init => TypeOK /\ ClusterInv
<1> SUFFICES ASSUME Init PROVE TypeOK /\ ClusterInv
  OBVIOUS
<1>1. 0 \in 0 .. MaxWal
  BY WalAssumption
<1>2. ClusterTypeOK /\ ClusterInv
  BY <1>1, Pods DEF Init, ClusterInit, ClusterTypeOK, ClusterInv
<1>3. QED  BY <1>1, <1>2, DefaultTypes DEF Init, ClusterTypeOK, TypeOK

LEMMA TypeStep == TypeOK /\ ClusterInv /\ [Next]_vars => TypeOK' /\ ClusterInv'
<1> SUFFICES ASSUME TypeOK, ClusterInv, [Next]_vars PROVE TypeOK' /\ ClusterInv'
  OBVIOUS
<1> USE DEF callVars, instantVars, readVars, clusterState
<1>1. ASSUME UNCHANGED clusterState PROVE ClusterTypeOK' /\ ClusterInv'
  BY <1>1 DEF TypeOK, ClusterTypeOK, ClusterInv
<1>2. CASE Begin
  <2>1. Leaders \subseteq Pod /\ Up \subseteq Pod /\ Pod \ Up \subseteq Pod
    BY DEF Leaders, Up
  <2>2. QED  BY <1>1, <1>2, <2>1, DefaultTypes DEF Begin, TypeOK
<1>3. CASE Unconfigured \/ StatusRaises
  BY <1>1, <1>3, DefaultTypes DEF Unconfigured, StatusRaises, TypeOK
<1>4. CASE ReadPod0
  BY <1>1, <1>4 DEF ReadPod0, ReadPod, TypeOK
<1>5. CASE ReadPod1
  <2>1. phase' \in [Pod -> {"Running", "Pending", "Unknown"}]
    BY <1>5 DEF ReadPod1, ReadPod, TypeOK
  <2>2. phase'[PRIMARY_POD] \in {"Running", "Pending", "Unknown"}
        /\ phase'[REPLICA_POD] \in {"Running", "Pending", "Unknown"}
    BY <2>1, Pods
  <2>3. QED  BY <1>1, <1>5, <2>1, <2>2 DEF ReadPod1, ReadPod, TypeOK
<1>6. CASE ReadClaims
  BY <1>1, <1>6, DefaultTypes DEF ReadClaims, TypeOK
<1>7. CASE ExecPatroni0
  <2>1. PICK printed \in Printout :
          output' = PatroniOutput(PRIMARY_POD, printed) /\ prints' = {printed}
    BY <1>7 DEF ExecPatroni0
  <2>2. QED  BY <1>1, <1>7, <2>1, OutputType, Pods DEF ExecPatroni0, TypeOK, ClusterTypeOK
<1>8. CASE ExecPatroni1
  <2>1. PICK printed \in Printout :
          /\ patroni' = PatroniStatus(output, PatroniOutput(REPLICA_POD, printed))
          /\ prints' = prints \cup {printed}
    BY <1>8 DEF ExecPatroni1
  <2> DEFINE out == PatroniOutput(REPLICA_POD, printed)
  <2>2. /\ output.location \in 0 .. MaxWal /\ output.replayed_location \in 0 .. MaxWal
        /\ out.location \in 0 .. MaxWal /\ out.replayed_location \in 0 .. MaxWal
    BY OutputType, Pods DEF TypeOK
  <2>3. PatroniStatus(output, out) \in
          [leader_pod : Pod \cup {"unknown"}, replica_pod : Pod \cup {"unknown"},
           lag_bytes : 0 .. MaxWal, patroni_healthy : BOOLEAN]
    <3> HIDE DEF out
    <3>1. CASE output.role = "master"
      BY <2>2, <3>1, PatroniCases, NamedType, Pods
    <3>2. CASE output.role # "master" /\ out.role = "master"
      BY <2>2, <3>2, PatroniCases, NamedType, Pods
    <3>3. CASE output.role # "master" /\ out.role # "master"
      BY <3>3, PatroniCases, DefaultTypes
    <3>4. QED  BY <3>1, <3>2, <3>3
  <2>4. QED
    BY <1>1, <1>8, <2>1, <2>3, DefaultTypes DEF ExecPatroni1, TypeOK, ClusterTypeOK
<1>9. CASE ExecRaises
  <2>1. apiFailed' \in BOOLEAN
    BY <1>9 DEF ExecRaises, TypeOK
  <2>2. QED  BY <1>1, <1>9, <2>1, DefaultTypes DEF ExecRaises, TypeOK
<1>10. CASE UNCHANGED vars
  BY <1>1, <1>10 DEF vars, TypeOK
<1>11. CASE ClusterStreams \/ ClusterFails
  <2>1. Leaders' \subseteq Pod /\ Up' \subseteq Pod /\ Pod \ Up' \subseteq Pod
    BY DEF Leaders, Up
  <2>2. /\ masters' \subseteq Pod /\ running' \subseteq Pod /\ stopped' \subseteq Pod
        /\ ClusterTypeOK' /\ ClusterInv'
        /\ UNCHANGED <<k8sCore, pc, callVars, readVars>>
    BY <1>11, <2>1, ClusterStep DEF TypeOK
  <2>3. stable' \in BOOLEAN
    BY <1>11 DEF ClusterStreams, ClusterFails, Witness, TypeOK
  <2>4. farthest' \in 0 .. MaxWal
    <3>1. Distance' \in 0 .. MaxWal
      BY <2>2, Pods, WalAssumption DEF ClusterTypeOK, Distance
    <3>2. QED  BY <1>11, <3>1 DEF ClusterStreams, ClusterFails, Witness, TypeOK
  <2>5. QED  BY <2>2, <2>3, <2>4 DEF TypeOK
<1>12. QED
  BY <1>2, <1>3, <1>4, <1>5, <1>6, <1>7, <1>8, <1>9, <1>10, <1>11 DEF Next, Handler

(***************************************************************************)
(* The call and what it witnesses                                          *)
(***************************************************************************)

\* Every step of the handler but the first keeps what the call has witnessed.
LEMMA HandlerFrame ==
  ASSUME Handler, ~Begin
  PROVE  /\ pc # "idle"
         /\ UNCHANGED <<up, role, wal, masters, running, stopped, stable>>
BY DEF Handler, Unconfigured, ReadPod0, ReadPod1, ReadPod, ReadClaims, StatusRaises,
   ExecPatroni0, ExecPatroni1, ExecRaises, clusterState, instantVars

LEMMA WitnessStep == TypeOK /\ ClusterInv /\ WitnessInv /\ [Next]_vars => WitnessInv'
<1> SUFFICES ASSUME TypeOK, ClusterInv, WitnessInv, [Next]_vars PROVE WitnessInv'
  OBVIOUS
<1> USE DEF callVars, clusterState
<1>1. CASE Begin
  BY <1>1 DEF Begin, WitnessInv, Leaders, Up, UnknownPatroni
<1>2. CASE Handler /\ ~Begin
  <2>1. Leaders' = Leaders /\ Up' = Up
    BY <1>2, HandlerFrame DEF Leaders, Up
  <2>2. pc' # "idle" => UNCHANGED patroni
    BY <1>2 DEF Handler, Unconfigured, ReadPod0, ReadPod1, ReadPod, ReadClaims,
       StatusRaises, ExecPatroni0, ExecPatroni1, ExecRaises
  <2>3. QED  BY <1>2, <2>1, <2>2, HandlerFrame DEF WitnessInv, UnknownPatroni
<1>3. CASE UNCHANGED vars
  BY <1>3 DEF vars, instantVars, WitnessInv, Leaders, Up, UnknownPatroni
<1>4. CASE ClusterStreams \/ ClusterFails
  <2>1. pc # "idle" /\ stable' => Leaders' = Leaders /\ Up' = Up
    BY <1>4, ClusterStep DEF Leaders, Up
  <2>2. Leaders' \subseteq Pod /\ Up' \subseteq Pod
    BY DEF Leaders, Up
  <2>3. QED  BY <1>4, <2>1, <2>2, ClusterStep DEF WitnessInv, UnknownPatroni
<1>5. QED  BY <1>1, <1>2, <1>3, <1>4 DEF Next

LEMMA ExecStep ==
  TypeOK /\ ClusterInv /\ WitnessInv /\ ExecInv /\ [Next]_vars => ExecInv'
<1> SUFFICES ASSUME TypeOK, ClusterInv, WitnessInv, ExecInv, [Next]_vars PROVE ExecInv'
  OBVIOUS
<1> USE DEF callVars, clusterState, instantVars, readVars
<1>1. CASE Handler /\ ~ExecPatroni0
  <2>1. pc' # "exec1"
    BY <1>1 DEF Handler, Begin, Unconfigured, ReadPod0, ReadPod1, ReadPod, ReadClaims,
       StatusRaises, ExecPatroni1, ExecRaises
  <2>2. QED  BY <2>1 DEF ExecInv
<1>2. CASE ExecPatroni0
  <2>0. PICK printed \in Printout :
          output' = PatroniOutput(PRIMARY_POD, printed) /\ prints' = {printed}
    BY <1>2 DEF ExecPatroni0
  <2>1. /\ pc = "exec0" /\ up[PRIMARY_POD] /\ first' = wal
        /\ UNCHANGED <<up, role, wal, masters, running, stable>>
    BY <1>2 DEF ExecPatroni0
  <2>2. PRIMARY_POD \in running /\ (role[PRIMARY_POD] = "master" => PRIMARY_POD \in masters)
    BY <2>1, Pods DEF WitnessInv, Leaders, Up
  <2>3. /\ output'.role = role[PRIMARY_POD] /\ output'.prints = printed
        /\ output'.location <= wal[PRIMARY_POD]
        /\ output'.prints = "all" =>
             /\ role[PRIMARY_POD] = "master" => output'.location = wal[PRIMARY_POD]
             /\ role[PRIMARY_POD] = "replica" => output'.replayed_location = wal[PRIMARY_POD]
    BY <2>0, Pods, WalAssumption DEF PatroniOutput, TypeOK, ClusterTypeOK
  <2>4. \A p \in Pod : first'[p] <= wal'[p]
    BY <2>1, WalAssumption DEF TypeOK, ClusterTypeOK
  <2>5. QED  BY <2>0, <2>1, <2>2, <2>3, <2>4 DEF ExecInv
<1>3. CASE UNCHANGED vars
  BY <1>3 DEF vars, ExecInv
<1>4. CASE ClusterStreams \/ ClusterFails
  <2>1. \A p \in Pod : first[p] \in Nat /\ wal[p] \in Nat
    BY WalAssumption DEF TypeOK, ClusterTypeOK
  <2>2. \A p \in Pod : wal'[p] \in Nat
    BY <1>4, ClusterStep, WalAssumption DEF ClusterTypeOK
  <2>3. QED  BY <1>4, <2>1, <2>2, ClusterStep, Pods DEF ExecInv
<1>5. QED  BY <1>1, <1>2, <1>3, <1>4 DEF Next

\* Whoever never stopped is up, as long as the call goes on.
LEMMA AllUp ==
  ASSUME WitnessInv, pc # "idle", stopped = {}, NEW p \in Pod
  PROVE  up[p]
BY DEF WitnessInv, Up

LEMMA ReportStep ==
  TypeOK /\ ClusterInv /\ WitnessInv /\ ReportInv /\ [Next]_vars => ReportInv'
<1> SUFFICES ASSUME TypeOK, ClusterInv, WitnessInv, ReportInv, [Next]_vars PROVE ReportInv'
  OBVIOUS
<1> USE DEF callVars, clusterState, instantVars, readVars
<1>1. CASE Begin \/ Unconfigured \/ StatusRaises
  BY <1>1 DEF Begin, Unconfigured, StatusRaises, ReportInv
<1>2. CASE ReadPod0
  <2>1. stopped = {} => phase'[PRIMARY_POD] = "Running"
    BY <1>2, AllUp, Pods DEF ReadPod0, ReadPod, TypeOK
  <2>2. QED  BY <1>2, <2>1 DEF ReadPod0, ReadPod, ReportInv
<1>3. CASE ReadPod1
  <2>1. stopped = {} => phase'[REPLICA_POD] = "Running"
    BY <1>3, AllUp, Pods DEF ReadPod1, ReadPod, TypeOK
  <2>2. phase'[PRIMARY_POD] = phase[PRIMARY_POD]
    BY <1>3, Pods DEF ReadPod1, ReadPod, TypeOK
  <2>3. /\ status'.primary_status = phase'[PRIMARY_POD]
        /\ status'.replica_status = phase'[REPLICA_POD]
    BY <1>3 DEF ReadPod1, TypeOK
  <2>4. QED  BY <1>3, <2>1, <2>2, <2>3 DEF ReadPod1, ReadPod, ReportInv
<1>4. CASE ReadClaims
  <2>1. /\ status'.primary_status = status.primary_status
        /\ status'.replica_status = status.replica_status
    BY <1>4 DEF ReadClaims, TypeOK
  <2>2. QED  BY <1>4, <2>1 DEF ReadClaims, ReportInv
<1>5. CASE ExecPatroni0 \/ ExecPatroni1
  BY <1>5 DEF ExecPatroni0, ExecPatroni1, ReportInv
<1>6. CASE ExecRaises
  BY <1>6 DEF ExecRaises, ReportInv
<1>7. CASE UNCHANGED vars
  BY <1>7 DEF vars, ReportInv
<1>8. CASE ClusterStreams \/ ClusterFails
  <2>1. UNCHANGED <<pc, phase, status, apiFailed>> /\ (stable' => stable)
    BY <1>8, ClusterStep
  <2>2. stopped' = {} => stopped = {}
    BY <1>8, ClusterStep
  <2>3. QED  BY <2>1, <2>2 DEF ReportInv
<1>9. QED
  BY <1>1, <1>2, <1>3, <1>4, <1>5, <1>6, <1>7, <1>8 DEF Next, Handler

(***************************************************************************)
(* The answer                                                              *)
(***************************************************************************)

\* What the second exec makes of the answer, in the two cases that name a
\* leader and in the one that does not.
LEMMA Answers ==
  ASSUME ExecPatroni1
  PROVE  \E printed \in Printout :
           LET out == PatroniOutput(REPLICA_POD, printed)
           IN  /\ prints' = prints \cup {printed}
               /\ output.role = "master" =>
                    patroni' = Named(PRIMARY_POD, output, out)
               /\ output.role # "master" /\ role[REPLICA_POD] = "master" =>
                    patroni' = Named(REPLICA_POD, out, output)
               /\ output.role # "master" /\ role[REPLICA_POD] # "master" =>
                    patroni' = UnknownPatroni
<1>1. PICK printed \in Printout :
        /\ patroni' = PatroniStatus(output, PatroniOutput(REPLICA_POD, printed))
        /\ prints' = prints \cup {printed}
  BY DEF ExecPatroni1
<1> DEFINE out == PatroniOutput(REPLICA_POD, printed)
<1>2. out.role = role[REPLICA_POD]
  BY DEF PatroniOutput
<1> HIDE DEF out
<1>3. /\ output.role = "master" => patroni' = Named(PRIMARY_POD, output, out)
      /\ output.role # "master" /\ role[REPLICA_POD] = "master" =>
           patroni' = Named(REPLICA_POD, out, output)
      /\ output.role # "master" /\ role[REPLICA_POD] # "master" => patroni' = UnknownPatroni
  BY <1>1, <1>2, PatroniCases DEF out
<1>4. QED  BY <1>1, <1>3 DEF out

LEMMA LeaderWitnessedStep ==
  ASSUME TypeOK, ClusterInv, WitnessInv, ExecInv, ExecPatroni1
  PROVE  LeaderWitnessed'
<1>1. pc = "exec1" /\ up[REPLICA_POD] /\ UNCHANGED <<masters, running>>
  BY DEF ExecPatroni1, instantVars
<1>2. running = Pod
  <2>1. REPLICA_POD \in running
    BY <1>1, Pods DEF WitnessInv, Up
  <2>2. QED  BY <1>1, <2>1, Pods DEF ExecInv, TypeOK, Pod
<1>3. CASE output.role = "master"
  <2>1. /\ patroni'.leader_pod = PRIMARY_POD /\ patroni'.replica_pod = REPLICA_POD
    BY <1>3, Answers, Pods DEF Named
  <2>2. QED  BY <1>1, <1>2, <1>3, <2>1, Pods DEF ExecInv, LeaderWitnessed
<1>4. CASE output.role # "master" /\ role[REPLICA_POD] = "master"
  <2>1. REPLICA_POD \in masters
    BY <1>1, <1>4, Pods DEF WitnessInv, Leaders
  <2>2. /\ patroni'.leader_pod = REPLICA_POD /\ patroni'.replica_pod = PRIMARY_POD
    BY <1>4, Answers, Pods DEF Named
  <2>3. QED  BY <1>1, <1>2, <2>1, <2>2, Pods DEF LeaderWitnessed
<1>5. CASE output.role # "master" /\ role[REPLICA_POD] # "master"
  <2>1. patroni'.leader_pod = "unknown" /\ ~patroni'.patroni_healthy
    BY <1>5, Answers DEF UnknownPatroni
  <2>2. QED  BY <2>1 DEF LeaderWitnessed
<1>6. QED  BY <1>3, <1>4, <1>5

LEMMA StableClusterStep ==
  ASSUME TypeOK, ClusterInv, WitnessInv, ExecInv, ReportInv, ExecPatroni1
  PROVE  StableClusterReported'
<1>1. SUFFICES ASSUME stable, ~apiFailed, stopped = {}, masters # {}
               PROVE  /\ masters = {patroni'.leader_pod}
                      /\ patroni'.patroni_healthy \/ "unusable" \in prints'
                      /\ status.primary_status = "Running"
                      /\ status.replica_status = "Running"
  BY DEF ExecPatroni1, instantVars, StableClusterReported
<1>2. pc = "exec1"
  BY DEF ExecPatroni1
<1>3. status.primary_status = "Running" /\ status.replica_status = "Running"
  BY <1>1, <1>2 DEF ReportInv
<1>4. /\ masters = {p \in Pod : role[p] = "master"}
      /\ output.role = role[PRIMARY_POD] /\ prints = {output.prints}
  BY <1>1, <1>2, AllUp DEF WitnessInv, ExecInv, Leaders
<1>5. PICK printed \in Printout :
        LET out == PatroniOutput(REPLICA_POD, printed)
        IN  /\ prints' = prints \cup {printed}
            /\ output.role = "master" =>
                 patroni' = Named(PRIMARY_POD, output, out)
            /\ output.role # "master" /\ role[REPLICA_POD] = "master" =>
                 patroni' = Named(REPLICA_POD, out, output)
  BY Answers
<1>6. PatroniOutput(REPLICA_POD, printed).prints = printed
  BY DEF PatroniOutput
<1>7. CASE role[PRIMARY_POD] = "master"
  <2>1. masters = {PRIMARY_POD}
    BY <1>4, <1>7, Pods DEF ClusterInv, Pod
  <2>2. patroni' = Named(PRIMARY_POD, output, PatroniOutput(REPLICA_POD, printed))
    BY <1>4, <1>5, <1>7
  <2>3. /\ patroni'.leader_pod = PRIMARY_POD
        /\ patroni'.patroni_healthy <=> "unusable" \notin {output.prints, printed}
    BY <1>6, <2>2 DEF Named
  <2>4. {output.prints, printed} = prints'
    BY <1>4, <1>5
  <2>5. QED  BY <1>3, <2>1, <2>3, <2>4
<1>8. CASE role[PRIMARY_POD] # "master"
  <2>1. masters = {REPLICA_POD} /\ role[REPLICA_POD] = "master"
    BY <1>1, <1>4, <1>8 DEF Pod
  <2>2. patroni' = Named(REPLICA_POD, PatroniOutput(REPLICA_POD, printed), output)
    BY <1>4, <1>5, <1>8, <2>1
  <2>3. /\ patroni'.leader_pod = REPLICA_POD
        /\ patroni'.patroni_healthy <=> "unusable" \notin {output.prints, printed}
    BY <1>6, <2>2 DEF Named
  <2>4. {output.prints, printed} = prints'
    BY <1>4, <1>5
  <2>5. QED  BY <1>3, <2>1, <2>3, <2>4
<1>9. QED  BY <1>7, <1>8

LEMMA LagStep ==
  ASSUME TypeOK, ClusterInv, WitnessInv, ExecInv, ExecPatroni1
  PROVE  LagWithinCall'
<1> DEFINE P == PRIMARY_POD
           R == REPLICA_POD
<1>1. SUFFICES ASSUME stable, patroni'.patroni_healthy
               PROVE  /\ patroni'.lag_bytes <= wal[patroni'.leader_pod]
                      /\ prints' = {"all"} =>
                           /\ patroni'.lag_bytes + first[patroni'.replica_pod]
                                 <= wal[patroni'.leader_pod]
                           /\ first[patroni'.leader_pod]
                                 <= patroni'.lag_bytes + wal[patroni'.replica_pod]
  BY DEF ExecPatroni1, instantVars, LagWithinCall
<1>2. PICK printed \in Printout :
        LET out == PatroniOutput(R, printed)
        IN  /\ prints' = prints \cup {printed}
            /\ output.role = "master" => patroni' = Named(P, output, out)
            /\ output.role # "master" /\ role[R] = "master" =>
                 patroni' = Named(R, out, output)
            /\ output.role # "master" /\ role[R] # "master" => patroni' = UnknownPatroni
  BY Answers
<1> DEFINE out == PatroniOutput(R, printed)
<1>3. /\ pc = "exec1" /\ up[R] /\ up[P] /\ prints = {output.prints}
      /\ output.role = role[P] /\ first[P] <= wal[P] /\ first[R] <= wal[R]
      /\ output.location <= first[P]
  BY <1>1, Pods DEF ExecPatroni1, ExecInv
<1>4. /\ first[P] \in 0 .. MaxWal /\ first[R] \in 0 .. MaxWal
      /\ wal[P] \in 0 .. MaxWal /\ wal[R] \in 0 .. MaxWal
      /\ output.location \in 0 .. MaxWal /\ output.replayed_location \in 0 .. MaxWal
      /\ out.location \in 0 .. MaxWal /\ out.replayed_location \in 0 .. MaxWal
  BY Pods, OutputType DEF TypeOK, ClusterTypeOK
<1>5. role[P] \in {"master", "replica"} /\ role[R] \in {"master", "replica"}
  BY Pods DEF TypeOK, ClusterTypeOK
<1>6. /\ prints' = {"all"} => printed = "all" /\ output.prints = "all"
      /\ out.location <= wal[R]
      /\ printed = "all" => /\ role[R] = "replica" => out.replayed_location = wal[R]
                            /\ role[R] = "master" => out.location = wal[R]
  BY <1>2, <1>3, <1>4 DEF PatroniOutput
<1>7. CASE role[P] = "master"
  <2>1. /\ role[R] = "replica" /\ wal[R] <= wal[P]
        /\ output.prints = "all" => output.location = first[P]
    BY <1>1, <1>3, <1>7, Pods DEF ClusterInv, ExecInv
  <2>2. /\ patroni'.leader_pod = P /\ patroni'.replica_pod = R
        /\ patroni'.lag_bytes = Lag(output, out)
    <3>1. patroni' = Named(P, output, out)
      BY <1>2, <1>3, <1>7
    <3>2. QED  BY <1>1, <3>1, Pods DEF Named
  <2>3. /\ Lag(output, out) \in 0 .. MaxWal /\ Lag(output, out) <= output.location
        /\ output.location <= Lag(output, out) + out.replayed_location
        /\ Lag(output, out) = 0 \/ Lag(output, out) + out.replayed_location = output.location
    BY <1>4, LagType
  <2> HIDE DEF P, R, out
  <2>4. QED  BY <1>3, <1>4, <1>6, <2>1, <2>2, <2>3, WalAssumption
<1>8. CASE role[P] = "replica"
  <2>1. role[R] = "master"
    BY <1>1, <1>2, <1>3, <1>5, <1>8 DEF UnknownPatroni
  <2>2. /\ wal[P] <= wal[R]
        /\ output.prints = "all" => output.replayed_location = first[P]
    BY <1>1, <1>3, <1>8, <2>1, Pods DEF ClusterInv, ExecInv
  <2>3. /\ patroni'.leader_pod = R /\ patroni'.replica_pod = P
        /\ patroni'.lag_bytes = Lag(out, output)
    <3>1. patroni' = Named(R, out, output)
      BY <1>2, <1>3, <1>8, <2>1
    <3>2. QED  BY <1>1, <3>1, Pods DEF Named
  <2>4. /\ Lag(out, output) \in 0 .. MaxWal /\ Lag(out, output) <= out.location
        /\ out.location <= Lag(out, output) + output.replayed_location
        /\ Lag(out, output) = 0 \/ Lag(out, output) + output.replayed_location = out.location
    BY <1>4, LagType
  <2> HIDE DEF P, R, out
  <2>5. QED  BY <1>3, <1>4, <1>6, <2>1, <2>2, <2>3, <2>4, WalAssumption
<1>9. QED  BY <1>5, <1>7, <1>8

Answer == LeaderWitnessed /\ StableClusterReported /\ LagWithinCall

LEMMA AnswerStep == IInv /\ [Next]_vars => Answer'
<1> SUFFICES ASSUME IInv, [Next]_vars PROVE Answer'
  OBVIOUS
<1> USE DEF callVars, clusterState, instantVars, readVars, Answered
<1>1. CASE ExecPatroni1
  BY <1>1, LeaderWitnessedStep, StableClusterStep, LagStep DEF IInv, Answer
\* The call goes on.
<1>2. ASSUME pc' # "idle" PROVE Answer'
  BY <1>2 DEF Answer, LeaderWitnessed, StableClusterReported, LagWithinCall
<1>3. CASE Begin \/ ReadPod0 \/ ReadPod1 \/ ReadClaims \/ StatusRaises \/ ExecPatroni0
  BY <1>2, <1>3 DEF Begin, ReadPod0, ReadPod1, ReadPod, ReadClaims, StatusRaises,
     ExecPatroni0
\* The call ends and knows of no leader.
<1>4. CASE Unconfigured \/ ExecRaises
  <2>1. patroni' = UnknownPatroni
    BY <1>4 DEF Unconfigured, ExecRaises, IInv, WitnessInv
  <2>2. LeaderWitnessed' /\ LagWithinCall'
    BY <2>1 DEF UnknownPatroni, LeaderWitnessed, LagWithinCall
  <2>3. apiFailed' \/ stopped' # {}
    <3>1. CASE Unconfigured
      BY <3>1 DEF Unconfigured
    <3>2. CASE ExecRaises
      BY <3>2, AllUp, Pods DEF ExecRaises, IInv
    <3>3. QED  BY <1>4, <3>1, <3>2
  <2>4. QED  BY <2>2, <2>3 DEF Answer, StableClusterReported
\* No call is under way, or one goes on while the cluster changes.
<1>5. CASE UNCHANGED vars \/ ClusterStreams \/ ClusterFails
  <2>1. UNCHANGED <<pc, patroni, status, apiFailed, prints, first, last>>
    BY <1>5, ClusterStep DEF vars, IInv
  <2>2. pc = "idle" => UNCHANGED <<masters, running, stopped, stable>>
    BY <1>5, ClusterStep DEF vars, IInv
  <2>3. CASE pc = "idle"
    BY <2>1, <2>2, <2>3 DEF IInv, Answer, LeaderWitnessed, StableClusterReported,
       LagWithinCall
  <2>4. QED  BY <1>2, <2>1, <2>3
<1>6. QED  BY <1>1, <1>3, <1>4, <1>5 DEF Next, Handler

(***************************************************************************)
(* Theorems                                                                *)
(***************************************************************************)

LEMMA InvInit == Init => IInv
<1> SUFFICES ASSUME Init PROVE IInv
  OBVIOUS
<1>1. pc = "idle" /\ patroni = UnknownPatroni /\ masters = {}
  BY DEF Init
<1>2. WitnessInv /\ ExecInv /\ ReportInv
  BY <1>1 DEF WitnessInv, ExecInv, ReportInv
<1>3. LeaderWitnessed /\ StableClusterReported /\ LagWithinCall
  BY <1>1 DEF UnknownPatroni, LeaderWitnessed, StableClusterReported, LagWithinCall
<1>4. QED  BY <1>2, <1>3, TypeInit DEF IInv

LEMMA InvStep == IInv /\ [Next]_vars => IInv'
BY TypeStep, WitnessStep, ExecStep, ReportStep, AnswerStep DEF IInv, Answer

LEMMA Inductive == Spec => []IInv
BY InvInit, InvStep, PTL DEF Spec

\* Every variable of the call keeps its values, and so does what is printed and
\* reported of the cluster, up to any amount of log.
THEOREM TypeCorrect == Spec => []TypeOK
BY Inductive, PTL DEF IInv

\* GetInfraStatus never makes up a leader, although it asks the two pods at
\* different moments and may fail between naming the leader and the lag
\* (provisioner.py:320-397).
THEOREM LeaderReal == Spec => []LeaderWitnessed
BY Inductive, PTL DEF IInv

\* A cluster that holds still during the call is reported exactly.
THEOREM StableExact == Spec => []StableClusterReported
BY Inductive, PTL DEF IInv

\* Unless somebody fails over between the execs the lag is at most what the
\* leader has written and, of two printed positions, one they allow; a position
\* that is not printed counts as 0 (provisioner.py:345-358, 370-383).
THEOREM LagBounded == Spec => []LagWithinCall
BY Inductive, PTL DEF IInv
=============================================================================
