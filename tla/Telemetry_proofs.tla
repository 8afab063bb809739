-------------------------- MODULE Telemetry_proofs --------------------------
(***************************************************************************)
(* Proofs about Telemetry for any number of collections and any changes of *)
(* the cluster under them.                                                 *)
(***************************************************************************)
EXTENDS Telemetry, TLAPS

(* Gauges are only set at the end of a collection, which then runs through. *)
GaugeInv ==
  /\ pc = "gauges" => gauge < Len(Gauges)
  /\ pc = "latest" => gauge = Len(Gauges)
  /\ pc \notin {"begin", "gauges", "latest"} => gauge = 0
  /\ pc # "begin" => cycle # 0

(* The collection that is published has all its keys, and is not older than *)
(* what any call of GetClusterMetrics holds or has been answered from.      *)
HeldInv(c) ==
  reader[c] # -1 => /\ reader[c] \in filled \cup {0}
                    /\ floor[c] <= reader[c] /\ reader[c] <= latest

SnapshotInv ==
  /\ latest \in filled \cup {0}
  /\ pc \in {"gauges", "latest"} => cycle \in filled
  /\ newest <= latest
  /\ \A c \in Call : HeldInv(c)

(* A collection witnesses what is true while it runs, and what it has put   *)
(* into its dictionary is something it witnessed.                           *)
Witnessed(m) ==
  /\ m.leader_pod # "unknown" => <<"leads", m.leader_pod>> \in witness
  /\ m.patroni_healthy => m.leader_pod # "unknown"
  /\ m.primary_ready => <<"no_unready_container", m.leader_pod>> \in witness
  /\ m.primary_bound => <<"bound", m.leader_pod>> \in witness
  /\ m.replica_ready => <<"no_unready_container", Other(m.leader_pod)>> \in witness
  /\ m.replica_bound => <<"bound", Other(m.leader_pod)>> \in witness

WitnessInv ==
  pc # "begin" =>
    /\ Facts(leader, pods, bound) \subseteq witness
    /\ Witnessed(metrics)
    /\ pc = "patroni" => metrics = Fresh

(* Between collections their locals are as a collection finds them. *)
LocalInv == pc = "begin" => metrics = Fresh /\ gauge = 0

IInv ==
  /\ TypeOK /\ GaugeInv /\ GaugesOfTwoCollections /\ SnapshotInv
  /\ LocalInv /\ WitnessInv

(***************************************************************************)
(* Types                                                                   *)
(***************************************************************************)

LEMMA GaugeCount == Len(Gauges) = 8 /\ Gauge = {Gauges[i] : i \in 1 .. 8}
BY DEF Gauges, Gauge

LEMMA GaugesDistinct ==
  ASSUME NEW i \in 1 .. 8, NEW j \in 1 .. 8, Gauges[i] = Gauges[j]
  PROVE  i = j
BY DEF Gauges

Dictionary == [leader_pod : Pod \cup {"unknown"}, patroni_healthy : BOOLEAN,
               primary_ready : BOOLEAN, replica_ready : BOOLEAN,
               primary_bound : BOOLEAN, replica_bound : BOOLEAN]

LEMMA FreshType == Fresh \in Dictionary
BY DEF Fresh, Dictionary

LEMMA TypeInit == Init => TypeOK
<1> SUFFICES ASSUME Init PROVE TypeOK
  OBVIOUS
<1>1. metrics \in Dictionary
  BY FreshType DEF Init
<1>2. /\ gauges \in [Gauge -> 0 .. cycle]
      /\ reader \in [Call -> -1 .. cycle] /\ floor \in [Call -> 0 .. cycle]
      /\ pods \in [Pod -> {"ready", "starting", "pending"}]
  BY DEF Init
<1>3. cycle \in 0 .. MaxCycles /\ changes \in 0 .. MaxChanges /\ gauge \in 0 .. Len(Gauges)
  BY TelemetryBounds, GaugeCount DEF Init
<1>4. /\ latest \in 0 .. cycle /\ completed \in 0 .. cycle /\ newest \in 0 .. cycle
      /\ filled \subseteq 1 .. cycle
  BY DEF Init
<1>5. /\ leader \in Pod /\ bound \subseteq Pod /\ k8sCore \in BOOLEAN
      /\ stage \in {"initial", "serving", "stopped"} /\ pc = "begin"
  BY DEF Init, Pod
<1>6. QED  BY <1>1, <1>2, <1>3, <1>4, <1>5 DEF TypeOK, Dictionary

\* The steps that only move the collection on or fill in its dictionary.
LEMMA FillStep ==
  ASSUME TypeOK, NEW from, NEW to, Go(from, to),
         to \in {"leader_pod", "replica_pod", "leader_pvc", "replica_pvc", "cpu_ram",
                 "storage", "bandwidth", "io", "patroni_keys", "gauges"},
         metrics' \in Dictionary,
         filled' \subseteq 1 .. cycle
  PROVE  TypeOK'
BY DEF Go, TypeOK, Dictionary, envVars, gaugeVars, rpcVars, historyVars

LEMMA TypeStep == TypeOK /\ GaugeInv /\ [Next]_vars => TypeOK'
<1> SUFFICES ASSUME TypeOK, GaugeInv, [Next]_vars PROVE TypeOK'
  OBVIOUS
<1> USE DEF envVars, dictVars, gaugeVars, rpcVars, historyVars
<1>1. CASE BeginCycle
  <2>2. /\ cycle \in 0 .. MaxCycles /\ cycle' = cycle + 1 /\ cycle' \in 0 .. MaxCycles
        /\ 1 .. cycle \subseteq 1 .. cycle' /\ 0 .. cycle \subseteq 0 .. cycle'
        /\ -1 .. cycle \subseteq -1 .. cycle'
    BY <1>1, TelemetryBounds DEF BeginCycle, TypeOK
  <2>3. /\ gauges' \in [Gauge -> 0 .. cycle']
        /\ reader' \in [Call -> -1 .. cycle'] /\ floor' \in [Call -> 0 .. cycle']
    BY <1>1, <2>2 DEF BeginCycle, TypeOK
  <2>4. QED  BY <1>1, <2>2, <2>3, GaugeCount DEF BeginCycle, TypeOK
\* Finish
<1>20. 0 \in 0 .. Len(Gauges)
  BY GaugeCount
<1>2. CASE SkipCycle
  BY <1>2, <1>20, FreshType DEF SkipCycle, Finish, TypeOK, Dictionary
<1>3. CASE QueryPatroni
  <2>1. metrics' \in Dictionary
    BY <1>3 DEF QueryPatroni, LeaderNamed, TypeOK, Dictionary
  <2>2. QED  BY <1>3, <2>1, FillStep DEF QueryPatroni, TypeOK
<1>4. CASE ReadLeaderPod
  <2>1. metrics' \in Dictionary
    BY <1>4 DEF ReadLeaderPod, ContainersReady, TypeOK, Dictionary
  <2>2. QED  BY <1>4, <2>1, FillStep DEF ReadLeaderPod, TypeOK
<1>5. CASE ReadReplicaPod
  <2>1. metrics' \in Dictionary
    BY <1>5 DEF ReadReplicaPod, ContainersReady, TypeOK, Dictionary
  <2>2. QED  BY <1>5, <2>1, FillStep DEF ReadReplicaPod, TypeOK
<1>6. CASE ReadLeaderPvc
  <2>1. (metrics.leader_pod \in bound) \in BOOLEAN
    OBVIOUS
  <2>2. metrics' \in Dictionary
    BY <1>6, <2>1 DEF ReadLeaderPvc, TypeOK, Dictionary
  <2>3. QED  BY <1>6, <2>2, FillStep DEF ReadLeaderPvc, TypeOK
<1>7. CASE ReadReplicaPvc
  <2>1. (Other(metrics.leader_pod) \in bound) \in BOOLEAN
    OBVIOUS
  <2>2. metrics' \in Dictionary
    BY <1>7, <2>1 DEF ReadReplicaPvc, TypeOK, Dictionary
  <2>3. QED  BY <1>7, <2>2, FillStep DEF ReadReplicaPvc, TypeOK
<1>8. CASE CycleRaises
  BY <1>8, <1>20, FreshType DEF CycleRaises, Finish, TypeOK, Dictionary
<1>9. CASE ReadCpuRam \/ ReadStorage \/ ReadBandwidth \/ ReadIo
  BY <1>9, FillStep DEF ReadCpuRam, ReadStorage, ReadBandwidth, ReadIo, TypeOK,
     Dictionary
<1>10. CASE PutPatroni
  <2>1. cycle \in 1 .. cycle
    BY <1>10 DEF PutPatroni, Go, TypeOK, GaugeInv
  <2>2. QED  BY <1>10, <2>1, FillStep DEF PutPatroni, TypeOK, Dictionary
<1>11. CASE SetGauge
  BY <1>11, GaugeCount DEF SetGauge, TypeOK, GaugeInv
<1>12. CASE SetLatest
  BY <1>12, <1>20, FreshType DEF SetLatest, Finish, TypeOK, Dictionary
<1>13. ASSUME NEW c \in Call, TakeSnapshot(c) PROVE TypeOK'
  <2>1. /\ latest \in -1 .. cycle /\ newest \in 0 .. cycle
        /\ reader \in [Call -> -1 .. cycle] /\ floor \in [Call -> 0 .. cycle]
    BY DEF TypeOK
  <2>2. /\ reader' \in [Call -> -1 .. cycle'] /\ floor' \in [Call -> 0 .. cycle']
        /\ UNCHANGED <<envVars, stage, k8sCore, pc, cycle, dictVars, latest, gaugeVars,
                       newest, historyVars>>
    BY <1>13, <2>1 DEF TakeSnapshot
  <2>3. QED  BY <2>2 DEF TypeOK
<1>14. ASSUME NEW c \in Call, Respond(c) PROVE TypeOK'
  <2>1. /\ -1 \in -1 .. cycle /\ 0 \in 0 .. cycle
        /\ reader \in [Call -> -1 .. cycle] /\ floor \in [Call -> 0 .. cycle]
        /\ reader[c] \in 0 .. cycle /\ newest \in 0 .. cycle
    BY <1>14 DEF Respond, TypeOK
  <2>2. /\ reader' \in [Call -> -1 .. cycle'] /\ floor' \in [Call -> 0 .. cycle']
        /\ newest' \in 0 .. cycle'
        /\ UNCHANGED <<envVars, stage, k8sCore, pc, cycle, dictVars, latest, gaugeVars,
                       historyVars>>
    BY <1>14, <2>1 DEF Respond
  <2>3. QED  BY <2>2 DEF TypeOK
<1>15. CASE Change
  <2>1. /\ leader' \in Pod /\ bound' \subseteq Pod
        /\ pods' \in [Pod -> {"ready", "starting", "pending"}]
    <3>1. CASE leader' = Other(leader) /\ UNCHANGED <<pods, bound>>
      BY <3>1 DEF TypeOK, Other, Pod
    <3>2. CASE \E p \in Pod, x \in {"ready", "starting", "pending"} :
                 pods' = [pods EXCEPT ![p] = x] /\ UNCHANGED <<leader, bound>>
      BY <3>2 DEF TypeOK
    <3>3. CASE \E p \in Pod : /\ bound' = IF p \in bound THEN bound \ {p} ELSE bound \cup {p}
                              /\ UNCHANGED <<leader, pods>>
      BY <3>3 DEF TypeOK
    <3>4. QED  BY <1>15, <3>1, <3>2, <3>3 DEF Change
  <2>2. changes' \in 0 .. MaxChanges
    BY <1>15, TelemetryBounds DEF Change, TypeOK
  <2>3. UNCHANGED <<stage, k8sCore, pc, cycle, dictVars, latest, gaugeVars, rpcVars, completed>>
    BY <1>15 DEF Change
  <2>4. QED  BY <2>1, <2>2, <2>3 DEF TypeOK
<1>16. CASE Stop
  BY <1>16 DEF Stop, TypeOK
<1>17. CASE UNCHANGED vars
  BY <1>17 DEF vars, TypeOK
<1>18. QED
  BY <1>1, <1>2, <1>3, <1>4, <1>5, <1>6, <1>7, <1>8, <1>9, <1>10, <1>11, <1>12, <1>13,
     <1>14, <1>15, <1>16, <1>17 DEF Next, Collect

(***************************************************************************)
(* The gauges                                                              *)
(***************************************************************************)

\* Before its gauges a collection sets none, and leaves them to what the
\* latest completed one has set.
LEMMA GaugeStep ==
  /\ TypeOK /\ GaugeInv /\ LocalInv /\ GaugesOfTwoCollections /\ [Next]_vars
  => GaugeInv' /\ GaugesOfTwoCollections'
<1> SUFFICES ASSUME TypeOK, GaugeInv, LocalInv, GaugesOfTwoCollections, [Next]_vars
             PROVE  GaugeInv' /\ GaugesOfTwoCollections'
  OBVIOUS
<1> USE DEF envVars, dictVars, gaugeVars, rpcVars, historyVars
<1>1. CASE BeginCycle
  BY <1>1, GaugeCount DEF BeginCycle, TypeOK, GaugeInv, LocalInv, GaugesOfTwoCollections
<1>2. ASSUME UNCHANGED <<cycle, gauge, gauges, completed>>,
             pc \notin {"gauges", "latest"},
             pc' \notin {"latest"}, pc' # "begin" => pc # "begin"
      PROVE  GaugeInv' /\ GaugesOfTwoCollections'
  BY <1>2, GaugeCount DEF TypeOK, GaugeInv, GaugesOfTwoCollections
<1>3. CASE SkipCycle \/ CycleRaises
  BY <1>3, GaugeCount DEF SkipCycle, CycleRaises, Finish, GaugeInv, GaugesOfTwoCollections
<1>4. CASE QueryPatroni \/ ReadLeaderPod \/ ReadReplicaPod \/ ReadLeaderPvc \/ ReadReplicaPvc
  BY <1>2, <1>4 DEF QueryPatroni, ReadLeaderPod, ReadReplicaPod, ReadLeaderPvc,
     ReadReplicaPvc, Go
<1>5. CASE ReadCpuRam \/ ReadStorage \/ ReadBandwidth \/ ReadIo \/ PutPatroni
  BY <1>2, <1>5 DEF ReadCpuRam, ReadStorage, ReadBandwidth, ReadIo, PutPatroni, Go
<1>6. CASE SetGauge
  <2>1. /\ gauge \in 0 .. 7 /\ gauge' = gauge + 1 /\ pc = "gauges" /\ gauge' \in 1 .. 8
        /\ pc' = IF gauge' = 8 THEN "latest" ELSE "gauges"
        /\ UNCHANGED <<cycle, completed>>
    BY <1>6, GaugeCount DEF SetGauge, TypeOK, GaugeInv
  <2>2. GaugeInv'
    BY <1>6, <2>1, GaugeCount DEF GaugeInv
  <2>3. Gauges[gauge'] \in Gauge /\ gauges' = [gauges EXCEPT ![Gauges[gauge']] = cycle]
    BY <1>6, <2>1, GaugeCount DEF SetGauge
  <2>4. ASSUME NEW i \in 1 .. 8
        PROVE  gauges'[Gauges[i]] = IF i <= gauge' THEN cycle ELSE completed
    <3>1. gauges[Gauges[i]] = IF i <= gauge THEN cycle ELSE completed
      BY <2>1, GaugeCount DEF GaugesOfTwoCollections
    <3>2. CASE i = gauge'
      BY <2>1, <2>3, <3>2 DEF TypeOK
    <3>3. CASE i # gauge'
      <4>1. Gauges[i] # Gauges[gauge'] /\ Gauges[i] \in Gauge
        BY <2>1, <3>3, GaugesDistinct, GaugeCount
      <4>2. gauges'[Gauges[i]] = gauges[Gauges[i]]
        BY <2>3, <4>1 DEF TypeOK
      <4>3. i <= gauge' <=> i <= gauge
        BY <2>1, <3>3
      <4>4. QED  BY <3>1, <4>2, <4>3
    <3>4. QED  BY <3>2, <3>3
  <2>5. pc' \in {"gauges", "latest"}
    BY <2>1
  <2>6. QED  BY <2>1, <2>2, <2>4, <2>5, GaugeCount DEF GaugesOfTwoCollections
<1>7. CASE SetLatest
  <2>1. gauge = 8 /\ UNCHANGED <<cycle, gauges>> /\ completed' = cycle /\ pc' = "begin"
    BY <1>7, GaugeCount DEF SetLatest, Finish, GaugeInv
  <2>2. \A i \in 1 .. 8 : gauges[Gauges[i]] = cycle
    BY <1>7, <2>1, GaugeCount DEF SetLatest, GaugesOfTwoCollections
  <2>3. QED  BY <2>1, <2>2, GaugeCount DEF GaugeInv, GaugesOfTwoCollections
<1>8. CASE (\E c \in Call : TakeSnapshot(c) \/ Respond(c)) \/ Change \/ Stop \/ UNCHANGED vars
  <2>1. UNCHANGED <<pc, cycle, gauge, gauges, completed>>
    BY <1>8 DEF TakeSnapshot, Respond, Change, Stop, vars
  <2>2. QED  BY <2>1 DEF GaugeInv, GaugesOfTwoCollections
<1>9. QED
  BY <1>1, <1>3, <1>4, <1>5, <1>6, <1>7, <1>8 DEF Next, Collect

(***************************************************************************)
(* The snapshots                                                           *)
(***************************************************************************)

\* More filled collections and a newer latest one take nothing from a call.
LEMMA SnapshotGrows ==
  ASSUME TypeOK, SnapshotInv, UNCHANGED rpcVars, filled \subseteq filled',
         latest <= latest', latest' \in Nat, latest' \in filled' \cup {0},
         pc' \in {"gauges", "latest"} => cycle' \in filled'
  PROVE  SnapshotInv'
<1>1. latest \in Nat /\ newest \in Nat /\ reader \in [Call -> Int] /\ floor \in [Call -> Nat]
  <2>1. cycle \in Nat
    BY TelemetryBounds DEF TypeOK
  <2>2. -1 .. cycle \subseteq Int /\ 0 .. cycle \subseteq Nat
    BY <2>1
  <2>3. QED  BY <2>1, <2>2 DEF TypeOK
<1>2. ASSUME NEW c \in Call PROVE HeldInv(c)'
  <2>1. HeldInv(c) /\ reader[c] \in Int /\ floor[c] \in Nat
    BY <1>1 DEF SnapshotInv
  <2>2. QED  BY <1>1, <2>1 DEF HeldInv, rpcVars
<1>3. QED  BY <1>1, <1>2 DEF SnapshotInv, rpcVars

LEMMA SnapshotStep == TypeOK /\ SnapshotInv /\ [Next]_vars => SnapshotInv'
<1> SUFFICES ASSUME TypeOK, SnapshotInv, [Next]_vars PROVE SnapshotInv'
  OBVIOUS
<1>1. /\ latest \in filled \cup {0} /\ cycle \in Nat /\ latest \in 0 .. cycle /\ latest \in Nat
      /\ newest \in Nat /\ newest <= latest
      /\ pc \in {"gauges", "latest"} => cycle \in filled
  BY TelemetryBounds DEF TypeOK, SnapshotInv
<1>2. ASSUME UNCHANGED <<rpcVars, latest, filled, cycle>>,
             pc' \in {"gauges", "latest"} => pc \in {"gauges", "latest"}
      PROVE  SnapshotInv'
  BY <1>1, <1>2, SnapshotGrows
<1>3. CASE BeginCycle
  BY <1>1, <1>3, SnapshotGrows DEF BeginCycle, dictVars
<1>4. CASE SkipCycle \/ CycleRaises
  BY <1>2, <1>4 DEF SkipCycle, CycleRaises, Finish
<1>5. CASE QueryPatroni \/ ReadLeaderPod \/ ReadReplicaPod \/ ReadLeaderPvc \/ ReadReplicaPvc
  BY <1>2, <1>5 DEF QueryPatroni, ReadLeaderPod, ReadReplicaPod, ReadLeaderPvc, ReadReplicaPvc,
     Go
<1>6. CASE ReadCpuRam \/ ReadStorage \/ ReadBandwidth \/ ReadIo
  BY <1>2, <1>6 DEF ReadCpuRam, ReadStorage, ReadBandwidth, ReadIo, Go, dictVars
<1>7. CASE PutPatroni
  BY <1>1, <1>7, SnapshotGrows DEF PutPatroni, Go
<1>8. CASE SetGauge
  BY <1>2, <1>8 DEF SetGauge, dictVars
<1>9. CASE SetLatest
  BY <1>1, <1>9, SnapshotGrows DEF SetLatest, Finish
<1>10. ASSUME NEW c \in Call, TakeSnapshot(c) PROVE SnapshotInv'
  <2>1. /\ reader' = [reader EXCEPT ![c] = latest] /\ floor' = [floor EXCEPT ![c] = newest]
        /\ UNCHANGED <<pc, cycle, filled, latest, newest>>
    BY <1>10 DEF TakeSnapshot, dictVars
  <2>2. ASSUME NEW d \in Call PROVE HeldInv(d)'
    <3>1. CASE d = c
      BY <1>1, <2>1, <3>1 DEF TypeOK, HeldInv
    <3>2. CASE d # c
      <4>1. HeldInv(d) /\ reader'[d] = reader[d] /\ floor'[d] = floor[d]
        BY <2>1, <3>2 DEF TypeOK, SnapshotInv
      <4>2. QED  BY <2>1, <4>1 DEF HeldInv
    <3>3. QED  BY <3>1, <3>2
  <2>3. QED  BY <1>1, <2>1, <2>2 DEF SnapshotInv
<1>11. ASSUME NEW c \in Call, Respond(c) PROVE SnapshotInv'
  <2>1. /\ reader' = [reader EXCEPT ![c] = -1] /\ floor' = [floor EXCEPT ![c] = 0]
        /\ newest' = IF newest < reader[c] THEN reader[c] ELSE newest
        /\ UNCHANGED <<pc, cycle, filled, latest>>
        /\ reader[c] # -1
    BY <1>11 DEF Respond, dictVars
  <2>2. newest' <= latest
    BY <1>1, <2>1 DEF SnapshotInv, HeldInv
  <2>3. ASSUME NEW d \in Call PROVE HeldInv(d)'
    <3>1. CASE d = c
      BY <2>1, <3>1 DEF TypeOK, HeldInv
    <3>2. CASE d # c
      <4>1. HeldInv(d) /\ reader'[d] = reader[d] /\ floor'[d] = floor[d]
        BY <2>1, <3>2 DEF TypeOK, SnapshotInv
      <4>2. QED  BY <2>1, <4>1 DEF HeldInv
    <3>3. QED  BY <3>1, <3>2
  <2>4. QED  BY <1>1, <2>1, <2>2, <2>3 DEF SnapshotInv
<1>12. CASE Change \/ Stop \/ UNCHANGED vars
  BY <1>2, <1>12 DEF Change, Stop, vars, dictVars
<1>13. QED
  BY <1>3, <1>4, <1>5, <1>6, <1>7, <1>8, <1>9, <1>10, <1>11, <1>12 DEF Next, Collect

LEMMA LocalStep == LocalInv /\ [Next]_vars => LocalInv'
<1> SUFFICES ASSUME LocalInv, [Next]_vars PROVE LocalInv'
  OBVIOUS
<1> USE DEF LocalInv
<1>1. CASE Collect
  BY <1>1 DEF Collect, BeginCycle, SkipCycle, QueryPatroni, ReadLeaderPod,
     ReadReplicaPod, ReadLeaderPvc, ReadReplicaPvc, CycleRaises, ReadCpuRam,
     ReadStorage, ReadBandwidth, ReadIo, PutPatroni, SetGauge, SetLatest, Go, Finish
<1>2. CASE (\E c \in Call : TakeSnapshot(c) \/ Respond(c)) \/ Change \/ Stop \/ UNCHANGED vars
  BY <1>2 DEF TakeSnapshot, Respond, Change, Stop, vars, dictVars, gaugeVars
<1>3. QED  BY <1>1, <1>2 DEF Next

(***************************************************************************)
(* What a collection has witnessed                                         *)
(***************************************************************************)

LEMMA WitnessStep == TypeOK /\ LocalInv /\ WitnessInv /\ [Next]_vars => WitnessInv'
<1> SUFFICES ASSUME TypeOK, LocalInv, WitnessInv, [Next]_vars PROVE WitnessInv'
  OBVIOUS
<1> USE DEF envVars, dictVars, gaugeVars, rpcVars, historyVars
<1>1. CASE BeginCycle
  BY <1>1 DEF BeginCycle, LocalInv, WitnessInv, Witnessed, Fresh
<1>2. CASE SkipCycle \/ CycleRaises \/ SetLatest
  BY <1>2 DEF SkipCycle, CycleRaises, SetLatest, Finish, WitnessInv
\* What is put into the dictionary is a fact of the moment, which the
\* collection witnesses.
<1>3. ASSUME NEW from, NEW to, Go(from, to), from # "begin", to # "patroni",
             Facts(leader, pods, bound) \subseteq witness /\ Witnessed(metrics)
               => Witnessed(metrics')
      PROVE  WitnessInv'
  BY <1>3 DEF Go, WitnessInv, Witnessed
<1>4. ASSUME pc # "begin"
      PROVE  /\ <<"leads", leader>> \in witness
             /\ \A p \in bound : <<"bound", p>> \in witness
             /\ \A p \in Pod : ContainersReady(p) => <<"no_unready_container", p>> \in witness
             /\ pc = "patroni" => metrics = Fresh
  BY <1>4 DEF WitnessInv, Facts, ContainersReady
<1>5. CASE QueryPatroni
  <2>1. pc = "patroni" /\ metrics = Fresh
    BY <1>4, <1>5 DEF QueryPatroni, Go
  <2>2. \/ \E healthy \in BOOLEAN :
             metrics' = [metrics EXCEPT !.leader_pod = leader, !.patroni_healthy = healthy]
        \/ metrics' = metrics
    BY <1>5 DEF QueryPatroni, LeaderNamed
  <2>5. leader # "unknown"
    BY DEF TypeOK, Pod
  <2>3. Witnessed(metrics')
    <3>1. CASE metrics' = metrics
      BY <2>1, <3>1 DEF Witnessed, Fresh
    <3>2. ASSUME NEW healthy \in BOOLEAN,
                 metrics' = [metrics EXCEPT !.leader_pod = leader,
                                            !.patroni_healthy = healthy]
          PROVE  Witnessed(metrics')
      <4>1. /\ metrics'.leader_pod = leader
            /\ ~metrics'.primary_ready /\ ~metrics'.primary_bound
            /\ ~metrics'.replica_ready /\ ~metrics'.replica_bound
        BY <2>1, <3>2 DEF Fresh
      <4>2. <<"leads", leader>> \in witness
        BY <1>4, <2>1
      <4>3. QED  BY <2>5, <4>1, <4>2 DEF Witnessed
    <3>3. QED  BY <2>2, <3>1, <3>2
  <2>4. QED  BY <1>3, <1>5, <2>3 DEF QueryPatroni
<1>6. CASE ReadLeaderPod
  <2>1. pc # "begin"
    BY <1>6 DEF ReadLeaderPod, Go
  <2>2. ASSUME Witnessed(metrics) PROVE Witnessed(metrics')
    <3>1. CASE UNCHANGED metrics
      BY <2>2, <3>1 DEF Witnessed
    <3>2. CASE /\ metrics.leader_pod \in Pod
               /\ metrics' = [metrics EXCEPT
                               !.primary_ready = ContainersReady(metrics.leader_pod)]
      BY <1>4, <2>1, <2>2, <3>2 DEF Witnessed, TypeOK
    <3>3. QED  BY <1>6, <3>1, <3>2 DEF ReadLeaderPod
  <2>3. QED  BY <1>3, <1>6, <2>2 DEF ReadLeaderPod
<1>7. CASE ReadReplicaPod
  <2>1. pc # "begin"
    BY <1>7 DEF ReadReplicaPod, Go
  <2>2. ASSUME Witnessed(metrics) PROVE Witnessed(metrics')
    <3>1. CASE UNCHANGED metrics
      BY <2>2, <3>1 DEF Witnessed
    <3>2. CASE /\ metrics.leader_pod \in Pod
               /\ metrics' = [metrics EXCEPT
                               !.replica_ready = ContainersReady(Other(metrics.leader_pod))]
      <4>1. Other(metrics.leader_pod) \in Pod
        BY DEF Other, Pod
      <4>2. QED  BY <1>4, <2>1, <2>2, <3>2, <4>1 DEF Witnessed, TypeOK
    <3>3. QED  BY <1>7, <3>1, <3>2 DEF ReadReplicaPod
  <2>3. QED  BY <1>3, <1>7, <2>2 DEF ReadReplicaPod
<1>8. CASE ReadLeaderPvc
  <2>1. pc # "begin"
    BY <1>8 DEF ReadLeaderPvc, Go
  <2>2. ASSUME Witnessed(metrics) PROVE Witnessed(metrics')
    <3>1. CASE UNCHANGED metrics
      BY <2>2, <3>1 DEF Witnessed
    <3>2. CASE metrics' = [metrics EXCEPT !.primary_bound = metrics.leader_pod \in bound]
      BY <1>4, <2>1, <2>2, <3>2 DEF Witnessed, TypeOK
    <3>3. QED  BY <1>8, <3>1, <3>2 DEF ReadLeaderPvc
  <2>3. QED  BY <1>3, <1>8, <2>2 DEF ReadLeaderPvc
<1>9. CASE ReadReplicaPvc
  <2>1. pc # "begin"
    BY <1>9 DEF ReadReplicaPvc, Go
  <2>2. ASSUME Witnessed(metrics) PROVE Witnessed(metrics')
    <3>1. CASE UNCHANGED metrics
      BY <2>2, <3>1 DEF Witnessed
    <3>2. CASE metrics' = [metrics EXCEPT
                            !.replica_bound = Other(metrics.leader_pod) \in bound]
      BY <1>4, <2>1, <2>2, <3>2 DEF Witnessed, TypeOK
    <3>3. QED  BY <1>9, <3>1, <3>2 DEF ReadReplicaPvc
  <2>3. QED  BY <1>3, <1>9, <2>2 DEF ReadReplicaPvc
<1>10. CASE ReadCpuRam \/ ReadStorage \/ ReadBandwidth \/ ReadIo
  BY <1>3, <1>10 DEF ReadCpuRam, ReadStorage, ReadBandwidth, ReadIo
<1>11. CASE PutPatroni
  BY <1>3, <1>11 DEF PutPatroni
<1>12. CASE SetGauge
  BY <1>12 DEF SetGauge, WitnessInv, Witnessed
<1>13. CASE (\E c \in Call : TakeSnapshot(c) \/ Respond(c)) \/ Stop \/ UNCHANGED vars
  BY <1>13 DEF TakeSnapshot, Respond, Stop, vars, WitnessInv, Witnessed
<1>14. CASE Change
  <2>1. UNCHANGED <<pc, metrics>>
    BY <1>14 DEF Change
  <2>2. pc # "begin" => witness' = witness \cup Facts(leader', pods', bound')
    BY <1>14 DEF Change
  <2>3. QED  BY <2>1, <2>2 DEF WitnessInv, Witnessed
<1>15. QED
  BY <1>1, <1>2, <1>5, <1>6, <1>7, <1>8, <1>9, <1>10, <1>11, <1>12, <1>13, <1>14
     DEF Next, Collect

LEMMA WitnessImplies == TypeOK /\ WitnessInv => HealthyWitnessed
<1> SUFFICES ASSUME TypeOK, WitnessInv, pc \in {"gauges", "latest"}, Healthy(metrics)
             PROVE  HealthyWitnessed!2
  BY DEF HealthyWitnessed
<1>1. /\ metrics.leader_pod \in Pod /\ metrics.leader_pod # "unknown"
      /\ Pod = {metrics.leader_pod, Other(metrics.leader_pod)}
  BY DEF Healthy, WitnessInv, Witnessed, TypeOK, Pod, Other
<1>2. QED  BY <1>1 DEF WitnessInv, Witnessed, Healthy

(***************************************************************************)
(* Theorems                                                                *)
(***************************************************************************)

LEMMA InvInit == Init => IInv
<1> SUFFICES ASSUME Init PROVE IInv
  OBVIOUS
<1>1. \A i \in 1 .. 8 : Gauges[i] \in Gauge
  BY GaugeCount
<1>2. GaugesOfTwoCollections
  BY <1>1, GaugeCount DEF Init, GaugesOfTwoCollections
<1>3. QED
  BY <1>2, TypeInit DEF Init, IInv, GaugeInv, SnapshotInv, HeldInv, LocalInv, WitnessInv

LEMMA InvStep == IInv /\ [Next]_vars => IInv'
BY TypeStep, GaugeStep, SnapshotStep, LocalStep, WitnessStep DEF IInv

LEMMA Inductive == Spec => []IInv
BY InvInit, InvStep, PTL DEF Spec

\* Every variable keeps its values, through any number of collections.
THEOREM TypeCorrect == Spec => []TypeOK
BY Inductive, PTL DEF IInv

\* A scrape sees the gauges of at most two collections (telemetry.py:340-353).
THEOREM TwoCollections == Spec => []GaugesOfTwoCollections
BY Inductive, PTL DEF IInv

\* cluster_healthy is never made up of things none of which was true.
THEOREM HealthyTruthful == Spec => []HealthyWitnessed
<1>1. IInv => HealthyWitnessed
  BY WitnessImplies DEF IInv
<1>2. QED  BY Inductive, <1>1, PTL

\* However many calls of GetClusterMetrics are open at once, what each answers
\* from is whole, and not older than any answered from before it began.
THEOREM WholeSnapshots == Spec => []SnapshotsWhole
<1>1. IInv => SnapshotsWhole
  BY DEF IInv, SnapshotInv, HeldInv, SnapshotsWhole
<1>2. QED  BY Inductive, <1>1, PTL
=============================================================================
