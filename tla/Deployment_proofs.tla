------------------------- MODULE Deployment_proofs -------------------------
(***************************************************************************)
(* Proofs about Deployment: any number of runs of the scripts, failed      *)
(* commands, interrupted scripts, failing pods and scaling patches.        *)
(***************************************************************************)
EXTENDS Deployment, TLAPS

(* A run of deploy.sh has seen ready what it has waited for.                *)
WaitInv ==
  /\ Ready \subseteq seenReady
  /\ script = "deploy" =>
       /\ result = "none"
       /\ \A i \in 1 .. 12 : i < at /\ Deploy[i].do = "wait" => Deploy[i].on \in seenReady

(* Where the StatefulSet is, or is about to be applied, etcd has served.    *)
ServedInv ==
  /\ namespace = "absent" => ~etcdServed /\ \A p \in Pod : StateOf(p) = "absent"
  /\ script = "deploy" /\ at > 7 /\ namespace # "absent" => etcdServed
  /\ "statefulset" \in objects => etcdServed
  /\ other["etcd-0"] = "ready" => etcdServed

IInv == TypeOK /\ WaitInv /\ CompleteMeansReady /\ ServedInv /\ EtcdFirst

(***************************************************************************)
(* The scripts                                                             *)
(***************************************************************************)

LEMMA Pods ==
  /\ K!Pod = {"postgres-0", "postgres-1"}
  /\ OtherPod = {"etcd-0", "pgbouncer"}
  /\ Pod = {"postgres-0", "postgres-1", "etcd-0", "pgbouncer"}
  /\ K!State = {"absent", "starting", "ready"}
BY DEF K!Pod, K!State, OtherPod, Pod

LEMMA ScriptNames ==
  /\ DOMAIN Scripts = {"deploy", "teardown", "failover"} /\ "none" \notin DOMAIN Scripts
  /\ Scripts["deploy"] = Deploy /\ Scripts["teardown"] = Teardown
  /\ Scripts["failover"] = TestFailover
BY DEF Scripts

LEMMA DeployCommands ==
  /\ Len(Deploy) = 12 /\ DOMAIN Deploy = 1 .. 12
  /\ Deploy[1] = Apply("namespace") /\ Deploy[2] = Apply("rbac")
  /\ Deploy[3] = Apply("secrets") /\ Deploy[4] = Apply("configmap")
  /\ Deploy[5] = Apply("services") /\ Deploy[6] = Apply("etcd")
  /\ Deploy[7] = Wait("etcd-0") /\ Deploy[8] = Apply("statefulset")
  /\ Deploy[9] = Wait("postgres-0") /\ Deploy[10] = Wait("postgres-1")
  /\ Deploy[11] = Apply("pgbouncer") /\ Deploy[12] = Wait("pgbouncer")
BY DEF Deploy

LEMMA TeardownCommands ==
  /\ Len(Teardown) = 6 /\ DOMAIN Teardown = 1 .. 6
  /\ \A i \in 1 .. 6 : \E file \in Manifest \cup {"namespace"} : Teardown[i] = Delete(file)
BY DEF Teardown, Manifest

LEMMA FailoverCommands ==
  /\ Len(TestFailover) = 3 /\ DOMAIN TestFailover = 1 .. 3
  /\ TestFailover[1] = [do |-> "require", on |-> "postgres-0"]
  /\ TestFailover[2] = [do |-> "kill", on |-> "postgres-0"]
  /\ TestFailover[3] = Wait("postgres-0")
BY DEF TestFailover

LEMMA Lengths ==
  ASSUME NEW s \in DOMAIN Scripts
  PROVE  Len(Scripts[s]) \in Nat \ {0} /\ DOMAIN Scripts[s] = 1 .. Len(Scripts[s])
<1>1. CASE s = "deploy"
  BY <1>1, ScriptNames, DeployCommands
<1>2. CASE s = "teardown"
  BY <1>2, ScriptNames, TeardownCommands
<1>3. CASE s = "failover"
  BY <1>3, ScriptNames, FailoverCommands
<1>4. QED  BY <1>1, <1>2, <1>3, ScriptNames

\* What the next command can be, from what it does.
LEMMA Commands ==
  ASSUME TypeOK, script # "none"
  PROVE  /\ Command.do = "apply" => script = "deploy" /\ Command.on \in Manifest \cup {"namespace"}
         /\ Command.do = "apply" /\ Command.on = "namespace" => at = 1
         /\ Command.do = "apply" /\ Command.on = "statefulset" => at = 8
         /\ Command.do \in {"wait", "require"} => Command.on \in Pod
         /\ Command.do = "delete" => Command.on \in Manifest \cup {"namespace"}
         /\ Command.do = "kill" => Command.on \in K!Pod
         /\ script = "deploy" =>
              Command = Deploy[at] /\ at \in 1 .. 12 /\ Command.do \in {"apply", "wait"}
<1> USE DEF Apply, Delete, Wait, Command
<1>1. CASE script = "deploy"
  <2>1. at \in 1 .. 12 /\ Scripts[script] = Deploy
    BY <1>1, ScriptNames, DeployCommands DEF TypeOK
  <2>2. QED  BY <1>1, <2>1, DeployCommands, Pods DEF Manifest
<1>2. CASE script = "teardown"
  <2>1. at \in 1 .. 6 /\ Scripts[script] = Teardown
    BY <1>2, ScriptNames, TeardownCommands DEF TypeOK
  <2>2. QED  BY <1>2, <2>1, TeardownCommands
<1>3. CASE script = "failover"
  <2>1. at \in 1 .. 3 /\ Scripts[script] = TestFailover
    BY <1>3, ScriptNames, FailoverCommands DEF TypeOK
  <2>2. QED  BY <1>3, <2>1, FailoverCommands, Pods
<1>4. QED  BY <1>1, <1>2, <1>3, ScriptNames DEF TypeOK

(***************************************************************************)
(* Types                                                                   *)
(***************************************************************************)

ClusterType ==
  /\ namespace \in {"absent", "active", "terminating"}
  /\ objects \subseteq Manifest
  /\ namespace = "absent" => objects = {} /\ claims = {}
  /\ template \in Template
  /\ state \in [K!Pod -> K!State]
  /\ runs \in [K!Pod -> Template]
  /\ other \in [OtherPod -> K!State]
  /\ orphans \subseteq {p \in Pod : StateOf(p) # "absent"}
  /\ claims \subseteq K!Pod

ScriptType ==
  /\ \/ script = "none" /\ at = 0
     \/ script \in DOMAIN Scripts /\ at \in DOMAIN Scripts[script]
  /\ result \in {"none", "complete", "failed"}
  /\ faults \in 0 .. MaxFaults /\ otherRuns \in 0 .. MaxOther /\ patches \in 0 .. MaxPatches

HistoryType == seenReady \subseteq Pod /\ etcdServed \in BOOLEAN

LEMMA TypeParts == TypeOK <=> ClusterType /\ ScriptType /\ HistoryType
BY DEF TypeOK, ClusterType, ScriptType, HistoryType

LEMMA States ==
  /\ \A p \in K!Pod : StateOf(p) = state[p] /\ p \notin OtherPod /\ p \in Pod
  /\ \A p \in OtherPod : StateOf(p) = other[p] /\ p \notin K!Pod /\ p \in Pod
  /\ \A p \in Pod : p \in K!Pod \/ p \in OtherPod
BY Pods DEF StateOf

\* How the script moves on after a command, and how it ends.
LEMMA Outcomes ==
  ASSUME TypeOK, script # "none",
         Passed \/ Failed \/ (End("failed") /\ UNCHANGED otherRuns)
  PROVE  /\ \/ script' = "none" /\ at' = 0
            \/ script' \in DOMAIN Scripts /\ at' \in DOMAIN Scripts[script']
         /\ result' \in {"none", "complete", "failed"} /\ UNCHANGED otherRuns
         /\ script' \in {script, "none"}
         /\ script' = "deploy" => Passed /\ at' = at + 1 /\ UNCHANGED result
         /\ script = "deploy" /\ result' = "complete" =>
              Passed /\ (at = 12 \/ result = "complete")
         /\ script # "deploy" => UNCHANGED result
<1>1. /\ script \in DOMAIN Scripts /\ at \in 1 .. Len(Scripts[script])
      /\ Len(Scripts[script]) \in Nat \ {0} /\ DOMAIN Scripts[script] = 1 .. Len(Scripts[script])
      /\ result \in {"none", "complete", "failed"}
      /\ script = "deploy" => Len(Scripts[script]) = 12
  BY Lengths, ScriptNames, DeployCommands DEF TypeOK
<1>2. CASE Passed
  <2>1. CASE at < Len(Scripts[script])
    <3>1. at + 1 \in 1 .. Len(Scripts[script])
      BY <1>1, <2>1
    <3>2. QED  BY <1>1, <1>2, <2>1, <3>1, ScriptNames DEF Passed
  <2>2. CASE ~(at < Len(Scripts[script]))
    <3>1. script = "deploy" => at = 12
      <4>1. at \in 1 .. Len(Scripts[script]) /\ ~(at < Len(Scripts[script]))
        BY <1>1, <2>2
      <4>2. ASSUME NEW n \in Nat, n = Len(Scripts[script]) PROVE at = n
        BY <4>1, <4>2
      <4>3. QED  BY <1>1, <4>2
    <3>2. End("complete") /\ UNCHANGED otherRuns
      BY <1>2, <2>2 DEF Passed
    <3>3. /\ script' = "none" /\ at' = 0 /\ UNCHANGED otherRuns
          /\ result' = IF script = "deploy" THEN "complete" ELSE result
      BY <3>2 DEF End
    <3>4. QED  BY <1>1, <1>2, <3>1, <3>3, ScriptNames
  <2>3. QED  BY <2>1, <2>2
<1>3. CASE End("failed") /\ UNCHANGED otherRuns
  BY <1>1, <1>3, ScriptNames DEF End
<1>4. CASE Failed
  BY <1>2, <1>3, <1>4 DEF Failed
<1>5. QED  BY <1>2, <1>3, <1>4

LEMMA ScriptStep == TypeOK /\ Next => ScriptType'
<1> SUFFICES ASSUME TypeOK, Next PROVE ScriptType'
  OBVIOUS
<1> USE DEF scriptVars, bounds
<1>1. ASSUME NEW name \in DOMAIN Scripts, Begin(name) PROVE ScriptType'
  <2>1. 1 \in DOMAIN Scripts[name]
    BY Lengths
  <2>2. QED  BY <1>1, <2>1, BoundsAssumption DEF Begin, TypeOK, ScriptType
<1>2. ASSUME script # "none", UNCHANGED bounds,
             Passed \/ Failed PROVE ScriptType'
  BY <1>2, Outcomes DEF TypeOK, ScriptType
<1>3. ASSUME UNCHANGED <<scriptVars, bounds>> PROVE ScriptType'
  BY <1>3 DEF TypeOK, ScriptType
<1>4. CASE Step
  BY <1>2, <1>3, <1>4 DEF Step, ApplyNamespace, ApplyManifest, WaitReady, DeleteManifest,
     DeleteNamespace, KillPod
<1>5. CASE KubectlFails \/ Interrupt
  <2>1. /\ script # "none" /\ UNCHANGED patches
        /\ Failed \/ (End("failed") /\ UNCHANGED otherRuns)
    BY <1>5 DEF KubectlFails, Interrupt
  <2>2. faults' \in 0 .. MaxFaults
    BY <1>5, BoundsAssumption DEF KubectlFails, Interrupt, Fault, TypeOK
  <2>3. QED  BY <2>1, <2>2, Outcomes DEF TypeOK, ScriptType
<1>6. ASSUME NEW p \in Pod, PodFails(p) PROVE ScriptType'
  BY <1>6, BoundsAssumption DEF PodFails, Fault, TypeOK, ScriptType
<1>7. CASE ScalePatch
  BY <1>7, BoundsAssumption DEF ScalePatch, TypeOK, ScriptType
<1>8. CASE \/ \E p \in K!Pod : Control(p)
           \/ \E p \in OtherPod : ControlOther(p)
           \/ \E p \in Pod : CollectPod(p)
           \/ CollectNamespace
  BY <1>3, <1>8 DEF Control, ControlOther, CollectPod, CollectNamespace
<1>9. QED  BY <1>1, <1>4, <1>5, <1>6, <1>7, <1>8 DEF Next, Environment

\* A step that keeps the pods, and at most lets some become orphans.
LEMMA PodsKept ==
  ASSUME TypeOK, UNCHANGED <<state, runs, other>>,
         orphans' \subseteq {p \in Pod : StateOf(p) # "absent"},
         template' \in Template
  PROVE  /\ state' \in [K!Pod -> K!State] /\ runs' \in [K!Pod -> Template]
         /\ other' \in [OtherPod -> K!State] /\ template' \in Template
         /\ orphans' \subseteq {p \in Pod : StateOf(p)' # "absent"}
BY DEF TypeOK, StateOf

\* A step that changes the state of one pod, which is absent only if it is no
\* orphan then.
LEMMA PodMoved ==
  ASSUME TypeOK, NEW p \in Pod, NEW x \in K!State, UNCHANGED template,
         \/ p \in K!Pod /\ state' = [state EXCEPT ![p] = x] /\ UNCHANGED other
         \/ p \in OtherPod /\ other' = [other EXCEPT ![p] = x] /\ UNCHANGED state,
         \/ UNCHANGED runs
         \/ p \in K!Pod /\ runs' = [runs EXCEPT ![p] = template],
         orphans' \subseteq orphans, x = "absent" => p \notin orphans'
  PROVE  /\ state' \in [K!Pod -> K!State] /\ runs' \in [K!Pod -> Template]
         /\ other' \in [OtherPod -> K!State] /\ template' \in Template
         /\ orphans' \subseteq {q \in Pod : StateOf(q)' # "absent"}
         /\ StateOf(p)' = x /\ \A q \in Pod : q # p => StateOf(q)' = StateOf(q)
<1>1. /\ state \in [K!Pod -> K!State] /\ other \in [OtherPod -> K!State]
      /\ runs \in [K!Pod -> Template] /\ template \in Template
      /\ orphans \subseteq {q \in Pod : StateOf(q) # "absent"}
  BY DEF TypeOK
<1>2. /\ \A q \in K!Pod : StateOf(q)' = state'[q]
      /\ \A q \in OtherPod : StateOf(q)' = other'[q]
  BY Pods DEF StateOf
<1>3. StateOf(p)' = x /\ \A q \in Pod : q # p => StateOf(q)' = StateOf(q)
  BY <1>1, <1>2, States
<1>4. orphans' \subseteq {q \in Pod : StateOf(q)' # "absent"}
  BY <1>1, <1>3
<1>5. /\ state' \in [K!Pod -> K!State] /\ runs' \in [K!Pod -> Template]
      /\ other' \in [OtherPod -> K!State] /\ template' \in Template
  BY <1>1
<1>6. QED  BY <1>3, <1>4, <1>5

LEMMA ClusterStep == TypeOK /\ Next => ClusterType'
<1> SUFFICES ASSUME TypeOK, Next PROVE ClusterType'
  OBVIOUS
<1> USE DEF podVars, scriptVars, bounds
<1>1. ASSUME UNCHANGED <<namespace, objects, podVars, claims>> PROVE ClusterType'
  BY <1>1 DEF TypeOK, ClusterType, StateOf
<1>2. CASE \/ \E name \in DOMAIN Scripts : Begin(name)
           \/ KubectlFails \/ Interrupt \/ (Step /\ WaitReady)
  BY <1>1, <1>2 DEF Begin, KubectlFails, Interrupt, WaitReady
<1>3. CASE Step /\ ApplyNamespace
  BY <1>3 DEF ApplyNamespace, TypeOK, ClusterType, StateOf
<1>4. CASE Step /\ ApplyManifest
  <2>1. Command.on \in Manifest /\ UNCHANGED <<namespace, state, runs, other, orphans, claims>>
    BY <1>4, Commands DEF Step, ApplyManifest
  <2>2. /\ objects' \subseteq Manifest /\ template' \in Template
        /\ namespace = "absent" => objects' = {}
    BY <1>4, <2>1 DEF ApplyManifest, TypeOK, Template
  <2>3. orphans' \subseteq {p \in Pod : StateOf(p) # "absent"}
    BY <2>1 DEF TypeOK
  <2>4. QED  BY <2>1, <2>2, <2>3, PodsKept DEF TypeOK, ClusterType
<1>5. CASE Step /\ DeleteManifest
  <2>1. orphans' \subseteq {p \in Pod : StateOf(p) # "absent"}
    BY <1>5 DEF DeleteManifest, Orphaned, TypeOK
  <2>2. QED  BY <1>5, <2>1, PodsKept DEF DeleteManifest, TypeOK, ClusterType
<1>6. CASE Step /\ DeleteNamespace
  BY <1>6 DEF DeleteNamespace, TypeOK, ClusterType, StateOf
<1>7. CASE Step /\ KillPod
  <2>1. /\ Command.on \in K!Pod /\ Command.on \in Pod /\ "absent" \in K!State
        /\ UNCHANGED <<namespace, objects, template, runs, other, claims>>
    BY <1>7, Commands, Pods DEF Step, KillPod
  <2>2. CASE StateOf(Command.on) # "absent"
    BY <1>7, <2>1, <2>2, PodMoved DEF KillPod, TypeOK, ClusterType
  <2>3. CASE ~(StateOf(Command.on) # "absent")
    <3>1. orphans' \subseteq {p \in Pod : StateOf(p) # "absent"} /\ UNCHANGED state
      BY <1>7, <2>3 DEF KillPod, TypeOK
    <3>2. QED  BY <2>1, <3>1, PodsKept DEF TypeOK, ClusterType
  <2>4. QED  BY <2>2, <2>3
<1>8. ASSUME NEW p \in K!Pod, Control(p) PROVE ClusterType'
  <2>1. /\ p \in Pod /\ "starting" \in K!State /\ "ready" \in K!State /\ "absent" \in K!State
        /\ UNCHANGED <<namespace, objects, template, orphans, other>>
    BY <1>8, Pods DEF Control, CreatePostgres, PostgresReady, RollOut, K!CreatePod,
       K!PodReady, K!RollOut
  <2>2. CASE CreatePostgres(p)
    BY <2>1, <2>2, PodMoved DEF CreatePostgres, K!CreatePod, TypeOK, ClusterType
  <2>3. CASE PostgresReady(p)
    BY <2>1, <2>3, PodMoved DEF PostgresReady, K!PodReady, TypeOK, ClusterType
  <2>4. CASE RollOut(p)
    BY <2>1, <2>4, PodMoved DEF RollOut, Owned, K!RollOut, TypeOK, ClusterType
  <2>5. QED  BY <1>8, <2>2, <2>3, <2>4 DEF Control
<1>9. ASSUME NEW p \in OtherPod, ControlOther(p) PROVE ClusterType'
  <2>1. /\ p \in Pod /\ "starting" \in K!State /\ "ready" \in K!State
        /\ UNCHANGED <<namespace, objects, template, state, runs, orphans, claims>>
    BY <1>9, Pods DEF ControlOther
  <2>2. PICK x \in {"starting", "ready"} : other' = [other EXCEPT ![p] = x]
    BY <1>9 DEF ControlOther
  <2>3. QED  BY <2>1, <2>2, PodMoved DEF TypeOK, ClusterType
<1>10. ASSUME NEW p \in Pod, CollectPod(p) PROVE ClusterType'
  <2>1. /\ "absent" \in K!State
        /\ UNCHANGED <<namespace, objects, template, runs, claims>>
        /\ \/ p \in K!Pod /\ state' = [state EXCEPT ![p] = "absent"] /\ UNCHANGED other
           \/ p \in OtherPod /\ other' = [other EXCEPT ![p] = "absent"] /\ UNCHANGED state
        /\ orphans' = orphans \ {p}
    BY <1>10, Pods, States DEF CollectPod
  <2>2. QED  BY <2>1, PodMoved DEF TypeOK, ClusterType
<1>11. ASSUME NEW p \in Pod, PodFails(p) PROVE ClusterType'
  <2>1. /\ "starting" \in K!State
        /\ UNCHANGED <<namespace, objects, template, runs, claims, orphans>>
        /\ \/ p \in K!Pod /\ state' = [state EXCEPT ![p] = "starting"] /\ UNCHANGED other
           \/ p \in OtherPod /\ other' = [other EXCEPT ![p] = "starting"] /\ UNCHANGED state
    BY <1>11, Pods DEF PodFails, K!PodFails
  <2>2. QED  BY <2>1, PodMoved DEF TypeOK, ClusterType
<1>12. CASE CollectNamespace
  <2>1. /\ orphans' \subseteq {p \in Pod : StateOf(p) # "absent"}
        /\ UNCHANGED <<template, state, runs, other>>
    BY <1>12 DEF CollectNamespace, Orphaned, TypeOK
  <2>2. QED  BY <1>12, <2>1, PodsKept DEF CollectNamespace, TypeOK, ClusterType
<1>13. CASE ScalePatch
  <2>1. template' \in Template /\ UNCHANGED <<namespace, objects, state, runs, other, orphans, claims>>
    BY <1>13 DEF ScalePatch, Template
  <2>2. QED  BY <2>1, PodsKept DEF TypeOK, ClusterType
<1>14. QED
  BY <1>2, <1>3, <1>4, <1>5, <1>6, <1>7, <1>8, <1>9, <1>10, <1>11, <1>12, <1>13
     DEF Next, Environment, Step

LEMMA TypeStep == TypeOK /\ Next => TypeOK'
<1> SUFFICES ASSUME TypeOK, Next PROVE TypeOK'
  OBVIOUS
<1>1. HistoryType'
  BY DEF Next, Note, Ready, TypeOK, HistoryType
<1>2. TypeOK' <=> ClusterType' /\ ScriptType' /\ HistoryType'
  BY DEF TypeOK, ClusterType, ScriptType, HistoryType
<1>3. QED  BY <1>1, <1>2, ClusterStep, ScriptStep

(***************************************************************************)
(* deploy.sh                                                               *)
(***************************************************************************)

\* Past a wait, deploy.sh has found the pod ready.
LEMMA Awaited ==
  ASSUME TypeOK, Step, script = "deploy", Command.do = "wait", Passed
  PROVE  StateOf(Command.on) = "ready"
<1>1. WaitReady
  BY DEF Step, ApplyNamespace, ApplyManifest, DeleteManifest, DeleteNamespace, KillPod,
     Apply, Delete
<1>2. SUFFICES ASSUME StateOf(Command.on) # "ready" PROVE FALSE
  OBVIOUS
<1>3. script' = "none" /\ result' = "failed"
  BY <1>1, <1>2 DEF WaitReady, Failed, End
<1>4. QED  BY <1>3 DEF Passed, End

\* What the next step of a script is: one of the script's own, or none.
LEMMA ScriptMoves ==
  ASSUME TypeOK, Next
  PROVE  \/ \E name \in DOMAIN Scripts : Begin(name)
         \/ /\ script # "none"
            /\ Passed \/ Failed \/ (End("failed") /\ UNCHANGED otherRuns)
            /\ script = "deploy" /\ Passed => Step
         \/ UNCHANGED scriptVars
<1>1. CASE Step
  BY <1>1 DEF Step, ApplyNamespace, ApplyManifest, WaitReady, DeleteManifest,
     DeleteNamespace, KillPod
<1>2. CASE KubectlFails \/ Interrupt
  <2>1. script # "none" /\ (Failed \/ (End("failed") /\ UNCHANGED otherRuns))
    BY <1>2 DEF KubectlFails, Interrupt
  <2>2. script = "deploy" => ~Passed
    BY <1>2 DEF KubectlFails, Interrupt, Failed, Passed, End
  <2>3. QED  BY <2>1, <2>2
<1>3. CASE Environment
  BY <1>3 DEF Environment, Control, ControlOther, CollectPod, CollectNamespace, PodFails,
     ScalePatch
<1>4. QED  BY <1>1, <1>2, <1>3 DEF Next

LEMMA WaitStep ==
  TypeOK /\ WaitInv /\ CompleteMeansReady /\ Next => WaitInv' /\ CompleteMeansReady'
<1> SUFFICES ASSUME TypeOK, WaitInv, CompleteMeansReady, Next
             PROVE  WaitInv' /\ CompleteMeansReady'
  OBVIOUS
<1>1. /\ Ready' \subseteq seenReady'
      /\ ~(script = "none" /\ script' = "deploy") => seenReady \subseteq seenReady'
  BY DEF Next, Note
<1>2. ASSUME NEW name \in DOMAIN Scripts, Begin(name)
      PROVE  WaitInv' /\ CompleteMeansReady'
  <2>1. /\ at' = 1 /\ script' = name /\ script = "none"
        /\ name = "deploy" => result' = "none"
        /\ name # "deploy" => UNCHANGED result
    BY <1>2 DEF Begin
  <2>2. QED  BY <1>1, <2>1 DEF WaitInv, CompleteMeansReady
<1>3. CASE UNCHANGED scriptVars
  BY <1>1, <1>3 DEF scriptVars, WaitInv, CompleteMeansReady
<1>4. ASSUME script # "none",
             Passed \/ Failed \/ (End("failed") /\ UNCHANGED otherRuns),
             script = "deploy" /\ Passed => Step
      PROVE  WaitInv' /\ CompleteMeansReady'
  <2>1. seenReady \subseteq seenReady'
    BY <1>1, <1>4
  <2>2. CASE script # "deploy"
    <3>1. script' # "deploy" /\ UNCHANGED result
      BY <1>4, <2>2, Outcomes
    <3>2. QED  BY <1>1, <2>1, <3>1 DEF WaitInv, CompleteMeansReady
  <2>3. CASE script = "deploy"
    <3>1. /\ script' = "deploy" => Passed /\ at' = at + 1 /\ UNCHANGED result
          /\ result' = "complete" => Passed /\ at = 12
          /\ at \in 1 .. 12 /\ Command = Deploy[at]
      BY <1>4, <2>3, Outcomes, Commands DEF WaitInv
    <3>2. ASSUME Passed, Deploy[at].do = "wait" PROVE Deploy[at].on \in seenReady
      <4>1. StateOf(Command.on) = "ready" /\ Command.on \in Pod
        BY <1>4, <2>3, <3>1, <3>2, Awaited, Commands
      <4>2. QED  BY <3>1, <4>1 DEF WaitInv, Ready
    <3>3. ASSUME Passed, NEW i \in 1 .. 12, i <= at, Deploy[i].do = "wait"
          PROVE  Deploy[i].on \in seenReady
      <4>1. CASE i < at
        BY <2>3, <3>3, <4>1 DEF WaitInv
      <4>2. CASE i = at
        BY <3>2, <3>3, <4>2
      <4>3. QED  BY <3>1, <3>3, <4>1, <4>2
    <3>4. WaitInv'
      BY <1>1, <2>1, <2>3, <3>1, <3>3 DEF WaitInv
    <3>5. CompleteMeansReady'
      <4>1. SUFFICES ASSUME result' = "complete" PROVE Pod \subseteq seenReady
        BY <2>1 DEF CompleteMeansReady
      <4>2. Passed /\ at = 12
        BY <3>1, <4>1
      <4>3. /\ Deploy[7].on \in seenReady /\ Deploy[9].on \in seenReady
            /\ Deploy[10].on \in seenReady /\ Deploy[12].on \in seenReady
        BY <3>3, <4>2, DeployCommands DEF Wait
      <4>4. QED  BY <4>3, DeployCommands, Pods DEF Wait
    <3>6. QED  BY <3>4, <3>5
  <2>4. QED  BY <2>2, <2>3
<1>5. QED  BY <1>2, <1>3, <1>4, ScriptMoves

(***************************************************************************)
(* etcd                                                                    *)
(***************************************************************************)

\* A pod is only made in a namespace that stays, and a PostgreSQL pod only for
\* the StatefulSet.
LEMMA PodAppears ==
  ASSUME TypeOK, Next, NEW p \in Pod, StateOf(p) = "absent", StateOf(p)' # "absent"
  PROVE  namespace' = "active" /\ (p \in K!Pod => "statefulset" \in objects)
<1>1. /\ state \in [K!Pod -> K!State] /\ other \in [OtherPod -> K!State]
      /\ p \in K!Pod => StateOf(p) = state[p] /\ StateOf(p)' = state'[p]
      /\ p \in OtherPod => StateOf(p) = other[p] /\ StateOf(p)' = other'[p]
      /\ ~(p \in K!Pod /\ p \in OtherPod) /\ (p \in K!Pod \/ p \in OtherPod)
  BY Pods, States DEF TypeOK, StateOf
<1>2. ~UNCHANGED <<state, other>>
  BY <1>1
<1>3. Environment \/ (Step /\ KillPod)
  BY <1>2 DEF Next, Begin, Step, KubectlFails, Interrupt, ApplyNamespace, ApplyManifest,
     WaitReady, DeleteManifest, DeleteNamespace, podVars
<1>4. ~(Step /\ KillPod)
  BY <1>1 DEF KillPod
<1>5. ASSUME NEW q \in K!Pod, Control(q)
      PROVE  namespace' = "active" /\ (p \in K!Pod => "statefulset" \in objects)
  <2>1. CASE CreatePostgres(q)
    BY <1>5, <2>1 DEF CreatePostgres, Control
  <2>2. CASE PostgresReady(q) \/ RollOut(q)
    <3>1. p \in K!Pod /\ state[q] # "absent" /\ UNCHANGED other
      BY <1>1, <1>5, <2>2 DEF PostgresReady, RollOut, K!PodReady, K!RollOut, K!AllReady
    <3>2. PICK x \in {"ready", "absent"} : state' = [state EXCEPT ![q] = x]
      BY <2>2 DEF PostgresReady, RollOut, K!PodReady, K!RollOut
    <3>3. QED  BY <1>1, <3>1, <3>2
  <2>3. QED  BY <1>5, <2>1, <2>2 DEF Control
<1>6. ASSUME NEW q \in OtherPod, ControlOther(q)
      PROVE  namespace' = "active" /\ (p \in K!Pod => "statefulset" \in objects)
  BY <1>1, <1>6 DEF ControlOther
<1>7. ASSUME NEW q \in Pod, CollectPod(q) \/ PodFails(q) PROVE FALSE
  <2>1. CASE CollectPod(q)
    BY <1>1, <2>1 DEF CollectPod
  <2>2. CASE PodFails(q)
    BY <1>1, <2>2 DEF PodFails, K!PodFails
  <2>3. QED  BY <1>7, <2>1, <2>2
<1>8. ~CollectNamespace /\ ~ScalePatch
  BY <1>2 DEF CollectNamespace, ScalePatch
<1>9. QED  BY <1>3, <1>4, <1>5, <1>6, <1>7, <1>8 DEF Environment

\* The namespace is made by the first command of deploy.sh, and goes last.
LEMMA NamespaceMoves ==
  ASSUME TypeOK, Next
  PROVE  /\ namespace = "absent" /\ namespace' # "absent" =>
              script = "deploy" /\ at = 1
         /\ namespace # "absent" /\ namespace' = "absent" =>
              \A p \in Pod : StateOf(p)' = "absent"
<1>1. CASE UNCHANGED namespace
  BY <1>1
<1>2. CASE Step /\ ApplyNamespace
  <2>1. Command.do = "apply" /\ Command.on = "namespace" /\ script # "none"
    BY <1>2 DEF Step, ApplyNamespace, Apply
  <2>2. QED  BY <1>2, <2>1, Commands DEF ApplyNamespace
<1>3. CASE Step /\ DeleteNamespace
  BY <1>3 DEF DeleteNamespace
<1>4. CASE CollectNamespace
  BY <1>4 DEF CollectNamespace, StateOf
<1>5. QED
  BY <1>1, <1>2, <1>3, <1>4 DEF Next, Begin, Step, KubectlFails, Interrupt, ApplyManifest,
     WaitReady, DeleteManifest, KillPod, Environment, Control, ControlOther, CollectPod,
     PodFails, ScalePatch

\* The StatefulSet is made by the eighth command of deploy.sh, in a namespace
\* that is there.
LEMMA StatefulSetApplied ==
  ASSUME TypeOK, Next, "statefulset" \notin objects, "statefulset" \in objects'
  PROVE  script = "deploy" /\ at = 8 /\ namespace = "active"
<1>1. ASSUME ApplyManifest, script # "none"
      PROVE  script = "deploy" /\ at = 8 /\ namespace = "active"
  <2>1. Command.do = "apply" /\ Command.on = "statefulset" /\ namespace = "active"
    BY <1>1 DEF ApplyManifest
  <2>2. QED  BY <1>1, <2>1, Commands
<1>2. QED
  BY <1>1 DEF Next, Begin, Step, KubectlFails, Interrupt, ApplyNamespace, WaitReady,
     DeleteManifest, DeleteNamespace, KillPod, Environment, Control, ControlOther,
     CollectPod, CollectNamespace, PodFails, ScalePatch

LEMMA ServedStep ==
  TypeOK /\ WaitInv /\ ServedInv /\ EtcdFirst /\ Next => ServedInv' /\ EtcdFirst'
<1> SUFFICES ASSUME TypeOK, WaitInv, ServedInv, EtcdFirst, Next
             PROVE  ServedInv' /\ EtcdFirst'
  OBVIOUS
<1>1. etcdServed' = (namespace' # "absent" /\ (etcdServed \/ "etcd-0" \in Ready'))
  BY DEF Next, Note
<1>2. TypeOK'
  BY TypeStep
<1>3. namespace' = "absent" => \A p \in Pod : StateOf(p)' = "absent"
  <2>1. CASE namespace = "absent"
    BY <2>1, PodAppears DEF ServedInv
  <2>2. CASE namespace # "absent"
    BY <2>2, NamespaceMoves
  <2>3. QED  BY <2>1, <2>2
<1>4. ASSUME script' = "deploy", at' > 7, namespace' # "absent" PROVE etcdServed
  <2>1. CASE \E name \in DOMAIN Scripts : Begin(name)
    BY <1>4, <2>1 DEF Begin
  <2>2. CASE UNCHANGED scriptVars
    BY <1>4, <2>2, NamespaceMoves DEF scriptVars, ServedInv
  <2>3. ASSUME script # "none",
               Passed \/ Failed \/ (End("failed") /\ UNCHANGED otherRuns),
               script = "deploy" /\ Passed => Step
        PROVE  etcdServed
    <3>1. /\ script = "deploy" /\ Passed /\ Step /\ at' = at + 1 /\ at \in 1 .. 12
          /\ Command = Deploy[at]
      BY <1>4, <2>3, Outcomes, Commands, ScriptNames
    <3>2. CASE at > 7
      <4>1. namespace # "absent"
        BY <1>4, <3>1, <3>2, NamespaceMoves
      <4>2. QED  BY <3>1, <3>2, <4>1 DEF ServedInv
    <3>3. CASE at = 7
      <4>1. Command.do = "wait" /\ Command.on = "etcd-0"
        BY <3>1, <3>3, DeployCommands DEF Wait
      <4>2. StateOf("etcd-0") = "ready"
        BY <3>1, <4>1, Awaited
      <4>3. QED  BY <4>2, States, Pods DEF ServedInv
    <3>4. QED  BY <1>4, <3>1, <3>2, <3>3
  <2>4. QED  BY <2>1, <2>2, <2>3, ScriptMoves
<1>5. ASSUME "statefulset" \in objects' PROVE etcdServed /\ namespace' # "absent"
  <2>1. namespace' # "absent"
    BY <1>2, <1>5 DEF TypeOK
  <2>2. etcdServed
    BY <1>5, StatefulSetApplied DEF ServedInv
  <2>3. QED  BY <2>1, <2>2
<1>6. ASSUME other'["etcd-0"] = "ready" PROVE "etcd-0" \in Ready' /\ namespace' # "absent"
  <2>1. StateOf("etcd-0")' = "ready" /\ "etcd-0" \in Pod
    BY <1>6, Pods DEF StateOf
  <2>2. QED  BY <1>3, <2>1 DEF Ready
<1>7. ASSUME NEW p \in K!Pod, state'[p] # "absent" PROVE etcdServed /\ namespace' # "absent"
  <2>1. p \in Pod /\ StateOf(p)' # "absent" /\ StateOf(p) = state[p]
    BY <1>7, States DEF StateOf
  <2>2. CASE state[p] = "absent"
    BY <2>1, <2>2, PodAppears DEF ServedInv
  <2>3. CASE state[p] # "absent"
    BY <1>3, <2>1, <2>3 DEF EtcdFirst
  <2>4. QED  BY <2>2, <2>3
<1>8. ServedInv'
  BY <1>1, <1>3, <1>4, <1>5, <1>6 DEF ServedInv
<1>9. QED  BY <1>1, <1>7, <1>8 DEF EtcdFirst

(***************************************************************************)
(* Theorems                                                                *)
(***************************************************************************)

LEMMA InvInit == Init => IInv
<1> SUFFICES ASSUME Init PROVE IInv
  OBVIOUS
<1>1. \A p \in Pod : StateOf(p) = "absent"
  BY States DEF Init
<1>2. TypeOK
  <2>1. /\ state \in [K!Pod -> K!State] /\ other \in [OtherPod -> K!State]
        /\ runs \in [K!Pod -> Template] /\ template \in Template
        /\ orphans \subseteq {p \in Pod : StateOf(p) # "absent"} /\ claims \subseteq K!Pod
    BY Pods DEF Init, Template
  <2>2. /\ 0 \in 0 .. MaxFaults /\ 0 \in 0 .. MaxOther /\ 0 \in 0 .. MaxPatches
    BY BoundsAssumption
  <2>3. QED  BY <2>1, <2>2 DEF Init, TypeOK
<1>3. WaitInv /\ CompleteMeansReady
  BY <1>1 DEF Init, WaitInv, CompleteMeansReady, Ready
<1>4. ServedInv /\ EtcdFirst
  BY <1>1, Pods DEF Init, ServedInv, EtcdFirst
<1>5. QED  BY <1>2, <1>3, <1>4 DEF IInv

LEMMA InvStep == IInv /\ [Next]_vars => IInv'
<1> SUFFICES ASSUME IInv, [Next]_vars PROVE IInv'
  OBVIOUS
<1>1. CASE Next
  BY <1>1, TypeStep, WaitStep, ServedStep DEF IInv
<1>2. CASE UNCHANGED vars
  <2>1. UNCHANGED <<namespace, objects, template, state, runs, other, orphans, claims, script,
                    at, result, otherRuns, faults, patches, seenReady, etcdServed>>
    BY <1>2 DEF vars, podVars, scriptVars, bounds, history
  <2>2. \A p \in Pod : StateOf(p)' = StateOf(p)
    BY <2>1 DEF StateOf
  <2>3. TypeOK' /\ CompleteMeansReady' /\ EtcdFirst'
    BY <2>1, <2>2 DEF IInv, TypeOK, CompleteMeansReady, EtcdFirst
  <2>4. WaitInv' /\ ServedInv'
    BY <2>1, <2>2 DEF IInv, WaitInv, ServedInv, Ready
  <2>5. QED  BY <2>3, <2>4 DEF IInv
<1>3. QED  BY <1>1, <1>2

LEMMA Inductive == Spec => []IInv
BY InvInit, InvStep, PTL DEF Spec

\* The objects, pods and claims of the cluster and the scripts keep their
\* values, whatever fails and however often the scripts are run.
THEOREM TypeCorrect == Spec => []TypeOK
BY Inductive, PTL DEF IInv

\* "Deploy Complete" (deploy.sh) means that every pod was ready in that run.
THEOREM CompleteTrusted == Spec => []CompleteMeansReady
BY Inductive, PTL DEF IInv

\* No PostgreSQL pod is made before etcd has been ready (deploy.sh waits for
\* it before it applies the StatefulSet).
THEOREM EtcdBeforePostgres == Spec => []EtcdFirst
BY Inductive, PTL DEF IInv
=============================================================================
