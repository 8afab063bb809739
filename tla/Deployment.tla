----------------------------- MODULE Deployment -----------------------------
(***************************************************************************)
(* The operator's scripts deploy.sh, teardown.sh and test-failover.sh, run *)
(* one at a time against a cluster whose controllers go on by themselves:  *)
(* a script may be interrupted or meet an API server that fails, and be    *)
(* run again over whatever the run before has left.                        *)
(***************************************************************************)
EXTENDS Naturals, Sequences

CONSTANTS
  MaxFaults,   \* bound: failed kubectl commands, interrupted scripts, failed pods
  MaxOther,    \* bound: runs of scripts other than deploy.sh
  MaxPatches   \* bound: patches of the scaling consumer

ASSUME BoundsAssumption == MaxFaults \in Nat /\ MaxOther \in Nat /\ MaxPatches \in Nat

VARIABLES
  namespace,   \* "absent", "active" or "terminating"
  objects,     \* manifests whose objects exist in the namespace
  template, state, runs,   \* of PostgresStatefulSet
  other,       \* the states of the pods of etcd and PgBouncer
  orphans,     \* pods whose owner was deleted, not yet collected
  claims,      \* PostgreSQL pods that have a claim
  script, at,  \* the script under way and its next command
  result,      \* how the last run of deploy.sh ended
  faults, otherRuns, patches,
  \* history
  seenReady,   \* pods ready at some instant since deploy.sh was last begun
  etcdServed   \* etcd has been ready in this namespace

Template == {"manifest", "scaled"}
K == INSTANCE PostgresStatefulSet WITH Fitting <- Template   \* both fit on a node

podVars == <<template, state, runs, other, orphans>>
scriptVars == <<script, at, result, otherRuns>>
bounds == <<faults, patches>>
history == <<seenReady, etcdServed>>
vars == <<namespace, objects, podVars, claims, scriptVars, bounds, history>>

OtherPod == {"etcd-0", "pgbouncer"}
Pod == K!Pod \cup OtherPod

Owner(p) == CASE p \in K!Pod -> "statefulset"
              [] p = "etcd-0" -> "etcd"
              [] p = "pgbouncer" -> "pgbouncer"

StateOf(p) == IF p \in K!Pod THEN state[p] ELSE other[p]

Manifest == {"rbac", "secrets", "configmap", "services", "etcd", "statefulset", "pgbouncer"}

Apply(file) == [do |-> "apply", on |-> file]
Delete(file) == [do |-> "delete", on |-> file]
Wait(pod) == [do |-> "wait", on |-> pod]

\* Plausible bug: the wait for etcd is left out.
Deploy_etcdNotAwaited ==
  << Apply("namespace"), Apply("rbac"), Apply("secrets"), Apply("configmap"),
     Apply("services"), Apply("etcd"), Apply("statefulset"),
     Wait("postgres-0"), Wait("postgres-1"), Apply("pgbouncer"), Wait("pgbouncer") >>

Deploy ==
  << Apply("namespace"), Apply("rbac"), Apply("secrets"), Apply("configmap"),
     Apply("services"), Apply("etcd"), Wait("etcd-0"), Apply("statefulset"),
     Wait("postgres-0"), Wait("postgres-1"), Apply("pgbouncer"), Wait("pgbouncer") >>

\* From the confirmation on: etcd and the roles go with the namespace.
Teardown ==
  << Delete("pgbouncer"), Delete("statefulset"), Delete("services"),
     Delete("configmap"), Delete("secrets"), Delete("namespace") >>

\* Its SQL commands are left out.
TestFailover ==
  << [do |-> "require", on |-> "postgres-0"], [do |-> "kill", on |-> "postgres-0"],
     Wait("postgres-0") >>

Scripts == [deploy |-> Deploy, teardown |-> Teardown, failover |-> TestFailover]

Command == Scripts[script][at]

Init ==
  /\ namespace = "absent"
  /\ objects = {}
  /\ template = "manifest"
  /\ state = [p \in K!Pod |-> "absent"]
  /\ runs = [p \in K!Pod |-> "manifest"]
  /\ other = [p \in OtherPod |-> "absent"]
  /\ orphans = {}
  /\ claims = {}
  /\ script = "none" /\ at = 0 /\ result = "none"
  /\ faults = 0 /\ otherRuns = 0 /\ patches = 0
  /\ seenReady = {} /\ etcdServed = FALSE

Fault == faults < MaxFaults /\ faults' = faults + 1

----------------------------------------------------------------------------
(* Scripts                                                                 *)

Begin(name) ==
  /\ script = "none"
  /\ \/ name = "deploy" /\ result' = "none" /\ UNCHANGED otherRuns
     \/ name # "deploy" /\ otherRuns < MaxOther /\ otherRuns' = otherRuns + 1
        /\ UNCHANGED result
  /\ script' = name /\ at' = 1
  /\ UNCHANGED <<namespace, objects, podVars, claims, bounds>>

End(how) ==
  /\ script' = "none" /\ at' = 0
  /\ result' = IF script = "deploy" THEN how ELSE result

\* The next command follows, and after the last one the script is complete.
Passed ==
  /\ UNCHANGED otherRuns
  /\ IF at < Len(Scripts[script])
       THEN at' = at + 1 /\ UNCHANGED <<script, result>>
       ELSE End("complete")

\* Plausible bug: deploy.sh has no "set -e" either.
Failed_goesOn == Passed

\* Only deploy.sh says "set -e"; test-failover.sh tests its first command.
Failed ==
  \/ /\ script = "deploy" \/ Command.do = "require"
     /\ End("failed")
     /\ UNCHANGED otherRuns
  \/ /\ ~(script = "deploy" \/ Command.do = "require")
     /\ Passed

KubectlFails ==
  /\ script # "none"
  /\ Fault
  /\ Failed
  /\ UNCHANGED <<namespace, objects, podVars, claims, patches>>

Interrupt ==
  /\ script # "none"
  /\ Fault
  /\ End("failed")
  /\ UNCHANGED <<namespace, objects, podVars, claims, otherRuns, patches>>

\* Plausible bug: kubectl create, which fails on what is there.
ApplyNamespace_create ==
  /\ Command = Apply("namespace")
  /\ IF namespace = "absent"
       THEN namespace' = "active" /\ Passed
       ELSE Failed /\ UNCHANGED namespace
  /\ UNCHANGED <<objects, podVars, claims, bounds>>

\* A namespace that is being deleted is reported as unchanged.
ApplyNamespace ==
  /\ Command = Apply("namespace")
  /\ namespace' = IF namespace = "absent" THEN "active" ELSE namespace
  /\ Passed
  /\ UNCHANGED <<objects, podVars, claims, bounds>>

\* Plausible bug: a file that names no namespace goes into the default one.
ApplyManifest_anyNamespace ==
  /\ Command.do = "apply" /\ Command.on # "namespace"
  /\ objects' = objects \cup {Command.on}
  /\ Passed
  /\ UNCHANGED <<namespace, podVars, claims, bounds>>

\* Objects are made or brought back to the manifest; none can be made in a
\* namespace that is absent or being deleted.
ApplyManifest ==
  /\ Command.do = "apply" /\ Command.on # "namespace"
  /\ IF namespace = "active" \/ Command.on \in objects
       THEN /\ objects' = objects \cup {Command.on}
            /\ template' = IF Command.on = "statefulset" THEN "manifest" ELSE template
            /\ Passed
       ELSE Failed /\ UNCHANGED <<objects, template>>
  /\ UNCHANGED <<namespace, state, runs, other, orphans, claims, bounds>>

\* "kubectl wait" fails at once without a pod, and in time without a ready one.
WaitReady ==
  /\ Command.do \in {"wait", "require"}
  /\ IF StateOf(Command.on) = "ready" THEN Passed ELSE Failed
  /\ UNCHANGED <<namespace, objects, podVars, claims, bounds>>

\* Pods of what is deleted stay until they are collected.
Orphaned(file) == {p \in Pod : Owner(p) = file /\ StateOf(p) # "absent"}

DeleteManifest ==
  /\ Command.do = "delete" /\ Command.on # "namespace"
  /\ objects' = objects \ {Command.on}
  /\ orphans' = orphans \cup Orphaned(Command.on)
  /\ Passed
  /\ UNCHANGED <<namespace, template, state, runs, other, claims, bounds>>

\* "kubectl delete" asks for the deletion, then waits until all is gone.
DeleteNamespace ==
  /\ Command = Delete("namespace")
  /\ \/ /\ namespace = "active"
        /\ namespace' = "terminating"
        /\ UNCHANGED scriptVars
     \/ namespace = "absent" /\ Passed /\ UNCHANGED namespace
  /\ UNCHANGED <<objects, podVars, claims, bounds>>

KillPod ==
  /\ Command.do = "kill"
  /\ IF StateOf(Command.on) # "absent"
       THEN state' = [state EXCEPT ![Command.on] = "absent"] /\ Passed
       ELSE Failed /\ UNCHANGED state
  /\ orphans' = orphans \ {Command.on}
  /\ UNCHANGED <<namespace, objects, template, runs, other, claims, bounds>>

Step ==
  /\ script # "none"
  /\ \/ ApplyNamespace \/ ApplyManifest \/ WaitReady
     \/ DeleteManifest \/ DeleteNamespace \/ KillPod

----------------------------------------------------------------------------
(* The cluster                                                             *)

Owned(p) == Owner(p) \in objects /\ p \notin orphans

\* No pod is made in a namespace that is being deleted, nor while one of the
\* name is left from a deleted StatefulSet.
CreatePostgres(p) ==
  /\ "statefulset" \in objects /\ namespace = "active"
  /\ "postgres-0" \notin orphans
  /\ K!CreatePod(p)
  /\ claims' = claims \cup {p}
  /\ UNCHANGED other

\* Patroni needs its passwords and etcd to make a member ready.
PostgresReady(p) ==
  /\ "secrets" \in objects /\ other["etcd-0"] = "ready"
  /\ Owned(p)
  /\ K!PodReady(p)
  /\ UNCHANGED <<claims, other>>

RollOut(p) == Owned(p) /\ K!RollOut(p) /\ UNCHANGED <<claims, other>>

Control(p) ==
  /\ CreatePostgres(p) \/ PostgresReady(p) \/ RollOut(p)
  /\ UNCHANGED <<namespace, objects, orphans, scriptVars, bounds>>

\* The pods of etcd and PgBouncer.
ControlOther(p) ==
  /\ Owned(p)
  /\ \/ other[p] = "absent" /\ namespace = "active" /\ other' = [other EXCEPT ![p] = "starting"]
     \/ other[p] = "starting" /\ other' = [other EXCEPT ![p] = "ready"]
  /\ UNCHANGED <<namespace, objects, template, state, runs, orphans, claims, scriptVars, bounds>>

\* Orphans are deleted, and every pod of a namespace that is being deleted.
CollectPod(p) ==
  /\ StateOf(p) # "absent"
  /\ p \in orphans \/ namespace = "terminating"
  /\ IF p \in K!Pod
       THEN state' = [state EXCEPT ![p] = "absent"] /\ UNCHANGED other
       ELSE other' = [other EXCEPT ![p] = "absent"] /\ UNCHANGED state
  /\ orphans' = orphans \ {p}
  /\ UNCHANGED <<namespace, objects, template, runs, claims, scriptVars, bounds>>

\* The namespace's objects go (in one step), each claim after its pod, then
\* the namespace itself.
CollectNamespace ==
  /\ namespace = "terminating"
  /\ \/ /\ objects # {}
        /\ objects' = {}
        /\ orphans' = orphans \cup UNION {Orphaned(file) : file \in objects}
        /\ UNCHANGED <<namespace, claims>>
     \/ \E p \in claims :
          /\ state[p] = "absent"
          /\ claims' = claims \ {p}
          /\ UNCHANGED <<namespace, objects, orphans>>
     \/ /\ objects = {} /\ claims = {} /\ \A p \in Pod : StateOf(p) = "absent"
        /\ namespace' = "absent"
        /\ UNCHANGED <<objects, orphans, claims>>
  /\ UNCHANGED <<template, state, runs, other, scriptVars, bounds>>

PodFails(p) ==
  /\ Fault
  /\ \/ p \in K!Pod /\ K!PodFails(p) /\ UNCHANGED other
     \/ /\ p \in OtherPod /\ other[p] = "ready"
        /\ other' = [other EXCEPT ![p] = "starting"]
        /\ UNCHANGED <<template, state, runs>>
  /\ UNCHANGED <<namespace, objects, orphans, claims, scriptVars, patches>>

\* The scaling consumer patches the StatefulSet.
ScalePatch ==
  /\ "statefulset" \in objects
  /\ patches < MaxPatches
  /\ patches' = patches + 1
  /\ template' = "scaled"
  /\ UNCHANGED <<namespace, objects, state, runs, other, orphans, claims, scriptVars, faults>>

----------------------------------------------------------------------------

Ready == {p \in Pod : StateOf(p) = "ready"}

Note ==
  /\ seenReady' = Ready' \cup IF script = "none" /\ script' = "deploy" THEN {} ELSE seenReady
  /\ etcdServed' = (namespace' # "absent" /\ (etcdServed \/ "etcd-0" \in Ready'))

Environment ==
  \/ \E p \in K!Pod : Control(p)
  \/ \E p \in OtherPod : ControlOther(p)
  \/ \E p \in Pod : CollectPod(p) \/ PodFails(p)
  \/ CollectNamespace
  \/ ScalePatch

Next ==
  /\ \/ \E name \in DOMAIN Scripts : Begin(name)
     \/ Step \/ KubectlFails \/ Interrupt
     \/ Environment
  /\ Note

Spec == Init /\ [][Next]_vars

\* A script that was begun runs on, and Kubernetes' controllers and kubelets
\* do; nothing makes the operator begin a script.
Fairness ==
  /\ WF_vars(Step /\ Note)
  /\ \A p \in K!Pod : WF_vars(Control(p) /\ Note)
  /\ \A p \in OtherPod : WF_vars(ControlOther(p) /\ Note)
  /\ \A p \in Pod : WF_vars(CollectPod(p) /\ Note)
  /\ WF_vars(CollectNamespace /\ Note)

FairSpec == Spec /\ Fairness

----------------------------------------------------------------------------
(* Properties                                                              *)

TypeOK ==
  /\ namespace \in {"absent", "active", "terminating"}
  /\ objects \subseteq Manifest
  /\ namespace = "absent" => objects = {} /\ claims = {}
  /\ template \in Template
  /\ state \in [K!Pod -> K!State]
  /\ runs \in [K!Pod -> Template]
  /\ other \in [OtherPod -> K!State]
  /\ orphans \subseteq {p \in Pod : StateOf(p) # "absent"}
  /\ claims \subseteq K!Pod
  /\ \/ script = "none" /\ at = 0
     \/ script \in DOMAIN Scripts /\ at \in DOMAIN Scripts[script]
  /\ result \in {"none", "complete", "failed"}
  /\ faults \in 0 .. MaxFaults /\ otherRuns \in 0 .. MaxOther /\ patches \in 0 .. MaxPatches
  /\ seenReady \subseteq Pod
  /\ etcdServed \in BOOLEAN

\* "Deploy Complete" can be trusted: each of the four pods was ready at some
\* instant of the run, whatever failed in it and whatever an earlier run or an
\* interrupted teardown had left.
CompleteMeansReady == result = "complete" => Pod \subseteq seenReady

\* "etcd (required for Patroni)": no PostgreSQL pod is made in a namespace in
\* which etcd has not been ready, also when deploy.sh is run again half-way or
\* over a namespace that is going away.
EtcdFirst == (\E p \in K!Pod : state[p] # "absent") => etcdServed

\* Deploying again helps: an operator who does so again and again, once no
\* more faults occur, gets "Deploy Complete" over pods that all run the
\* manifest, from whatever state failed runs, an interrupted teardown, a
\* killed pod or a scaled cluster have left.
DeployRecovers ==
  []<>(script = "deploy" /\ at = 1) =>
    []<>(/\ result = "complete"
         /\ Ready = Pod
         /\ K!UpToDate /\ template = "manifest")
=============================================================================
