----------------------- MODULE TenantLifecycle_proofs -----------------------
(***************************************************************************)
(* Theorems about TenantLifecycle, for every set of calls and tenants,     *)
(* every pool size, and every way the cluster and the database manager     *)
(* behave.                                                                 *)
(***************************************************************************)
EXTENDS TenantLifecycle, FiniteSetTheorems, TLAPS

\* The answers the handler of r can give.
AnswerOf(r) == IF r \in ProvisionCall THEN ProvisionAnswer ELSE TerminateAnswer

(* Only ProvisionTenant checks capacity and creates.                       *)
HandlerInv ==
  \A r \in Request :
    /\ pc[r] \in Checking \cup {"cluster_status", "create"} => r \in ProvisionCall
    /\ pc[r] = "delete" => r \notin ProvisionCall

(* How far a call has come, its answer and its database request agree.     *)
ProgressInv ==
  \A r \in Request :
    /\ pc[r] # "done" => answer[r] = "none"
    /\ pc[r] = "done" =>
         answer[r] \in AnswerOf(r) \cup {"lost", "raised"}
    /\ pc[r] \notin {"calling", "done"} => dbcall[r] = "none"
    /\ pc[r] = "calling" => dbcall[r] # "none"
    /\ answer[r] \in Definitive => dbcall[r] = "success"
    /\ answer[r] \in {"FAILED_capacity", "raised"} => dbcall[r] = "none"
    /\ answer[r] = "FAILED_db" => dbcall[r] # "none"

(* A check witnesses what is healthy while it runs, its flags are things it *)
(* witnessed, and only a passed check goes on.                              *)
CapacityInv ==
  \A r \in ProvisionCall :
    /\ pc[r] \in Checking => healthy \subseteq witness[r]
    /\ seen[r] \subseteq witness[r]
    /\ pc[r] \in {"idle", "queued", "check_primary"} => seen[r] = {}
    /\ pc[r] \in {"cluster_status", "create", "calling"} \/ dbcall[r] # "none"
         => seen[r] = Checked \/ (AllowDev /\ seen[r] = {})

(* At most one call is active of a tenant whose calls never overlapped.     *)
SerialInv ==
  \A q, r \in Request :
    /\ SchemaOf[q] = SchemaOf[r] /\ Active(q) /\ Active(r)
    /\ SchemaOf[r] \notin overlapped
    => q = r

(* Such a tenant, without ghosts, has the schema its latest call asked for, *)
(* counting the active call from the moment it commits.                     *)
Committed(r) == Active(r) /\ dbcall[r] = "success"

SettledInv ==
  \A t \in Tenant \ overlapped : ~Ghost(t) =>
    /\ \A r \in Request : SchemaOf[r] = t /\ Committed(r) =>
         (t \in schemas <=> r \in ProvisionCall)
    /\ (\A r \in Request : SchemaOf[r] = t => ~Committed(r)) =>
         (t \in schemas <=> settled[t] = "READY")

IInv == TypeOK /\ HandlerInv /\ ProgressInv /\ CapacityInv /\ SerialInv /\ SettledInv

(***************************************************************************)
(* Types                                                                   *)
(***************************************************************************)

\* Answering a call keeps the types: its label is one of its counter's.
LEMMA ReplyType ==
  ASSUME TypeOK, NEW r \in Request, NEW a \in AnswerOf(r), Reply(r, a)
  PROVE  /\ pc' \in [Request -> PC]
         /\ answer' \in [Request -> Answer]
         /\ PROVISION_REQUESTS' \in [{"success", "failed_capacity", "failed_db"} -> Nat]
         /\ TERMINATE_REQUESTS' \in [{"success", "failed"} -> Nat]
         /\ settled' \in [Tenant -> Definitive \cup {"none"}]
<1>1. pc' \in [Request -> PC]
  BY DEF Reply, TypeOK, PC
<1>2. answer' \in [Request -> Answer]
  BY DEF Reply, TypeOK, Answer, AnswerOf
<1>3. settled' \in [Tenant -> Definitive \cup {"none"}]
  BY CallsAssumption DEF Reply, TypeOK
<1>4. CASE r \in ProvisionCall
  <2>1. Label(a) \in {"success", "failed_capacity", "failed_db"}
    BY <1>4 DEF Label, AnswerOf, ProvisionAnswer, Definitive
  <2>2. PROVISION_REQUESTS' \in [{"success", "failed_capacity", "failed_db"} -> Nat]
    BY <1>4, <2>1 DEF Reply, TypeOK
  <2>3. TERMINATE_REQUESTS' \in [{"success", "failed"} -> Nat]
    BY <1>4 DEF Reply, TypeOK
  <2>4. QED  BY <1>1, <1>2, <1>3, <2>2, <2>3
<1>5. CASE r \notin ProvisionCall
  <2>1. Label(a) \in {"success", "failed"}
    BY <1>5 DEF Label, AnswerOf, TerminateAnswer, Definitive
  <2>2. TERMINATE_REQUESTS' \in [{"success", "failed"} -> Nat]
    BY <1>5, <2>1 DEF Reply, TypeOK
  <2>3. PROVISION_REQUESTS' \in [{"success", "failed_capacity", "failed_db"} -> Nat]
    BY <1>5 DEF Reply, TypeOK
  <2>4. QED  BY <1>1, <1>2, <1>3, <2>2, <2>3
<1>6. QED  BY <1>4, <1>5

LEMMA TypeInit == Init => TypeOK /\ HandlerInv
BY BoundsAssumption DEF Init, TypeOK, HandlerInv, ClusterObject, Pod, PC, Answer, Checking

LEMMA TypeStep == TypeOK /\ HandlerInv /\ [Next]_vars => TypeOK' /\ HandlerInv'
<1> SUFFICES ASSUME TypeOK, HandlerInv, [Next]_vars PROVE TypeOK' /\ HandlerInv'
  OBVIOUS
<1> USE DEF clusterVars, dbVars, serverVars, callVars, metricVars, historyVars
<1>1. ASSUME NEW r \in Request, Send(r) PROVE TypeOK' /\ HandlerInv'
  <2>1. SchemaOf[r] \in Tenant
    BY CallsAssumption
  <2>2. overlapped' \subseteq Tenant
    BY <1>1, <2>1 DEF Send, TypeOK
  <2>3. QED  BY <1>1, <2>2 DEF Send, TypeOK, HandlerInv, PC, Checking
<1>2. ASSUME NEW r \in Request, Start(r) PROVE TypeOK' /\ HandlerInv'
  <2>1. Facts(healthy, leader) \subseteq ClusterObject \cup {"leader_storage"}
    BY DEF Facts, TypeOK
  <2>2. Tail(queue) \in Seq(Request)
    BY <1>2 DEF Start, TypeOK
  <2>3. QED  BY <1>2, <2>1, <2>2 DEF Start, TypeOK, HandlerInv, PC, Working, Checking
<1>3. ASSUME NEW r \in Request, NEW a \in AnswerOf(r), Reply(r, a),
             UNCHANGED <<clusterVars, dbVars, serverVars, witness, overlapped>>,
             seen' \in [Request -> SUBSET Checked]
      PROVE  TypeOK' /\ HandlerInv'
  <2>1. HandlerInv'  BY <1>3 DEF Reply, TypeOK, HandlerInv, Checking
  <2>2. QED  BY <1>3, <2>1, ReplyType DEF TypeOK
<1>4. ASSUME NEW r \in Request, CheckUnconfigured(r) PROVE TypeOK' /\ HandlerInv'
  <2>1. "FAILED_capacity" \in AnswerOf(r)
    BY <1>4 DEF CheckUnconfigured, HandlerInv, Checking, AnswerOf, ProvisionAnswer
  <2>2. CASE AllowDev
    BY <1>4, <2>2 DEF CheckUnconfigured, TypeOK, HandlerInv, PC, Working, Checking
  <2>3. CASE ~AllowDev
    <3>1. Reply(r, "FAILED_capacity") /\ seen' \in [Request -> SUBSET Checked]
      BY <1>4, <2>3 DEF CheckUnconfigured, TypeOK
    <3>2. QED  BY <1>3, <1>4, <2>1, <3>1 DEF CheckUnconfigured
  <2>4. QED  BY <2>2, <2>3
<1>5. ASSUME NEW r \in Request, CheckPrimary(r) PROVE TypeOK' /\ HandlerInv'
  BY <1>5 DEF CheckPrimary, ReadFlag, TypeOK, HandlerInv, PC, Working, Checking, Checked
<1>6. ASSUME NEW r \in Request, CheckReplica(r) PROVE TypeOK' /\ HandlerInv'
  BY <1>6 DEF CheckReplica, ReadFlag, TypeOK, HandlerInv, PC, Working, Checking, Checked
<1>7. ASSUME NEW r \in Request, CheckStorage(r) PROVE TypeOK' /\ HandlerInv'
  <2>1. "FAILED_capacity" \in AnswerOf(r)
    BY <1>7 DEF CheckStorage, HandlerInv, Checking, AnswerOf, ProvisionAnswer
  <2>2. seen' \in [Request -> SUBSET Checked]
    BY <1>7 DEF CheckStorage, ReadFlag, TypeOK, Checked
  <2>3. CASE seen'[r] = Checked
    BY <1>7, <2>2, <2>3 DEF CheckStorage, TypeOK, HandlerInv, PC, Working, Checking
  <2>4. CASE seen'[r] # Checked
    <3>1. Reply(r, "FAILED_capacity")  BY <1>7, <2>4 DEF CheckStorage
    <3>2. QED  BY <1>3, <1>7, <2>1, <2>2, <3>1 DEF CheckStorage
  <2>5. QED  BY <2>3, <2>4
<1>8. ASSUME NEW r \in Request, CheckRaises(r) PROVE TypeOK' /\ HandlerInv'
  <2>1. "FAILED_capacity" \in AnswerOf(r)
    BY <1>8 DEF CheckRaises, HandlerInv, AnswerOf, ProvisionAnswer
  <2>2. QED  BY <1>3, <1>8, <2>1 DEF CheckRaises, TypeOK
<1>9. ASSUME NEW r \in Request, ClusterStatus(r) PROVE TypeOK' /\ HandlerInv'
  BY <1>9 DEF ClusterStatus, TypeOK, HandlerInv, PC, Working, Checking
<1>10. ASSUME NEW r \in Request, CreateTenantSchema(r) \/ DeleteTenantSchema(r)
       PROVE  TypeOK' /\ HandlerInv'
  BY <1>10 DEF CreateTenantSchema, DeleteTenantSchema, SendToDb, TypeOK, HandlerInv,
               PC, Working, Checking
<1>11. ASSUME NEW r \in Request, Receive(r) PROVE TypeOK' /\ HandlerInv'
  <2>1. (IF dbcall[r] = "success" THEN Succeeded(r) ELSE Failed(r)) \in AnswerOf(r)
    BY DEF Succeeded, Failed, AnswerOf, ProvisionAnswer, TerminateAnswer
  <2>2. QED  BY <1>3, <1>11, <2>1 DEF Receive, TypeOK
<1>12. ASSUME NEW r \in Request, RpcError(r) PROVE TypeOK' /\ HandlerInv'
  <2>1. Failed(r) \in AnswerOf(r)
    BY DEF Failed, AnswerOf, ProvisionAnswer, TerminateAnswer
  <2>2. QED  BY <1>3, <1>12, <2>1 DEF RpcError, TypeOK
<1>13. ASSUME NEW r \in Request, DbCommit(r) PROVE TypeOK' /\ HandlerInv'
  BY <1>13, CallsAssumption DEF DbCommit, TypeOK, HandlerInv
<1>14. ASSUME NEW r \in Request, DbRefuse(r) PROVE TypeOK' /\ HandlerInv'
  BY <1>14 DEF DbRefuse, TypeOK, HandlerInv
<1>15. ASSUME NEW o \in ClusterObject, ObjectChanges(o) PROVE TypeOK' /\ HandlerInv'
  <2>1. healthy' \subseteq ClusterObject  BY <1>15 DEF ObjectChanges, TypeOK
  <2>2. witness' \in [Request -> SUBSET (ClusterObject \cup {"leader_storage"})]
    BY <1>15, <2>1 DEF ObjectChanges, Observe, Facts, TypeOK
  <2>3. QED  BY <1>15, <2>1, <2>2 DEF ObjectChanges, TypeOK, HandlerInv
<1>16. ASSUME NEW p \in Pod, Failover(p) PROVE TypeOK' /\ HandlerInv'
  <2>1. witness' \in [Request -> SUBSET (ClusterObject \cup {"leader_storage"})]
    BY <1>16 DEF Failover, Observe, Facts, TypeOK
  <2>2. QED  BY <1>16, <2>1 DEF Failover, TypeOK, HandlerInv
<1>17. ASSUME Restart PROVE TypeOK' /\ HandlerInv'
  BY <1>17, BoundsAssumption DEF Restart, TypeOK, HandlerInv, PC, Answer, Checking
<1>18. CASE UNCHANGED vars
  BY <1>18 DEF vars, TypeOK, HandlerInv
<1>20. ASSUME NEW r \in Request, ClientRaises(r) PROVE TypeOK' /\ HandlerInv'
  BY <1>20 DEF ClientRaises, TypeOK, HandlerInv, PC, Answer, Checking
<1>19. QED
  BY <1>20, <1>1, <1>2, <1>4, <1>5, <1>6, <1>7, <1>8, <1>9, <1>10, <1>11, <1>12, <1>13,
     <1>14, <1>15, <1>16, <1>17, <1>18 DEF Next, Handle

\* Every variable keeps the values its code gives it, through every step of
\* the handlers, the database manager, the cluster and a restart.
THEOREM TypeCorrect == Spec => []TypeOK
<1>1. TypeOK /\ HandlerInv /\ [Next]_vars => (TypeOK /\ HandlerInv)'
  BY TypeStep
<1>2. QED  BY TypeInit, <1>1, PTL DEF Spec

(***************************************************************************)
(* Answers and database requests                                           *)
(***************************************************************************)

LEMMA ProgressStep ==
  TypeOK /\ HandlerInv /\ ProgressInv /\ [Next]_vars => ProgressInv'
<1> SUFFICES ASSUME TypeOK, HandlerInv, ProgressInv, [Next]_vars PROVE ProgressInv'
  OBVIOUS
<1> USE DEF clusterVars, dbVars, serverVars, callVars, metricVars, historyVars
<1>1. ASSUME NEW r \in Request, Send(r) PROVE ProgressInv'
  BY <1>1 DEF Send, TypeOK, ProgressInv, AnswerOf
<1>2. ASSUME NEW r \in Request, Start(r) PROVE ProgressInv'
  <2>1. /\ pc' = [pc EXCEPT ![r] = pc'[r]]
        /\ pc'[r] \in {"check_primary", "delete"}
        /\ pc[r] = "queued"
        /\ UNCHANGED <<dbcall, answer>>
    BY <1>2 DEF Start, TypeOK
  <2>2. QED  BY <2>1 DEF TypeOK, ProgressInv, AnswerOf
\* An answer the handler may give now, however it came about.
<1>3. ASSUME NEW r \in Request, NEW a \in AnswerOf(r), Reply(r, a), UNCHANGED dbcall,
             a \in Definitive => dbcall[r] = "success",
             a = "FAILED_capacity" => dbcall[r] = "none",
             a = "FAILED_db" => dbcall[r] # "none"
      PROVE  ProgressInv'
  <2>1. a # "raised"
    BY <1>3 DEF AnswerOf, ProvisionAnswer, TerminateAnswer
  <2>2. QED  BY <1>3, <2>1 DEF Reply, TypeOK, ProgressInv, AnswerOf
<1>4. ASSUME NEW r \in Request, pc[r] \in Checking, Reply(r, "FAILED_capacity"),
             UNCHANGED dbcall
      PROVE  ProgressInv'
  <2>1. r \in ProvisionCall /\ dbcall[r] = "none"
    BY <1>4 DEF HandlerInv, ProgressInv, Checking
  <2>2. "FAILED_capacity" \in AnswerOf(r)  BY <2>1 DEF AnswerOf, ProvisionAnswer
  <2>3. QED  BY <1>3, <1>4, <2>1, <2>2 DEF Definitive
<1>5. ASSUME NEW r \in Request, CheckUnconfigured(r) PROVE ProgressInv'
  <2>1. CASE AllowDev
    BY <1>5, <2>1 DEF CheckUnconfigured, TypeOK, ProgressInv, AnswerOf
  <2>2. CASE ~AllowDev
    BY <1>4, <1>5, <2>2 DEF CheckUnconfigured, Checking
  <2>3. QED  BY <2>1, <2>2
<1>6. ASSUME NEW r \in Request, CheckPrimary(r) \/ CheckReplica(r) PROVE ProgressInv'
  BY <1>6 DEF CheckPrimary, CheckReplica, TypeOK, ProgressInv, AnswerOf
<1>7. ASSUME NEW r \in Request, CheckStorage(r) PROVE ProgressInv'
  <2>1. CASE seen'[r] = Checked
    BY <1>7, <2>1 DEF CheckStorage, TypeOK, ProgressInv, AnswerOf
  <2>2. CASE seen'[r] # Checked
    BY <1>4, <1>7, <2>2 DEF CheckStorage, Checking
  <2>3. QED  BY <2>1, <2>2
<1>8. ASSUME NEW r \in Request, CheckRaises(r) PROVE ProgressInv'
  BY <1>4, <1>8 DEF CheckRaises
<1>9. ASSUME NEW r \in Request, ClusterStatus(r) PROVE ProgressInv'
  BY <1>9 DEF ClusterStatus, TypeOK, ProgressInv, AnswerOf
<1>10. ASSUME NEW r \in Request, CreateTenantSchema(r) \/ DeleteTenantSchema(r)
       PROVE  ProgressInv'
  BY <1>10 DEF CreateTenantSchema, DeleteTenantSchema, SendToDb, TypeOK, ProgressInv,
               AnswerOf, Definitive
<1>11. ASSUME NEW r \in Request, Receive(r) PROVE ProgressInv'
  <2> DEFINE a == IF dbcall[r] = "success" THEN Succeeded(r) ELSE Failed(r)
  <2>1. /\ a \in AnswerOf(r)
        /\ a \in Definitive => dbcall[r] = "success"
        /\ a # "FAILED_capacity"
        /\ dbcall[r] # "none"
    BY <1>11 DEF Receive, Succeeded, Failed, AnswerOf, ProvisionAnswer,
                 TerminateAnswer, Definitive
  <2>2. QED  BY <1>3, <1>11, <2>1 DEF Receive
<1>12. ASSUME NEW r \in Request, RpcError(r) PROVE ProgressInv'
  <2>1. /\ Failed(r) \in AnswerOf(r)
        /\ Failed(r) \notin Definitive \cup {"FAILED_capacity"}
        /\ dbcall[r] # "none"
    BY <1>12 DEF RpcError, ProgressInv, Failed, AnswerOf, ProvisionAnswer,
                 TerminateAnswer, Definitive
  <2>2. QED  BY <1>3, <1>12, <2>1 DEF RpcError
<1>13. ASSUME NEW r \in Request, DbCommit(r) \/ DbRefuse(r) PROVE ProgressInv'
  BY <1>13 DEF DbCommit, DbRefuse, TypeOK, ProgressInv, AnswerOf, Definitive
<1>14. ASSUME NEW o \in ClusterObject, ObjectChanges(o) PROVE ProgressInv'
  BY <1>14 DEF ObjectChanges, ProgressInv, AnswerOf
<1>15. ASSUME NEW p \in Pod, Failover(p) PROVE ProgressInv'
  BY <1>15 DEF Failover, ProgressInv, AnswerOf
<1>16. ASSUME Restart PROVE ProgressInv'
  BY <1>16 DEF Restart, Active, TypeOK, ProgressInv, AnswerOf, Definitive
<1>17. CASE UNCHANGED vars
  BY <1>17 DEF vars, ProgressInv, AnswerOf
<1>19. ASSUME NEW r \in Request, ClientRaises(r) PROVE ProgressInv'
  <2>1. /\ pc[r] = "check_primary" /\ pc' = [pc EXCEPT ![r] = "done"]
        /\ answer' = [answer EXCEPT ![r] = "raised"] /\ UNCHANGED dbcall
    BY <1>19 DEF ClientRaises
  <2>2. dbcall[r] = "none"
    BY <2>1 DEF ProgressInv
  <2>3. QED  BY <2>1, <2>2 DEF TypeOK, ProgressInv, AnswerOf, Definitive
<1>18. QED
  BY <1>19, <1>1, <1>2, <1>5, <1>6, <1>7, <1>8, <1>9, <1>10, <1>11, <1>12, <1>13, <1>14,
     <1>15, <1>16, <1>17 DEF Next, Handle

\* A call that is refused for capacity never reaches the database manager and
\* a call that fails there did reach it; READY and TERMINATED answers follow
\* the database manager's own.
THEOREM AnswersFollowDatabase == Spec => []ProgressInv
<1>1. Init => ProgressInv
  BY DEF Init, ProgressInv, Definitive
<1>2. (TypeOK /\ HandlerInv /\ ProgressInv) /\ [Next]_vars
        => (TypeOK /\ HandlerInv /\ ProgressInv)'
  BY TypeStep, ProgressStep
<1>3. QED  BY TypeInit, <1>1, <1>2, PTL DEF Spec

(***************************************************************************)
(* The capacity check                                                      *)
(***************************************************************************)

LEMMA CapacityStep ==
  TypeOK /\ HandlerInv /\ ProgressInv /\ CapacityInv /\ [Next]_vars => CapacityInv'
<1> SUFFICES ASSUME TypeOK, HandlerInv, ProgressInv, CapacityInv, [Next]_vars
             PROVE  CapacityInv'
  OBVIOUS
<1> USE DEF clusterVars, dbVars, serverVars, callVars, metricVars, historyVars
<1>1. ASSUME NEW r \in Request, Send(r) PROVE CapacityInv'
  BY <1>1 DEF Send, TypeOK, CapacityInv, Checking
<1>2. ASSUME NEW r \in Request, Start(r) PROVE CapacityInv'
  <2>1. /\ pc[r] = "queued"
        /\ pc' = [pc EXCEPT ![r] = pc'[r]]
        /\ pc'[r] \in {"check_primary", "delete"}
        /\ witness' = [witness EXCEPT ![r] = Facts(healthy, leader)]
        /\ healthy \subseteq Facts(healthy, leader)
        /\ UNCHANGED <<healthy, dbcall, seen>>
    BY <1>2 DEF Start, TypeOK, Facts
  <2>2. r \in ProvisionCall => seen[r] = {}
    BY <2>1 DEF CapacityInv
  <2> HIDE DEF Facts
  <2>3. QED  BY <2>1, <2>2 DEF TypeOK, CapacityInv, ProgressInv, Checking, Request
\* A step that answers a call and leaves its flags alone.
<1>3. ASSUME NEW r \in Request, pc' = [pc EXCEPT ![r] = "done"],
             UNCHANGED <<healthy, dbcall, seen, witness>>
      PROVE  CapacityInv'
  BY <1>3 DEF TypeOK, CapacityInv, Checking
<1>4. ASSUME NEW r \in Request, CheckUnconfigured(r) PROVE CapacityInv'
  <2>1. CASE AllowDev
    BY <1>4, <2>1 DEF CheckUnconfigured, TypeOK, CapacityInv, ProgressInv, Checking, Request
  <2>2. CASE ~AllowDev
    BY <1>3, <1>4, <2>2 DEF CheckUnconfigured, Reply
  <2>3. QED  BY <2>1, <2>2
<1>5. ASSUME NEW r \in Request, NEW o \in Checked, ReadFlag(r, o), pc[r] \in Checking,
             pc' = [pc EXCEPT ![r] = pc'[r]],
             pc'[r] \in {"check_replica", "check_storage", "cluster_status", "done"},
             pc'[r] = "cluster_status" => seen'[r] = Checked,
             UNCHANGED <<healthy, dbcall, witness>>
      PROVE  CapacityInv'
  <2>1. dbcall[r] = "none"  BY <1>5 DEF ProgressInv, Checking
  <2>2. r \in ProvisionCall  BY <1>5 DEF HandlerInv
  <2>3. seen'[r] \subseteq witness[r] /\ \A q \in Request \ {r} : seen'[q] = seen[q]
    BY <1>5, <2>2 DEF ReadFlag, TypeOK, CapacityInv
  <2>4. QED  BY <1>5, <2>1, <2>2, <2>3 DEF TypeOK, CapacityInv, Checking, Request
<1>6. ASSUME NEW r \in Request, CheckPrimary(r) PROVE CapacityInv'
  BY <1>5, <1>6 DEF CheckPrimary, Checking, Checked, TypeOK
<1>7. ASSUME NEW r \in Request, CheckReplica(r) PROVE CapacityInv'
  BY <1>5, <1>7 DEF CheckReplica, Checking, Checked, TypeOK
<1>8. ASSUME NEW r \in Request, CheckStorage(r) PROVE CapacityInv'
  <2>1. /\ ReadFlag(r, PRIMARY_PVC) /\ PRIMARY_PVC \in Checked /\ pc[r] \in Checking
        /\ UNCHANGED <<healthy, dbcall, witness>>
    BY <1>8 DEF CheckStorage, Checking, Checked
  <2>2. /\ pc' = [pc EXCEPT ![r] = pc'[r]]
        /\ pc'[r] \in {"cluster_status", "done"}
        /\ pc'[r] = "cluster_status" => seen'[r] = Checked
    BY <1>8 DEF CheckStorage, Reply, TypeOK
  <2>3. QED  BY <1>5, <2>1, <2>2
<1>9. ASSUME NEW r \in Request, CheckRaises(r) \/ ClientRaises(r) PROVE CapacityInv'
  BY <1>3, <1>9 DEF CheckRaises, ClientRaises, Reply
<1>10. ASSUME NEW r \in Request, ClusterStatus(r) PROVE CapacityInv'
  BY <1>10 DEF ClusterStatus, TypeOK, CapacityInv, Checking
<1>11. ASSUME NEW r \in Request, CreateTenantSchema(r) PROVE CapacityInv'
  BY <1>11 DEF CreateTenantSchema, SendToDb, TypeOK, CapacityInv, Checking
<1>12. ASSUME NEW r \in Request, DeleteTenantSchema(r) PROVE CapacityInv'
  BY <1>12 DEF DeleteTenantSchema, SendToDb, HandlerInv, TypeOK, CapacityInv, Checking
<1>13. ASSUME NEW r \in Request, Receive(r) \/ RpcError(r) PROVE CapacityInv'
  BY <1>3, <1>13 DEF Receive, RpcError, Reply
<1>14. ASSUME NEW r \in Request, DbCommit(r) \/ DbRefuse(r) PROVE CapacityInv'
  BY <1>14 DEF DbCommit, DbRefuse, TypeOK, CapacityInv, Request
<1>15. ASSUME NEW h \in SUBSET ClusterObject, NEW l \in Pod, Observe(h, l),
              healthy' = h, UNCHANGED <<pc, seen, dbcall>>
       PROVE  CapacityInv'
  <2>1. \A r \in Request : /\ witness[r] \subseteq witness'[r]
                           /\ pc[r] \in Checking => h \subseteq witness'[r]
    BY <1>15 DEF Observe, Facts, TypeOK
  <2>2. QED  BY <1>15, <2>1 DEF CapacityInv, Request
<1>16. ASSUME NEW o \in ClusterObject, ObjectChanges(o) PROVE CapacityInv'
  <2>1. healthy' \in SUBSET ClusterObject  BY <1>16 DEF ObjectChanges, TypeOK
  <2>2. QED  BY <1>15, <1>16, <2>1 DEF ObjectChanges, TypeOK
<1>17. ASSUME NEW p \in Pod, Failover(p) PROVE CapacityInv'
  BY <1>15, <1>17 DEF Failover, TypeOK
<1>18. ASSUME Restart PROVE CapacityInv'
  BY <1>18 DEF Restart, Active, TypeOK, CapacityInv, Checking, Request
<1>19. CASE UNCHANGED vars
  BY <1>19 DEF vars, CapacityInv
<1>20. QED
  BY <1>1, <1>2, <1>4, <1>6, <1>7, <1>8, <1>9, <1>10, <1>11, <1>12, <1>13, <1>14,
     <1>16, <1>17, <1>18, <1>19 DEF Next, Handle

\* What has reached the database manager was checked: each object the check
\* reads was healthy at some instant of the call's own check, for any number
\* of calls and threads and whatever fails in between.
THEOREM CreateAfterHealthyReads == Spec => []CreateNeedsHealthyReads
<1>1. Init => ProgressInv /\ CapacityInv
  BY DEF Init, ProgressInv, CapacityInv, Definitive, Checking, Request
<1> DEFINE I == TypeOK /\ HandlerInv /\ ProgressInv /\ CapacityInv
<1>2. I /\ [Next]_vars => I'
  BY TypeStep, ProgressStep, CapacityStep
<1>3. I => CreateNeedsHealthyReads
  BY DEF CapacityInv, CreateNeedsHealthyReads
<1>4. QED  BY TypeInit, <1>1, <1>2, <1>3, PTL DEF Spec

\* The failure label says which layer refused, for good.
THEOREM FailureLabels == Spec => []FailureLabelsTruthful
<1> DEFINE I == TypeOK /\ HandlerInv /\ ProgressInv /\ CapacityInv
<1>1. Init => ProgressInv /\ CapacityInv
  BY DEF Init, ProgressInv, CapacityInv, Definitive, Checking, Request
<1>2. I /\ [Next]_vars => I'
  BY TypeStep, ProgressStep, CapacityStep
<1>3. I => FailureLabelsTruthful
  BY DEF ProgressInv, CapacityInv, FailureLabelsTruthful, Request
<1>4. QED  BY TypeInit, <1>1, <1>2, <1>3, PTL DEF Spec

(***************************************************************************)
(* What a definitive answer is worth                                       *)
(***************************************************************************)

\* Only Send makes a call active, and it marks the tenant when another is.
LEMMA SerialStep ==
  TypeOK /\ HandlerInv /\ SerialInv /\ [Next]_vars => SerialInv'
<1> SUFFICES ASSUME TypeOK, HandlerInv, SerialInv, [Next]_vars PROVE SerialInv'
  OBVIOUS
<1> USE DEF clusterVars, dbVars, serverVars, callVars, metricVars, historyVars
<1>1. ASSUME \A q \in Request : Active(q)' => Active(q), UNCHANGED overlapped
      PROVE  SerialInv'
  BY <1>1 DEF SerialInv
<1>2. ASSUME NEW r \in Request, Send(r) PROVE SerialInv'
  <2>1. \A q \in Request : Active(q)' => Active(q) \/ q = r
    BY <1>2 DEF Send, Active, TypeOK
  <2>2. overlapped \subseteq overlapped' /\ pc[r] = "idle"
    BY <1>2 DEF Send
  <2>3. ASSUME NEW q \in Request, SchemaOf[q] = SchemaOf[r], Active(q)
        PROVE  SchemaOf[r] \in overlapped'
    BY <1>2, <2>3 DEF Send
  <2>4. QED  BY <2>1, <2>2, <2>3 DEF SerialInv
<1>3. ASSUME NEW r \in Request, Start(r) PROVE SerialInv'
  <2>1. pc[r] = "queued" /\ pc' = [pc EXCEPT ![r] = pc'[r]] /\ UNCHANGED overlapped
    BY <1>3 DEF Start, TypeOK
  <2>2. QED  BY <1>1, <2>1 DEF Active, TypeOK
<1>4. ASSUME NEW r \in Request, Handle(r) PROVE SerialInv'
  <2>1. pc[r] \in Working /\ pc' = [pc EXCEPT ![r] = pc'[r]] /\ UNCHANGED overlapped
    BY <1>4 DEF Handle, CheckUnconfigured, ClientRaises, CheckPrimary, CheckReplica, CheckStorage,
       CheckRaises, ClusterStatus, CreateTenantSchema, DeleteTenantSchema, SendToDb,
       Receive, RpcError, Reply, Working, Checking, TypeOK
  <2>2. QED  BY <1>1, <2>1 DEF Active, TypeOK, Working, Checking
<1>5. ASSUME NEW r \in Request, DbCommit(r) \/ DbRefuse(r) PROVE SerialInv'
  BY <1>1, <1>5 DEF DbCommit, DbRefuse, Active
<1>6. ASSUME (\E o \in ClusterObject : ObjectChanges(o)) \/ (\E p \in Pod : Failover(p))
      PROVE  SerialInv'
  BY <1>1, <1>6 DEF ObjectChanges, Failover, Active
<1>7. ASSUME Restart PROVE SerialInv'
  BY <1>1, <1>7 DEF Restart, Active, TypeOK
<1>8. CASE UNCHANGED vars
  BY <1>1, <1>8 DEF vars, Active
<1>9. QED
  BY <1>2, <1>3, <1>4, <1>5, <1>6, <1>7, <1>8 DEF Next

\* A step that leaves the database, the settled answers and the committed
\* calls alone, and lays no ghost to rest.
LEMMA SettledUnchanged ==
  ASSUME SettledInv, UNCHANGED <<schemas, settled>>, overlapped \subseteq overlapped',
         \A r \in Request : Committed(r)' <=> Committed(r),
         \A t \in Tenant : Ghost(t) => Ghost(t)'
  PROVE  SettledInv'
BY DEF SettledInv

\* A step of one call r whose request the database manager has not carried
\* out, before and after.
LEMMA SettledWithoutEffect ==
  ASSUME TypeOK, SettledInv, NEW r \in Request,
         UNCHANGED <<schemas, settled>>, overlapped \subseteq overlapped',
         pc' = [pc EXCEPT ![r] = pc'[r]],
         answer' = [answer EXCEPT ![r] = answer'[r]],
         dbcall' = [dbcall EXCEPT ![r] = dbcall'[r]],
         dbcall[r] # "success", dbcall'[r] # "success"
  PROVE  SettledInv'
<1>1. \A q \in Request : Committed(q)' <=> Committed(q)
  BY DEF Committed, Active, TypeOK
<1>2. \A t \in Tenant : Ghost(t) => Ghost(t)'
  <2> SUFFICES ASSUME NEW t \in Tenant, Ghost(t) PROVE Ghost(t)'
    OBVIOUS
  <2>1. PICK q \in Request : /\ SchemaOf[q] = t
                             /\ pc[q] = "done"
                             /\ answer[q] \notin Definitive
                             /\ dbcall[q] = "success"
    BY DEF Ghost
  <2>2. q # r  BY <2>1
  <2>3. pc'[q] = pc[q] /\ answer'[q] = answer[q] /\ dbcall'[q] = dbcall[q]
    BY <2>2 DEF TypeOK
  <2>4. QED  BY <2>1, <2>3 DEF Ghost
<1>3. QED  BY <1>1, <1>2, SettledUnchanged

LEMMA SettledStep ==
  TypeOK /\ HandlerInv /\ ProgressInv /\ SerialInv /\ SettledInv /\ [Next]_vars
    => SettledInv'
<1> SUFFICES ASSUME TypeOK, HandlerInv, ProgressInv, SerialInv, SettledInv, [Next]_vars
             PROVE  SettledInv'
  OBVIOUS
<1> USE DEF clusterVars, dbVars, serverVars, callVars, metricVars, historyVars
<1>1. ASSUME NEW r \in Request, Send(r) PROVE SettledInv'
  <2>1. dbcall[r] = "none"  BY <1>1 DEF Send, ProgressInv
  <2>2. QED  BY <1>1, <2>1, SettledWithoutEffect DEF Send, TypeOK
<1>2. ASSUME NEW r \in Request, Start(r) PROVE SettledInv'
  <2>1. /\ pc[r] = "queued" /\ pc' = [pc EXCEPT ![r] = pc'[r]]
        /\ UNCHANGED <<schemas, dbcall, answer, settled, overlapped>>
    BY <1>2 DEF Start, TypeOK
  <2>2. dbcall[r] = "none"  BY <2>1 DEF ProgressInv
  <2>3. QED  BY <2>1, <2>2, SettledWithoutEffect DEF TypeOK
<1>3. ASSUME NEW r \in Request,
             \/ CheckUnconfigured(r) \/ CheckPrimary(r) \/ CheckReplica(r)
             \/ CheckStorage(r) \/ CheckRaises(r) \/ ClientRaises(r) \/ ClusterStatus(r)
             \/ CreateTenantSchema(r) \/ DeleteTenantSchema(r)
      PROVE  SettledInv'
  <2>1. pc[r] \notin {"calling", "done"}
    BY <1>3 DEF CheckUnconfigured, CheckPrimary, CheckReplica, CheckStorage,
       CheckRaises, ClientRaises, ClusterStatus, CreateTenantSchema, DeleteTenantSchema, SendToDb,
       Checking
  <2>2. dbcall[r] = "none"  BY <2>1 DEF ProgressInv
  <2>3. /\ UNCHANGED <<schemas, settled, overlapped>>
        /\ pc' = [pc EXCEPT ![r] = pc'[r]]
        /\ answer' = [answer EXCEPT ![r] = answer'[r]]
        /\ dbcall' = [dbcall EXCEPT ![r] = dbcall'[r]]
        /\ dbcall'[r] # "success"
    BY <1>3, <2>2 DEF CheckUnconfigured, CheckPrimary, CheckReplica, CheckStorage,
       CheckRaises, ClientRaises, ClusterStatus, CreateTenantSchema, DeleteTenantSchema, SendToDb,
       Reply, Definitive, TypeOK
  <2>4. QED  BY <2>2, <2>3, SettledWithoutEffect
\* A failed answer: what the call may have done makes a ghost of it.
<1>4. ASSUME NEW r \in Request, pc[r] = "calling", Reply(r, Failed(r)),
             UNCHANGED <<schemas, dbcall, overlapped>>
      PROVE  SettledInv'
  <2>1. /\ UNCHANGED settled
        /\ pc' = [pc EXCEPT ![r] = "done"]
        /\ answer' = [answer EXCEPT ![r] = Failed(r)]
        /\ Failed(r) \notin Definitive
    BY <1>4 DEF Reply, Failed, Definitive
  <2>2. CASE dbcall[r] # "success"
    BY <1>4, <2>1, <2>2, SettledWithoutEffect DEF TypeOK
  <2>3. CASE dbcall[r] = "success"
    <3>1. \A q \in Request : q # r =>
            /\ pc'[q] = pc[q] /\ answer'[q] = answer[q] /\ dbcall'[q] = dbcall[q]
      BY <1>4, <2>1 DEF TypeOK
    <3>2. Ghost(SchemaOf[r])'  BY <1>4, <2>1, <2>3 DEF Ghost, TypeOK
    <3>3. ASSUME NEW t \in Tenant, Ghost(t) PROVE Ghost(t)'
      BY <1>4, <3>1, <3>3 DEF Ghost
    <3>4. \A q \in Request : q # r => (Committed(q)' <=> Committed(q))
      BY <3>1 DEF Committed, Active
    <3>5. QED  BY <1>4, <2>1, <3>2, <3>3, <3>4 DEF SettledInv
  <2>4. QED  BY <2>2, <2>3
<1>5. ASSUME NEW r \in Request, Receive(r) PROVE SettledInv'
  <2>1. CASE dbcall[r] # "success"
    BY <1>4, <1>5, <2>1 DEF Receive
  <2>2. CASE dbcall[r] = "success"
    <3>1. /\ pc[r] = "calling" /\ Succeeded(r) \in Definitive
          /\ pc' = [pc EXCEPT ![r] = "done"]
          /\ answer' = [answer EXCEPT ![r] = Succeeded(r)]
          /\ settled' = [settled EXCEPT ![SchemaOf[r]] = Succeeded(r)]
          /\ UNCHANGED <<schemas, dbcall, overlapped>>
      BY <1>5, <2>2 DEF Receive, Reply, Succeeded, Definitive
    <3>2. \A q \in Request : q # r =>
            /\ pc'[q] = pc[q] /\ answer'[q] = answer[q] /\ dbcall'[q] = dbcall[q]
      BY <3>1 DEF TypeOK
    <3>3. Committed(r) /\ ~Committed(r)'
      BY <2>2, <3>1 DEF Committed, Active, TypeOK
    <3>4. \A q \in Request : q # r => (Committed(q)' <=> Committed(q))
      BY <3>2 DEF Committed, Active
    <3>5. ASSUME NEW t \in Tenant, Ghost(t) PROVE Ghost(t)'
      BY <3>1, <3>2, <3>5 DEF Ghost
    <3>6. SchemaOf[r] \notin overlapped =>
            \A q \in Request : SchemaOf[q] = SchemaOf[r] /\ Committed(q) => q = r
      BY <3>3 DEF SerialInv, Committed
    <3>7. ASSUME NEW t \in Tenant \ overlapped, ~Ghost(t)', t = SchemaOf[r]
          PROVE  /\ \A q \in Request : SchemaOf[q] = t => ~Committed(q)'
                 /\ t \in schemas' <=> settled'[t] = "READY"
      <4>1. \A q \in Request : SchemaOf[q] = t => ~Committed(q)'
        BY <3>3, <3>4, <3>6, <3>7
      <4>2. t \in schemas <=> r \in ProvisionCall
        BY <3>3, <3>5, <3>7 DEF SettledInv
      <4>3. settled'[t] = Succeeded(r)  BY <3>1, <3>7 DEF TypeOK
      <4>4. QED  BY <3>1, <4>1, <4>2, <4>3 DEF Succeeded
    <3>8. ASSUME NEW t \in Tenant \ overlapped, ~Ghost(t)', t # SchemaOf[r]
          PROVE  /\ \A q \in Request : SchemaOf[q] = t =>
                      (Committed(q)' <=> Committed(q))
                 /\ settled'[t] = settled[t]
                 /\ ~Ghost(t)
      BY <3>1, <3>4, <3>5, <3>8 DEF TypeOK
    <3>9. QED  BY <3>1, <3>7, <3>8 DEF SettledInv
  <2>3. QED  BY <2>1, <2>2
<1>6. ASSUME NEW r \in Request, RpcError(r) PROVE SettledInv'
  BY <1>4, <1>6 DEF RpcError
<1>7. ASSUME NEW r \in Request, DbCommit(r) PROVE SettledInv'
  <2>1. /\ dbcall[r] = "open"
        /\ dbcall' = [dbcall EXCEPT ![r] = "success"]
        /\ UNCHANGED <<pc, answer, settled, overlapped>>
    BY <1>7 DEF DbCommit
  <2>2. pc[r] \in {"calling", "done"} /\ answer[r] \notin Definitive
    BY <2>1 DEF ProgressInv, TypeOK
  <2>3. \A q \in Request : q # r => dbcall'[q] = dbcall[q]
    BY <2>1 DEF TypeOK
  <2>4. \A q \in Request : q # r => (Committed(q)' <=> Committed(q))
    BY <2>1, <2>3 DEF Committed, Active
  <2>5. ASSUME NEW t \in Tenant, Ghost(t) PROVE Ghost(t)'
    BY <2>1, <2>3, <2>5 DEF Ghost
  <2>6. ASSUME NEW t \in Tenant \ overlapped, ~Ghost(t)', t = SchemaOf[r]
        PROVE  /\ Committed(r)'
               /\ \A q \in Request : SchemaOf[q] = t /\ Committed(q)' => q = r
               /\ t \in schemas' <=> r \in ProvisionCall
    <3>1. pc[r] # "done"  BY <2>1, <2>2, <2>6 DEF Ghost, TypeOK
    <3>2. Active(r) /\ Committed(r)'
      BY <2>1, <2>2, <3>1 DEF Committed, Active, TypeOK
    <3>3. \A q \in Request : SchemaOf[q] = t /\ Committed(q)' => q = r
      BY <2>4, <2>6, <3>2 DEF SerialInv, Committed
    <3>4. QED  BY <1>7, <2>6, <3>2, <3>3 DEF DbCommit
  <2>7. ASSUME NEW t \in Tenant \ overlapped, ~Ghost(t)', t # SchemaOf[r]
        PROVE  /\ \A q \in Request : SchemaOf[q] = t =>
                    (Committed(q)' <=> Committed(q))
               /\ t \in schemas' <=> t \in schemas
               /\ ~Ghost(t)
    BY <1>7, <2>4, <2>5, <2>7 DEF DbCommit
  <2>8. QED  BY <2>1, <2>6, <2>7 DEF SettledInv
<1>8. ASSUME NEW r \in Request, DbRefuse(r) PROVE SettledInv'
  BY <1>8, SettledWithoutEffect DEF DbRefuse, TypeOK
<1>9. ASSUME (\E o \in ClusterObject : ObjectChanges(o)) \/ (\E p \in Pod : Failover(p))
      PROVE  SettledInv'
  BY <1>9 DEF ObjectChanges, Failover, SettledInv, Ghost, Committed, Active
<1>10. ASSUME Restart PROVE SettledInv'
  <2>1. \A q \in Request : ~Committed(q)'
    BY <1>10 DEF Restart, Committed, Active, TypeOK
  <2>2. ASSUME NEW q \in Request, Committed(q) PROVE Ghost(SchemaOf[q])'
    <3>1. pc'[q] = "done" /\ answer'[q] = "lost" /\ dbcall'[q] = "success"
      BY <1>10, <2>2 DEF Restart, Committed
    <3>2. QED  BY <3>1 DEF Ghost, Definitive
  <2>3. ASSUME NEW t \in Tenant, Ghost(t) PROVE Ghost(t)'
    BY <1>10, <2>3 DEF Restart, Ghost, Active
  <2>4. QED  BY <1>10, <2>1, <2>2, <2>3 DEF Restart, SettledInv
<1>11. CASE UNCHANGED vars
  BY <1>11 DEF vars, SettledInv, Ghost, Committed, Active
<1>12. QED
  BY <1>1, <1>2, <1>3, <1>5, <1>6, <1>7, <1>8, <1>9, <1>10, <1>11 DEF Next, Handle

\* Waiting for answers is enough: between the calls of a tenant that never
\* overlapped, the backend can read the existence of its schema off the latest
\* definitive answer, as long as no failed or lost call took effect.
THEOREM DefinitiveAnswersHold == Spec => []SettledAnswerHolds
<1>1. Init => ProgressInv /\ SerialInv /\ SettledInv
  BY DEF Init, ProgressInv, SerialInv, SettledInv, Committed, Active, Definitive
<1> DEFINE I == TypeOK /\ HandlerInv /\ ProgressInv /\ SerialInv /\ SettledInv
<1>2. I /\ [Next]_vars => I'
  BY TypeStep, ProgressStep, SerialStep, SettledStep
<1>3. I => SettledAnswerHolds
  BY DEF SettledInv, SettledAnswerHolds, Committed
<1>4. QED  BY TypeInit, <1>1, <1>2, <1>3, PTL DEF Spec

(***************************************************************************)
(* Refinement                                                              *)
(***************************************************************************)


\* A step of one call r maps to the abstract step that changes r's phase and
\* effect in the same way.
LEMMA BarStep ==
  ASSUME TypeOK, NEW r \in Request,
         pc' = [pc EXCEPT ![r] = pc'[r]],
         answer' = [answer EXCEPT ![r] = answer'[r]],
         dbcall' = [dbcall EXCEPT ![r] = dbcall'[r]]
  PROVE  /\ phaseBar' = [phaseBar EXCEPT ![r] = phaseBar'[r]]
         /\ effectBar' = [effectBar EXCEPT ![r] = (dbcall'[r] = "success")]
<1>1. \A q \in Request : q # r =>
        /\ pc'[q] = pc[q] /\ answer'[q] = answer[q] /\ dbcall'[q] = dbcall[q]
  BY DEF TypeOK
<1>2. \A q \in Request : q # r => phaseBar'[q] = phaseBar[q]
  BY <1>1 DEF phaseBar
<1>3. \A q \in Request : q # r => effectBar'[q] = effectBar[q]
  BY <1>1 DEF effectBar
<1>4. /\ phaseBar = [q \in Request |-> phaseBar[q]]
      /\ phaseBar' = [q \in Request |-> phaseBar'[q]]
      /\ effectBar = [q \in Request |-> effectBar[q]]
      /\ effectBar' = [q \in Request |-> effectBar'[q]]
      /\ effectBar'[r] = (dbcall'[r] = "success")
  BY DEF phaseBar, effectBar
<1>5. phaseBar' = [phaseBar EXCEPT ![r] = phaseBar'[r]]
  BY <1>2, <1>4
<1>6. effectBar' = [effectBar EXCEPT ![r] = effectBar'[r]]
  BY <1>3, <1>4
<1>7. QED  BY <1>4, <1>5, <1>6

LEMMA RefinementStep ==
  TypeOK /\ HandlerInv /\ ProgressInv /\ [Next]_vars => [Service!Next]_(Service!vars)
<1> SUFFICES ASSUME TypeOK, HandlerInv, ProgressInv, [Next]_vars
             PROVE  [Service!Next]_(Service!vars)
  OBVIOUS
<1> USE DEF clusterVars, dbVars, serverVars, callVars, metricVars, historyVars
<1>0. Service!Request = Request
  BY DEF Service!Request, Request
\* A step that only moves a call on inside the server.
<1>1. ASSUME NEW r \in Request, UNCHANGED <<schemas, answer>>, pc[r] \in PC \ {"idle", "done"},
             pc' = [pc EXCEPT ![r] = pc'[r]], pc'[r] \in PC \ {"idle", "done"},
             dbcall' = [dbcall EXCEPT ![r] = dbcall'[r]],
             dbcall[r] # "success", dbcall'[r] # "success"
      PROVE  UNCHANGED Service!vars
  <2>1. answer' = [answer EXCEPT ![r] = answer'[r]]  BY <1>1 DEF TypeOK
  <2>2. phaseBar'[r] = phaseBar[r] /\ effectBar[r] = FALSE
    BY <1>1 DEF phaseBar, effectBar, TypeOK
  <2>3. /\ phaseBar = [q \in Request |-> phaseBar[q]]
        /\ effectBar = [q \in Request |-> effectBar[q]]
        /\ effectBar'[r] = FALSE
    BY <1>1 DEF phaseBar, effectBar
  <2>4. /\ phaseBar' = [phaseBar EXCEPT ![r] = phaseBar[r]]
        /\ effectBar' = [effectBar EXCEPT ![r] = effectBar[r]]
    BY <1>1, <2>1, <2>2, BarStep
  <2>5. phaseBar' = phaseBar /\ effectBar' = effectBar
    BY <2>3, <2>4
  <2>6. QED  BY <1>1, <2>5 DEF Service!vars
<1>2. ASSUME NEW r \in Request, Send(r) PROVE Service!Invoke(r)
  <2>1. /\ phaseBar[r] = "idle" /\ phaseBar'[r] = "pending"
        /\ phaseBar' = [phaseBar EXCEPT ![r] = phaseBar'[r]]
    BY <1>2, BarStep DEF Send, phaseBar, TypeOK
  <2>2. UNCHANGED <<schemas, effectBar>>  BY <1>2 DEF Send, effectBar
  <2>3. QED  BY <2>1, <2>2 DEF Service!Invoke
<1>3. ASSUME NEW r \in Request, Start(r) PROVE UNCHANGED Service!vars
  <2>1. /\ pc[r] = "queued" /\ pc' = [pc EXCEPT ![r] = pc'[r]]
        /\ pc'[r] \in {"check_primary", "delete"}
        /\ UNCHANGED <<schemas, dbcall, answer>>
    BY <1>3 DEF Start, TypeOK
  <2>2. dbcall[r] = "none"  BY <2>1 DEF ProgressInv
  <2>3. QED  BY <1>1, <2>1, <2>2 DEF PC, Working, Checking, TypeOK
<1>4. ASSUME NEW r \in Request, pc[r] \in Checking, Reply(r, "FAILED_capacity"),
             UNCHANGED <<schemas, dbcall>>
      PROVE  Service!Refuse(r)
  <2>1. dbcall[r] = "none" /\ r \in ProvisionCall
    BY <1>4 DEF ProgressInv, HandlerInv, Checking
  <2>2. phaseBar[r] = "pending" /\ phaseBar'[r] = "refused"
    BY <1>4 DEF Reply, phaseBar, TypeOK, Checking
  <2>3. phaseBar' = [phaseBar EXCEPT ![r] = phaseBar'[r]]
    BY <1>4, BarStep DEF Reply, TypeOK
  <2>4. UNCHANGED effectBar /\ effectBar[r] = FALSE
    BY <1>4, <2>1 DEF effectBar
  <2>5. QED  BY <1>4, <2>1, <2>2, <2>3, <2>4 DEF Service!Refuse
<1>5. ASSUME NEW r \in Request,
             \/ CheckUnconfigured(r) \/ CheckPrimary(r) \/ CheckReplica(r)
             \/ CheckStorage(r) \/ CheckRaises(r) \/ ClusterStatus(r)
             \/ CreateTenantSchema(r) \/ DeleteTenantSchema(r)
      PROVE  Service!Refuse(r) \/ UNCHANGED Service!vars
  <2>1. CASE pc[r] \in Checking /\ Reply(r, "FAILED_capacity")
    <3>1. UNCHANGED <<schemas, dbcall>>
      BY <1>5, <2>1 DEF CheckUnconfigured, CheckPrimary, CheckReplica, CheckStorage,
         CheckRaises, ClusterStatus, CreateTenantSchema, DeleteTenantSchema, SendToDb,
         Checking
    <3>2. QED  BY <1>4, <2>1, <3>1
  <2>2. CASE ~(pc[r] \in Checking /\ Reply(r, "FAILED_capacity"))
    <3>1. /\ pc[r] \in Working \ {"calling"}
          /\ pc' = [pc EXCEPT ![r] = pc'[r]] /\ pc'[r] \in Working
          /\ dbcall' = [dbcall EXCEPT ![r] = dbcall'[r]]
          /\ dbcall'[r] \in {dbcall[r], "open"}
          /\ UNCHANGED <<schemas, answer>>
      BY <1>5, <2>2 DEF CheckUnconfigured, CheckPrimary, CheckReplica, CheckStorage,
         CheckRaises, ClusterStatus, CreateTenantSchema, DeleteTenantSchema, SendToDb,
         Working, Checking, TypeOK
    <3>2. dbcall[r] = "none"  BY <3>1 DEF ProgressInv, Working, Checking
    <3>3. QED  BY <1>1, <3>1, <3>2 DEF PC, Working, Checking
  <2>3. QED  BY <2>1, <2>2
<1>6. ASSUME NEW r \in Request, pc[r] = "calling", Reply(r, Failed(r)),
             UNCHANGED <<schemas, dbcall>>
      PROVE  Service!Fail(r)
  <2>1. phaseBar[r] = "pending" /\ phaseBar'[r] = "FAILED"
    BY <1>6 DEF Reply, Failed, phaseBar, TypeOK
  <2>2. phaseBar' = [phaseBar EXCEPT ![r] = phaseBar'[r]]
    BY <1>6, BarStep DEF Reply, TypeOK
  <2>3. UNCHANGED effectBar  BY <1>6 DEF effectBar
  <2>4. QED  BY <1>6, <2>1, <2>2, <2>3 DEF Service!Fail
<1>7. ASSUME NEW r \in Request, Receive(r) PROVE Service!Succeed(r) \/ Service!Fail(r)
  <2>1. CASE dbcall[r] = "success"
    <3>1. phaseBar[r] = "pending" /\ phaseBar'[r] = Succeeded(r)
      BY <1>7, <2>1 DEF Receive, Reply, Succeeded, phaseBar, TypeOK
    <3>2. phaseBar' = [phaseBar EXCEPT ![r] = phaseBar'[r]]
      BY <1>7, BarStep DEF Receive, Reply, TypeOK
    <3>3. UNCHANGED <<schemas, effectBar>> /\ effectBar[r]
      BY <1>7, <2>1 DEF Receive, effectBar
    <3>4. QED  BY <3>1, <3>2, <3>3 DEF Service!Succeed, Succeeded
  <2>2. CASE dbcall[r] # "success"
    BY <1>6, <1>7, <2>2 DEF Receive
  <2>3. QED  BY <2>1, <2>2
<1>8. ASSUME NEW r \in Request, RpcError(r) PROVE Service!Fail(r)
  BY <1>6, <1>8 DEF RpcError
<1>9. ASSUME NEW r \in Request, DbCommit(r) PROVE Service!Effect(r)
  <2>1. /\ dbcall[r] = "open" /\ dbcall' = [dbcall EXCEPT ![r] = "success"]
        /\ UNCHANGED <<pc, answer>>
    BY <1>9 DEF DbCommit
  <2>2. /\ pc[r] \in {"calling", "done"}
        /\ answer[r] \notin Definitive \cup {"FAILED_capacity", "raised"}
    BY <2>1 DEF ProgressInv, TypeOK
  <2>3. pc[r] = "done" => answer[r] \in {"FAILED_db", "FAILED", "lost"}
    BY <2>2 DEF ProgressInv, AnswerOf, ProvisionAnswer, TerminateAnswer, Definitive
  <2>4. phaseBar[r] \in {"pending", "FAILED", "lost"}
    BY <2>2, <2>3 DEF phaseBar
  <2>5. UNCHANGED phaseBar  BY <2>1 DEF phaseBar
  <2>6. effectBar[r] = FALSE /\ effectBar' = [effectBar EXCEPT ![r] = TRUE]
    BY <2>1, BarStep DEF effectBar, TypeOK
  <2>7. QED  BY <1>9, <2>4, <2>5, <2>6 DEF DbCommit, Service!Effect
<1>15. ASSUME NEW r \in Request, ClientRaises(r) PROVE Service!Refuse(r)
  <2>1. dbcall[r] = "none" /\ r \in ProvisionCall
    BY <1>15 DEF ClientRaises, ProgressInv, HandlerInv, Checking
  <2>2. phaseBar[r] = "pending" /\ phaseBar'[r] = "refused"
    BY <1>15 DEF ClientRaises, phaseBar, TypeOK
  <2>3. phaseBar' = [phaseBar EXCEPT ![r] = phaseBar'[r]]
    BY <1>15, BarStep DEF ClientRaises, TypeOK
  <2>4. UNCHANGED <<schemas, effectBar>> /\ effectBar[r] = FALSE
    BY <1>15, <2>1 DEF ClientRaises, effectBar
  <2>5. QED  BY <2>1, <2>2, <2>3, <2>4 DEF Service!Refuse
<1>10. ASSUME NEW r \in Request, DbRefuse(r) PROVE UNCHANGED Service!vars
  BY <1>10 DEF DbRefuse, Service!vars, phaseBar, effectBar, TypeOK
<1>11. ASSUME (\E o \in ClusterObject : ObjectChanges(o)) \/ (\E p \in Pod : Failover(p))
       PROVE  UNCHANGED Service!vars
  BY <1>11 DEF ObjectChanges, Failover, Service!vars, phaseBar, effectBar
<1>12. ASSUME Restart PROVE Service!Lose
  <2>1. \A r \in Request : phaseBar[r] = "pending" <=> Active(r)
    BY DEF phaseBar, Active, ProgressInv, AnswerOf, ProvisionAnswer, TerminateAnswer
  <2>2. phaseBar' = [r \in Request |-> IF phaseBar[r] = "pending" THEN "lost" ELSE phaseBar[r]]
    BY <1>12, <2>1 DEF Restart, phaseBar, Active, TypeOK
  <2>3. UNCHANGED <<schemas, effectBar>>  BY <1>12 DEF Restart, effectBar
  <2>4. QED  BY <1>0, <2>2, <2>3 DEF Service!Lose, Service!Pending
<1>13. CASE UNCHANGED vars
  BY <1>13 DEF vars, Service!vars, phaseBar, effectBar
<1>14. QED
  BY <1>0, <1>2, <1>3, <1>5, <1>15, <1>7, <1>8, <1>9, <1>10, <1>11, <1>12, <1>13
  DEF Next, Handle, Service!Next

\* Threads, checks, deadlines and restarts implement the service: each call
\* takes effect at most once, before its READY or TERMINATED answer and never
\* after a refusal.
THEOREM ServiceImplemented == Spec => ImplementsService
<1>1. Init => Service!Init
  BY DEF Init, Service!Init, Service!Request, Request, phaseBar, effectBar
<1>2. Init => ProgressInv
  BY DEF Init, ProgressInv, Definitive
<1> DEFINE I == TypeOK /\ HandlerInv /\ ProgressInv
<1>3. I /\ [Next]_vars => I'
  BY TypeStep, ProgressStep
<1>4. I /\ [Next]_vars => [Service!Next]_(Service!vars)
  BY RefinementStep
<1>5. QED  BY TypeInit, <1>1, <1>2, <1>3, <1>4, PTL DEF Spec, ImplementsService, Service!Spec

(***************************************************************************)
(* The counters                                                            *)
(***************************************************************************)

Counted == ProvisionAnswer \cup TerminateAnswer
AnswerSet(a) == {r \in Request : answer[r] = a}
CountOf(a) == IF a \in ProvisionAnswer THEN PROVISION_REQUESTS[Label(a)]
                                       ELSE TERMINATE_REQUESTS[Label(a)]

(* Each answer has a counter of its own, and has been given finitely often, *)
(* also when infinitely many calls may be made.                             *)
CountInv ==
  \A a \in Counted : IsFiniteSet(AnswerSet(a)) /\ CountedAs(CountOf(a), a)

LEMMA Labels ==
  /\ Label("READY") = "success" /\ Label("FAILED_capacity") = "failed_capacity"
  /\ Label("FAILED_db") = "failed_db" /\ Label("TERMINATED") = "success"
  /\ Label("FAILED") = "failed"
BY DEF Label, Definitive

\* A step that answers nobody.
LEMMA CountQuiet ==
  ASSUME CountInv, UNCHANGED <<answer, metricVars, restarts>>
  PROVE  CountInv'
BY DEF CountInv, AnswerSet, CountedAs, CountOf, Answered, metricVars

\* A call that has no answer yet is answered and counted.
LEMMA CountReply ==
  ASSUME TypeOK, CountInv, NEW r \in Request, NEW a \in AnswerOf(r), answer[r] = "none",
         Reply(r, a), UNCHANGED restarts
  PROVE  CountInv'
<1>1. /\ answer' = [answer EXCEPT ![r] = a] /\ a \in Counted
      /\ a \in ProvisionAnswer <=> r \in ProvisionCall
  BY DEF Reply, AnswerOf, Counted, ProvisionAnswer, TerminateAnswer
<1>2. ASSUME NEW x \in Counted, x # a
      PROVE  AnswerSet(x)' = AnswerSet(x) /\ CountOf(x)' = CountOf(x)
  <2>1. x # "none"
    BY DEF Counted, ProvisionAnswer, TerminateAnswer
  <2>2. AnswerSet(x)' = AnswerSet(x)
    BY <1>1, <1>2, <2>1 DEF AnswerSet, TypeOK
  <2>3. CASE r \in ProvisionCall
    <3>1. /\ PROVISION_REQUESTS' = [PROVISION_REQUESTS EXCEPT ![Label(a)] = @ + 1]
          /\ UNCHANGED TERMINATE_REQUESTS
      BY <2>3 DEF Reply
    <3>2. x \in ProvisionAnswer => Label(x) # Label(a)
      BY <1>1, <1>2, <2>3, Labels DEF ProvisionAnswer
    <3>3. x \in ProvisionAnswer => Label(x) \in {"success", "failed_capacity", "failed_db"}
      BY Labels DEF ProvisionAnswer
    <3>4. x \in ProvisionAnswer => PROVISION_REQUESTS'[Label(x)] = PROVISION_REQUESTS[Label(x)]
      BY <3>1, <3>2, <3>3 DEF TypeOK
    <3>5. QED  BY <2>2, <3>1, <3>4 DEF CountOf, Label
  <2>4. CASE r \notin ProvisionCall
    <3>1. /\ TERMINATE_REQUESTS' = [TERMINATE_REQUESTS EXCEPT ![Label(a)] = @ + 1]
          /\ UNCHANGED PROVISION_REQUESTS
      BY <2>4 DEF Reply
    <3>2. x \notin ProvisionAnswer => Label(x) # Label(a)
      BY <1>1, <1>2, <2>4, Labels DEF Counted, ProvisionAnswer, TerminateAnswer
    <3>3. x \notin ProvisionAnswer => Label(x) \in {"success", "failed"}
      BY Labels DEF Counted, ProvisionAnswer, TerminateAnswer
    <3>4. x \notin ProvisionAnswer => TERMINATE_REQUESTS'[Label(x)] = TERMINATE_REQUESTS[Label(x)]
      BY <3>1, <3>2, <3>3 DEF TypeOK
    <3>5. QED  BY <2>2, <3>1, <3>4 DEF CountOf, Label
  <2>5. QED  BY <2>3, <2>4
<1>3. AnswerSet(a)' = AnswerSet(a) \cup {r} /\ r \notin AnswerSet(a)
  <2>1. a # "none"
    BY <1>1 DEF Counted, ProvisionAnswer, TerminateAnswer
  <2>2. QED  BY <1>1, <2>1 DEF AnswerSet, TypeOK
<1>4. CountOf(a) \in Nat /\ CountOf(a)' = CountOf(a) + 1
  <2>1. CASE r \in ProvisionCall
    <3>1. Label(a) \in {"success", "failed_capacity", "failed_db"}
      BY <1>1, <2>1, Labels DEF ProvisionAnswer
    <3>2. PROVISION_REQUESTS' = [PROVISION_REQUESTS EXCEPT ![Label(a)] = @ + 1]
      BY <2>1 DEF Reply
    <3>3. PROVISION_REQUESTS'[Label(a)] = PROVISION_REQUESTS[Label(a)] + 1
      BY <3>1, <3>2 DEF TypeOK
    <3>4. PROVISION_REQUESTS[Label(a)] \in Nat
      BY <3>1 DEF TypeOK
    <3>5. QED  BY <1>1, <2>1, <3>3, <3>4 DEF CountOf, Label
  <2>2. CASE r \notin ProvisionCall
    <3>1. Label(a) \in {"success", "failed"}
      BY <1>1, <2>2, Labels DEF Counted, ProvisionAnswer, TerminateAnswer
    <3>2. TERMINATE_REQUESTS' = [TERMINATE_REQUESTS EXCEPT ![Label(a)] = @ + 1]
      BY <2>2 DEF Reply
    <3>3. TERMINATE_REQUESTS'[Label(a)] = TERMINATE_REQUESTS[Label(a)] + 1
      BY <3>1, <3>2 DEF TypeOK
    <3>4. TERMINATE_REQUESTS[Label(a)] \in Nat
      BY <3>1 DEF TypeOK
    <3>5. QED  BY <1>1, <2>2, <3>3, <3>4 DEF CountOf, Label
  <2>3. QED  BY <2>1, <2>2
<1>5. IsFiniteSet(AnswerSet(a)) /\ CountedAs(CountOf(a), a)
  BY <1>1 DEF CountInv
<1>6. /\ IsFiniteSet(AnswerSet(a)') /\ Cardinality(AnswerSet(a)) \in Nat
      /\ Cardinality(AnswerSet(a)') = Cardinality(AnswerSet(a)) + 1
  BY <1>3, <1>5, FS_AddElement, FS_CardinalityType
<1>7. IsFiniteSet(AnswerSet(a)') /\ CountedAs(CountOf(a), a)'
  BY <1>4, <1>5, <1>6 DEF CountedAs, Answered, AnswerSet
<1>8. ASSUME NEW x \in Counted, x # a
      PROVE  IsFiniteSet(AnswerSet(x)') /\ CountedAs(CountOf(x), x)'
  <2>1. IsFiniteSet(AnswerSet(x)) /\ CountedAs(CountOf(x), x)
    BY <1>8 DEF CountInv
  <2>2. QED  BY <1>2, <1>8, <2>1 DEF CountedAs, Answered, AnswerSet
<1>9. QED  BY <1>7, <1>8 DEF CountInv

\* A restart loses the counts, and no answer that was given.
LEMMA CountRestart ==
  ASSUME TypeOK, ProgressInv, CountInv, Restart
  PROVE  CountInv'
<1>1. restarts' # 0
  BY BoundsAssumption DEF Restart, TypeOK
<1>2. ASSUME NEW x \in Counted PROVE AnswerSet(x)' = AnswerSet(x) /\ CountOf(x)' = 0
  <2>1. \A r \in Request : answer'[r] = x <=> answer[r] = x
    BY <1>2 DEF Restart, Active, ProgressInv, Counted, ProvisionAnswer, TerminateAnswer
  <2>2. AnswerSet(x)' = AnswerSet(x)
    BY <2>1 DEF AnswerSet
  <2>3. x \in ProvisionAnswer => Label(x) \in {"success", "failed_capacity", "failed_db"}
    BY Labels DEF ProvisionAnswer
  <2>4. x \notin ProvisionAnswer => Label(x) \in {"success", "failed"}
    BY <1>2, Labels DEF Counted, ProvisionAnswer, TerminateAnswer
  <2>5. CountOf(x)' = 0
    BY <2>3, <2>4 DEF Restart, TypeOK, CountOf, Label
  <2>6. QED  BY <2>2, <2>5
<1>3. ASSUME NEW x \in Counted PROVE IsFiniteSet(AnswerSet(x))' /\ CountedAs(CountOf(x), x)'
  <2>1. IsFiniteSet(AnswerSet(x)) /\ Cardinality(AnswerSet(x)) \in Nat
    BY <1>3, FS_CardinalityType DEF CountInv
  <2>2. AnswerSet(x)' = AnswerSet(x) /\ CountOf(x)' = 0
    BY <1>2, <1>3
  <2>3. QED  BY <1>1, <2>1, <2>2 DEF CountedAs, Answered, AnswerSet
<1>4. QED  BY <1>3 DEF CountInv

LEMMA CountStep ==
  TypeOK /\ HandlerInv /\ ProgressInv /\ CountInv /\ [Next]_vars => CountInv'
<1> SUFFICES ASSUME TypeOK, HandlerInv, ProgressInv, CountInv, [Next]_vars PROVE CountInv'
  OBVIOUS
<1> USE DEF serverVars, callVars, metricVars
<1>1. ASSUME NEW r \in Request, NEW a \in AnswerOf(r), pc[r] # "done", Reply(r, a),
             UNCHANGED restarts
      PROVE  CountInv'
  BY <1>1, CountReply DEF ProgressInv
<1>2. ASSUME NEW r \in Request, pc[r] \in Checking, Reply(r, "FAILED_capacity"),
             UNCHANGED restarts
      PROVE  CountInv'
  <2>1. "FAILED_capacity" \in AnswerOf(r)
    BY <1>2 DEF HandlerInv, AnswerOf, ProvisionAnswer
  <2>2. QED  BY <1>1, <1>2, <2>1 DEF Checking
<1>3. ASSUME NEW r \in Request, CheckUnconfigured(r) PROVE CountInv'
  BY <1>2, <1>3, CountQuiet DEF CheckUnconfigured, Checking
<1>4. ASSUME NEW r \in Request, CheckStorage(r) PROVE CountInv'
  BY <1>2, <1>4, CountQuiet DEF CheckStorage, Checking
<1>5. ASSUME NEW r \in Request, CheckRaises(r) PROVE CountInv'
  BY <1>2, <1>5 DEF CheckRaises
<1>6. ASSUME NEW r \in Request, Receive(r) \/ RpcError(r) PROVE CountInv'
  <2>1. Succeeded(r) \in AnswerOf(r) /\ Failed(r) \in AnswerOf(r)
    BY DEF Succeeded, Failed, AnswerOf, ProvisionAnswer, TerminateAnswer
  <2>2. QED  BY <1>1, <1>6, <2>1 DEF Receive, RpcError
<1>11. ASSUME NEW r \in Request, ClientRaises(r) PROVE CountInv'
  <2>1. /\ pc[r] # "done" /\ answer' = [answer EXCEPT ![r] = "raised"]
        /\ UNCHANGED <<metricVars, restarts>>
    BY <1>11 DEF ClientRaises
  <2>2. \A a \in Counted : AnswerSet(a)' = AnswerSet(a)
    <3>1. answer[r] = "none" /\ "none" \notin Counted /\ "raised" \notin Counted
      BY <2>1 DEF ProgressInv, Counted, ProvisionAnswer, TerminateAnswer
    <3>2. QED  BY <2>1, <3>1 DEF AnswerSet, TypeOK
  <2>3. \A a \in Counted : Answered(a)' = Answered(a) /\ CountOf(a)' = CountOf(a)
    BY <2>1, <2>2 DEF Answered, AnswerSet, CountOf, metricVars
  <2>4. QED  BY <2>1, <2>2, <2>3 DEF CountInv, CountedAs
<1>7. ASSUME NEW r \in Request, \/ Send(r) \/ Start(r) \/ CheckPrimary(r) \/ CheckReplica(r)
                                \/ ClusterStatus(r) \/ CreateTenantSchema(r)
                                \/ DeleteTenantSchema(r) \/ DbCommit(r) \/ DbRefuse(r)
      PROVE  CountInv'
  BY <1>7, CountQuiet DEF Send, Start, CheckPrimary, CheckReplica, ClusterStatus,
     CreateTenantSchema, DeleteTenantSchema, SendToDb, DbCommit, DbRefuse
<1>8. ASSUME NEW o, ObjectChanges(o) \/ Failover(o) PROVE CountInv'
  BY <1>8, CountQuiet DEF ObjectChanges, Failover
<1>9. CASE UNCHANGED vars
  BY <1>9, CountQuiet DEF vars
<1>10. QED
  BY <1>3, <1>4, <1>5, <1>6, <1>7, <1>8, <1>9, <1>11, CountRestart DEF Next, Handle

\* Each answered call is counted once under the label of its answer
\* (metrics.PROVISION_REQUESTS, TERMINATE_REQUESTS), however many answer at once,
\* and only a restart loses counts.
THEOREM CountersRight == Spec => []CountersMatchAnswers
<1>1. Init => ProgressInv /\ CountInv
  <2> SUFFICES ASSUME Init PROVE ProgressInv /\ CountInv
    OBVIOUS
  <2>1. ProgressInv
    BY DEF Init, ProgressInv, Definitive
  <2>2. ASSUME NEW x \in Counted
        PROVE  IsFiniteSet(AnswerSet(x)) /\ CountedAs(CountOf(x), x)
    <3>1. AnswerSet(x) = {}
      BY DEF Init, AnswerSet, Counted, ProvisionAnswer, TerminateAnswer
    <3>2. CountOf(x) = 0
      BY Labels DEF Init, CountOf, Counted, ProvisionAnswer, TerminateAnswer
    <3>3. QED  BY <3>1, <3>2, FS_EmptySet DEF CountedAs, Answered, AnswerSet
  <2>3. QED  BY <2>1, <2>2 DEF CountInv
<1> DEFINE I == TypeOK /\ HandlerInv /\ ProgressInv /\ CountInv
<1>2. I /\ [Next]_vars => I'
  BY TypeStep, ProgressStep, CountStep
<1>3. CountInv => CountersMatchAnswers
  <2> SUFFICES ASSUME CountInv PROVE CountersMatchAnswers
    OBVIOUS
  <2>1. \A x \in Counted : CountedAs(CountOf(x), x)
    BY DEF CountInv
  <2>2. QED
    BY <2>1, Labels DEF CountersMatchAnswers, CountOf, Counted, ProvisionAnswer, TerminateAnswer
<1>4. QED  BY TypeInit, <1>1, <1>2, <1>3, PTL DEF Spec
=============================================================================
