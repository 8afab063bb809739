------------------------- MODULE LazyClients_proofs -------------------------
(***************************************************************************)
(* Proofs about LazyClients for any number of calls of each kind: without  *)
(* a lock, the order in which serve() starts the threads and the order in  *)
(* which the accessors set their globals are enough.                       *)
(***************************************************************************)
EXTENDS LazyClients, TLAPS

InCore == {"mark", "load", "assign", "return_core"}
InStub == {"channel", "stub", "assign_stub", "return_stub"}

(* A thread inside an accessor has one left to return from, and only       *)
(* serve() runs before it has started the others.                          *)
PlaceInv ==
  \A t \in Thread :
    /\ pc[t] \in InCore \cup InStub \cup {"enter"} => Len(got[t]) < Len(Plan(t))
    /\ pc[t] \in InCore => Accessor(t) = "_get_k8s_core"
    /\ pc[t] \in InStub => Accessor(t) = "_get_stub"
    /\ t = "serve" => pc[t] # "idle" /\ (started <=> pc[t] = "done")
    /\ t # "serve" /\ ~started => pc[t] = "idle" /\ got[t] = <<>>

(* What a thread about to store or return a stub relies on.                *)
StubInv ==
  \A t \in Thread :
    /\ pc[t] = "stub" => _channel # "none"
    /\ pc[t] = "assign_stub" => held[t] \in Call
    /\ pc[t] = "return_stub" => _stub # "none"

(* A return from an accessor leaves its global behind, so that whoever      *)
(* enters it afterwards is on the way out at once.                          *)
UsedInv ==
  /\ \A t \in Thread : pc[t] \in {"load", "assign", "return_core"} => _k8s_checked
  /\ "_get_k8s_core" \in returned => _k8s_checked
  /\ "_get_stub" \in returned => _stub # "none"
  /\ \A t \in late : pc[t] \in {"return_core", "return_stub"}

(* With a configuration that was valid from the start, the other threads    *)
(* begin with the client that serve() has made, and nobody unmakes it.      *)
MadeFirst ==
  /\ started => _k8s_core
  /\ ~started /\ pc["serve"] \in {"enter", "mark"} => ~_k8s_checked
  /\ \A t \in Thread : /\ pc[t] = "assign" => held[t] = "valid"
                       /\ pc[t] = "return_core" => _k8s_core

ConfiguredInv == config = "valid" /\ ~appeared => MadeFirst

IInv == /\ TypeOK /\ PlaceInv /\ StubInv /\ UsedInv /\ ConfiguredInv
        /\ ConfiguredNeverRefused /\ StubAlwaysThere

(***************************************************************************)
(* The accessors a thread calls                                            *)
(***************************************************************************)

LEMMA PlanOf ==
  ASSUME NEW t \in Thread
  PROVE  /\ t \in ProvisionCall =>
              Plan(t) = <<"_get_k8s_core", "_get_k8s_core", "_get_stub">>
         /\ t \in TerminateCall => Plan(t) = <<"_get_stub">>
         /\ t \in StatusCall => Plan(t) = <<"_get_k8s_core", "_get_k8s_core">>
         /\ t \in {"serve", "publisher"} => Plan(t) = <<"_init_k8s", "_get_k8s_core">>
BY CallsAssumption DEF Plan, Call

LEMMA Kinds ==
  ASSUME NEW t \in Thread
  PROVE  \/ t \in ProvisionCall /\ t \notin {"serve", "publisher"} \cup TerminateCall
         \/ t \in TerminateCall /\ t \notin {"serve", "publisher"} \cup ProvisionCall
         \/ /\ t \in StatusCall
            /\ t \notin {"serve", "publisher"} \cup ProvisionCall \cup TerminateCall
         \/ /\ t \in {"serve", "publisher"}
            /\ t \notin ProvisionCall \cup TerminateCall \cup StatusCall
BY CallsAssumption DEF Thread, Call

\* Only the calls that go on to the database layer need the stub, and last of
\* all; only the collections begin with a client of their own.
LEMMA PlanShape ==
  ASSUME NEW t \in Thread, NEW n \in Nat, n < Len(Plan(t))
  PROVE  /\ Len(Plan(t)) \in 1 .. 3
         /\ Plan(t)[n + 1] \in {"_init_k8s", "_get_k8s_core", "_get_stub"}
         /\ Plan(t)[n + 1] = "_get_stub" =>
              t \in ProvisionCall \cup TerminateCall /\ n + 1 = Len(Plan(t))
         /\ Plan(t)[n + 1] = "_init_k8s" => t \in {"serve", "publisher"} /\ n = 0
         /\ t \in {"serve", "publisher"} =>
              (Plan(t)[n + 1] = "_get_k8s_core" <=> n + 1 = Len(Plan(t)))
         /\ t \in ProvisionCall \cup TerminateCall /\ n + 1 = Len(Plan(t)) =>
              Plan(t)[n + 1] = "_get_stub"
<1>1. CASE t \in ProvisionCall
  <2>1. Plan(t) = <<"_get_k8s_core", "_get_k8s_core", "_get_stub">>
    BY <1>1, PlanOf
  <2>2. n = 0 \/ n = 1 \/ n = 2
    BY <2>1
  <2>3. t \notin {"serve", "publisher"}
    BY <1>1, Kinds
  <2>4. QED  BY <1>1, <2>1, <2>2, <2>3
<1>2. CASE t \in TerminateCall
  <2>1. Plan(t) = <<"_get_stub">>
    BY <1>2, PlanOf
  <2>2. n = 0
    BY <2>1
  <2>3. t \notin {"serve", "publisher"}
    BY <1>2, Kinds
  <2>4. QED  BY <1>2, <2>1, <2>2, <2>3
<1>3. CASE t \in StatusCall
  <2>1. Plan(t) = <<"_get_k8s_core", "_get_k8s_core">>
    BY <1>3, PlanOf
  <2>2. n = 0 \/ n = 1
    BY <2>1
  <2>3. t \notin {"serve", "publisher"} \cup ProvisionCall \cup TerminateCall
    BY <1>3, Kinds, CallsAssumption
  <2>4. QED  BY <1>3, <2>1, <2>2, <2>3
<1>4. CASE t \in {"serve", "publisher"}
  <2>1. Plan(t) = <<"_init_k8s", "_get_k8s_core">>
    BY <1>4, PlanOf
  <2>2. n = 0 \/ n = 1
    BY <2>1
  <2>3. t \notin ProvisionCall \cup TerminateCall
    BY <1>4, Kinds
  <2>4. QED  BY <1>4, <2>1, <2>2, <2>3
<1>5. QED  BY <1>1, <1>2, <1>3, <1>4, Kinds

LEMMA AccessorShape ==
  ASSUME TypeOK, NEW t \in Thread, Len(got[t]) < Len(Plan(t))
  PROVE  /\ Len(got[t]) \in Nat /\ Len(Plan(t)) \in 1 .. 3
         /\ Accessor(t) \in {"_init_k8s", "_get_k8s_core", "_get_stub"}
         /\ Accessor(t) = "_get_stub" =>
              t \in ProvisionCall \cup TerminateCall /\ Len(got[t]) + 1 = Len(Plan(t))
         /\ Accessor(t) = "_init_k8s" => t \in {"serve", "publisher"} /\ Len(got[t]) = 0
         /\ t \in {"serve", "publisher"} =>
              (Accessor(t) = "_get_k8s_core" <=> Len(got[t]) + 1 = Len(Plan(t)))
         /\ t \in ProvisionCall \cup TerminateCall /\ Len(got[t]) + 1 = Len(Plan(t)) =>
              Accessor(t) = "_get_stub"
<1>1. Len(got[t]) \in Nat
  BY DEF TypeOK
<1>2. QED  BY <1>1, PlanShape DEF Accessor

(* What a return from an accessor does, whichever accessor it is.          *)
Result == {"client", "none", "raised"}

LEMMA ReturnEffect ==
  ASSUME TypeOK, PlaceInv, NEW t \in Thread, NEW result \in Result,
         pc[t] \in InCore \cup InStub \cup {"enter"}, Return(t, result)
  PROVE  /\ got' = [got EXCEPT ![t] = Append(got[t], result)]
         /\ got'[t] \in Seq(Result) /\ Len(got'[t]) = Len(got[t]) + 1
         /\ Len(got'[t]) <= Len(Plan(t))
         /\ \A i \in DOMAIN got'[t] :
              got'[t][i] = IF i = Len(got[t]) + 1 THEN result ELSE got[t][i]
         /\ pc' = [pc EXCEPT ![t] = pc'[t]] /\ pc'[t] \in {"enter", "idle", "done"}
         /\ pc'[t] = "enter" => Len(got'[t]) < Len(Plan(t))
         /\ pc'[t] = "idle" => t = "publisher"
         /\ t = "serve" => /\ started' <=> pc'[t] = "done"
                           /\ pc'[t] = "enter" <=> /\ result # "raised"
                                                   /\ ~Refused(t, result)
                                                   /\ Len(got[t]) + 1 # Len(Plan(t))
         /\ t # "serve" => started' = started
         /\ returned' = returned \cup {Accessor(t)}
         /\ late' = late \ {t}
<1>1. /\ got[t] \in Seq(Result) /\ Len(got[t]) \in Nat /\ Len(Plan(t)) \in 1 .. 3
      /\ Len(got[t]) < Len(Plan(t)) /\ got \in [Thread -> Seq(Result)]
  <2>1. Len(got[t]) < Len(Plan(t))
    BY DEF PlaceInv
  <2>2. QED  BY <2>1, AccessorShape DEF TypeOK, Result
<1>2. /\ got' = [got EXCEPT ![t] = Append(got[t], result)]
      /\ got'[t] = Append(got[t], result)
  BY <1>1 DEF Return
<1>3. /\ got'[t] \in Seq(Result) /\ Len(got'[t]) = Len(got[t]) + 1
      /\ \A i \in DOMAIN got'[t] :
           got'[t][i] = IF i = Len(got[t]) + 1 THEN result ELSE got[t][i]
  BY <1>1, <1>2
<1>4. DEFINE over == \/ result = "raised" \/ Refused(t, result)
                     \/ Len(got[t]) + 1 = Len(Plan(t))
<1>5. /\ pc' = [pc EXCEPT ![t] = IF over THEN Rest(t) ELSE "enter"]
      /\ started' = (started \/ (over /\ t = "serve"))
      /\ returned' = returned \cup {Accessor(t)}
      /\ late' = late \ {t}
  BY DEF Return
<1>6. pc'[t] = IF over THEN Rest(t) ELSE "enter"
  BY <1>5 DEF TypeOK
<1>7. t = "serve" => ~started
  BY DEF PlaceInv, InCore, InStub
<1>8. /\ ~over => pc'[t] = "enter"
      /\ over /\ t = "publisher" => pc'[t] = "idle"
      /\ over /\ t # "publisher" => pc'[t] = "done"
  BY <1>6 DEF Rest
<1>9. t = "serve" => /\ started' <=> pc'[t] = "done"
                     /\ pc'[t] = "enter" <=> ~over
  BY <1>5, <1>7, <1>8
<1> HIDE DEF over
<1>10. /\ pc'[t] \in {"enter", "idle", "done"}
       /\ pc'[t] = "enter" => ~over
       /\ pc'[t] = "idle" => t = "publisher"
       /\ t # "serve" => started' = started
       /\ pc' = [pc EXCEPT ![t] = pc'[t]]
  BY <1>5, <1>8 DEF TypeOK
<1>11. /\ Len(got'[t]) <= Len(Plan(t))
       /\ pc'[t] = "enter" => Len(got'[t]) < Len(Plan(t))
  BY <1>1, <1>3, <1>10 DEF over
<1>12. QED  BY <1>2, <1>3, <1>5, <1>9, <1>10, <1>11 DEF over

(***************************************************************************)
(* Types and places                                                        *)
(***************************************************************************)

LEMMA TypeInit == Init => TypeOK /\ PlaceInv
<1> SUFFICES ASSUME Init PROVE TypeOK /\ PlaceInv
  OBVIOUS
<1>1. \A t \in Thread : Len(Plan(t)) \in 1 .. 3 /\ Len(<<>>) = 0 /\ <<>> \in Seq(Result)
  BY PlanOf, Kinds
<1>2. got = [t \in Thread |-> <<>>] /\ got \in [Thread -> Seq(Result)]
  BY <1>1 DEF Init
<1>3. TypeOK
  <2>1. \A t \in Thread : Len(got[t]) <= Len(Plan(t))
    BY <1>1, <1>2
  <2>2. /\ pc \in [Thread -> {"idle", "enter"}]
        /\ held \in [Thread -> {"none"}]
    BY DEF Init
  <2>3. QED  BY <1>2, <2>1, <2>2 DEF Init, TypeOK, Config, Result
<1>4. Len(Plan("serve")) = 2 /\ "serve" \in Thread
  BY PlanOf DEF Thread
<1>5. PlaceInv
  BY <1>1, <1>2, <1>4 DEF Init, PlaceInv, InCore, InStub
<1>6. QED  BY <1>3, <1>5

LEMMA TypeStep == TypeOK /\ PlaceInv /\ StubInv /\ [Next]_vars => TypeOK' /\ PlaceInv'
<1> SUFFICES ASSUME TypeOK, PlaceInv, StubInv, [Next]_vars PROVE TypeOK' /\ PlaceInv'
  OBVIOUS
<1> USE DEF globals, environment, InCore, InStub, Result
\* From one statement of an accessor to the next.
<1>1. ASSUME NEW t \in Thread, NEW here, NEW next, Goto(t, here, next),
             here \in InCore \cup InStub \cup {"enter"}, next \in InCore \cup InStub,
             here = "enter" => Accessor(t) = IF next \in InCore THEN "_get_k8s_core"
                                                                ELSE "_get_stub",
             here # "enter" => (here \in InCore <=> next \in InCore),
             UNCHANGED <<got, started>>
      PROVE  PlaceInv' /\ pc' \in [Thread -> {"idle", "enter", "mark", "load", "assign",
                                              "return_core", "channel", "stub",
                                              "assign_stub", "return_stub", "done"}]
  BY <1>1 DEF Goto, TypeOK, PlaceInv, Accessor
\* A return from an accessor.
<1>2. ASSUME NEW t \in Thread, NEW result \in Result, Return(t, result),
             pc[t] \in InCore \cup InStub \cup {"enter"},
             UNCHANGED <<config, appeared, _channel, _stub, _k8s_checked, _k8s_core, held>>,
             publisherCore' \in BOOLEAN
      PROVE  TypeOK' /\ PlaceInv'
  <2>1. Accessor(t) \in {"_init_k8s", "_get_k8s_core", "_get_stub"}
    BY <1>2, AccessorShape DEF PlaceInv
  <2>2. PlaceInv'
    BY <1>2, ReturnEffect DEF TypeOK, PlaceInv, Accessor
  <2>3. /\ got' \in [Thread -> Seq(Result)]
        /\ \A q \in Thread : Len(got'[q]) <= Len(Plan(q))
    <3>1. /\ got' = [got EXCEPT ![t] = got'[t]]
          /\ got'[t] \in Seq(Result) /\ Len(got'[t]) <= Len(Plan(t))
      BY <1>2, ReturnEffect DEF TypeOK
    <3>2. QED  BY <3>1 DEF TypeOK
  <2>4. /\ pc' = [pc EXCEPT ![t] = pc'[t]] /\ pc'[t] \in {"enter", "idle", "done"}
        /\ returned' = returned \cup {Accessor(t)} /\ late' = late \ {t}
    BY <1>2, ReturnEffect
  <2>5. started' \in BOOLEAN
    BY <1>2 DEF Return, Refused, TypeOK
  <2>6. TypeOK'
    BY <1>2, <2>1, <2>3, <2>4, <2>5 DEF TypeOK
  <2>7. QED  BY <2>2, <2>6
<1>3. ASSUME NEW t \in Thread, Begin(t) PROVE TypeOK' /\ PlaceInv'
  <2>1. Len(Plan(t)) \in 1 .. 3 /\ Len(<<>>) = 0 /\ <<>> \in Seq(Result)
    BY PlanOf, Kinds
  <2>2. /\ pc' = [pc EXCEPT ![t] = "enter"] /\ got' = [got EXCEPT ![t] = <<>>]
        /\ started' = started /\ started /\ t # "serve" /\ pc[t] = "idle"
    BY <1>3 DEF Begin, Goto
  <2>3. PlaceInv'
    <3>1. \A q \in Thread \ {t} : pc'[q] = pc[q] /\ got'[q] = got[q]
      BY <2>2 DEF TypeOK
    <3>2. pc'[t] = "enter" /\ got'[t] = <<>>
      BY <2>2 DEF TypeOK
    <3>3. started' /\ started
      BY <2>2
    <3>4. \A q \in Thread \ {t} : Accessor(q)' = Accessor(q)
      BY <3>1 DEF Accessor
    <3>5. Len(got'[t]) < Len(Plan(t))
      <4>1. Len(got'[t]) = 0
        BY <3>2
      <4>2. \A n \in 1 .. 3 : 0 < n
        OBVIOUS
      <4>3. QED  BY <2>1, <4>1, <4>2
    <3>6. QED
      <4> SUFFICES ASSUME NEW q \in Thread PROVE PlaceInv!(q)'
        BY DEF PlaceInv
      <4>1. CASE q = t  BY <2>2, <3>2, <3>3, <3>5, <4>1 DEF PlaceInv
      <4>2. CASE q # t  BY <3>1, <3>3, <3>4, <4>2 DEF PlaceInv
      <4>3. QED  BY <4>1, <4>2
  <2>4. /\ got' \in [Thread -> Seq(Result)]
        /\ \A q \in Thread : Len(got'[q]) <= Len(Plan(q))
    BY <2>1, <2>2 DEF TypeOK
  <2>5. QED  BY <1>3, <2>2, <2>3, <2>4 DEF Begin, TypeOK
<1>4. ASSUME NEW t \in Thread, InitK8s(t) PROVE TypeOK' /\ PlaceInv'
  BY <1>2, <1>4 DEF InitK8s, Enter, Unloaded, TypeOK
<1>5. ASSUME NEW t \in Thread, TestChecked(t) PROVE TypeOK' /\ PlaceInv'
  BY <1>1, <1>5 DEF TestChecked, Enter, NoteLate, TypeOK
<1>6. ASSUME NEW t \in Thread, MarkChecked(t) PROVE TypeOK' /\ PlaceInv'
  BY <1>1, <1>6 DEF MarkChecked, TypeOK
<1>7. ASSUME NEW t \in Thread, LoadConfig(t) PROVE TypeOK' /\ PlaceInv'
  BY <1>1, <1>7 DEF LoadConfig, TypeOK
<1>8. ASSUME NEW t \in Thread, LoadRaises(t) PROVE TypeOK' /\ PlaceInv'
  BY <1>2, <1>8 DEF LoadRaises, TypeOK
<1>9. ASSUME NEW t \in Thread, AssignCore(t) PROVE TypeOK' /\ PlaceInv'
  BY <1>1, <1>9 DEF AssignCore, TypeOK
<1>10. ASSUME NEW t \in Thread, ReturnCore(t) PROVE TypeOK' /\ PlaceInv'
  BY <1>2, <1>10 DEF ReturnCore, TypeOK
<1>11. ASSUME NEW t \in Thread, TestStub(t) PROVE TypeOK' /\ PlaceInv'
  <2>1. PlaceInv' /\ pc' \in [Thread -> {"idle", "enter", "mark", "load", "assign",
                                         "return_core", "channel", "stub", "assign_stub",
                                         "return_stub", "done"}]
    <3>1. CASE _stub = "none"
      BY <1>1, <1>11, <3>1 DEF TestStub, Enter
    <3>2. CASE _stub # "none"
      BY <1>1, <1>11, <3>2 DEF TestStub, Enter
    <3>3. QED  BY <3>1, <3>2
  <2>2. late' \subseteq Thread
    BY <1>11 DEF TestStub, NoteLate, TypeOK
  <2>3. QED  BY <1>11, <2>1, <2>2 DEF TestStub, TypeOK
<1>12. ASSUME NEW t \in Thread, OpenChannel(t) PROVE TypeOK' /\ PlaceInv'
  <2>1. t \in Call
    BY <1>12, AccessorShape DEF OpenChannel, Goto, PlaceInv, Call
  <2>2. QED  BY <1>1, <1>12, <2>1 DEF OpenChannel, TypeOK
<1>13. ASSUME NEW t \in Thread, MakeStub(t) PROVE TypeOK' /\ PlaceInv'
  BY <1>1, <1>13 DEF MakeStub, TypeOK
<1>14. ASSUME NEW t \in Thread, AssignStub(t) PROVE TypeOK' /\ PlaceInv'
  <2>1. held[t] \in Call
    BY <1>14 DEF AssignStub, Goto, StubInv
  <2>2. QED  BY <1>1, <1>14, <2>1 DEF AssignStub, TypeOK
<1>15. ASSUME NEW t \in Thread, ReturnStub(t) PROVE TypeOK' /\ PlaceInv'
  BY <1>2, <1>15 DEF ReturnStub, TypeOK
<1>16. ASSUME ConfigAppears PROVE TypeOK' /\ PlaceInv'
  BY <1>16 DEF ConfigAppears, TypeOK, PlaceInv, Config, Accessor
<1>17. CASE UNCHANGED vars
  BY <1>17 DEF vars, TypeOK, PlaceInv, Accessor
<1>18. QED
  BY <1>3, <1>4, <1>5, <1>6, <1>7, <1>8, <1>9, <1>10, <1>11, <1>12, <1>13, <1>14,
     <1>15, <1>16, <1>17 DEF Next, Run

(***************************************************************************)
(* The stub and the channel                                                *)
(***************************************************************************)

LEMMA StubStep == TypeOK /\ PlaceInv /\ StubInv /\ [Next]_vars => StubInv'
<1> SUFFICES ASSUME TypeOK, PlaceInv, StubInv, [Next]_vars PROVE StubInv'
  OBVIOUS
<1> USE DEF globals, environment
\* A step of another accessor or of none.
<1>1. ASSUME NEW t \in Thread, pc' = [pc EXCEPT ![t] = pc'[t]],
             pc'[t] \notin {"stub", "assign_stub", "return_stub"},
             \A q \in Thread \ {t} : held'[q] = held[q], UNCHANGED <<_channel, _stub>>
      PROVE  StubInv'
  BY <1>1 DEF TypeOK, StubInv
<1>2. ASSUME NEW t \in Thread, NEW result \in Result, Return(t, result),
             pc[t] \in InCore \cup InStub \cup {"enter"},
             UNCHANGED <<_channel, _stub, held>>
      PROVE  StubInv'
  BY <1>1, <1>2, ReturnEffect
<1>3. ASSUME NEW t \in Thread, Begin(t) PROVE StubInv'
  BY <1>1, <1>3 DEF Begin, Goto, TypeOK
<1>4. ASSUME NEW t \in Thread, InitK8s(t) PROVE StubInv'
  BY <1>2, <1>4 DEF InitK8s, Enter, Unloaded, Result
<1>5. ASSUME NEW t \in Thread, TestChecked(t) PROVE StubInv'
  BY <1>1, <1>5 DEF TestChecked, Goto, TypeOK
<1>6. ASSUME NEW t \in Thread, MarkChecked(t) PROVE StubInv'
  BY <1>1, <1>6 DEF MarkChecked, Goto, TypeOK
<1>7. ASSUME NEW t \in Thread, LoadConfig(t) PROVE StubInv'
  BY <1>1, <1>7 DEF LoadConfig, Goto, TypeOK
<1>8. ASSUME NEW t \in Thread, LoadRaises(t) PROVE StubInv'
  BY <1>2, <1>8 DEF LoadRaises, InCore, Result
<1>9. ASSUME NEW t \in Thread, AssignCore(t) PROVE StubInv'
  BY <1>1, <1>9 DEF AssignCore, Goto, TypeOK
<1>10. ASSUME NEW t \in Thread, ReturnCore(t) PROVE StubInv'
  BY <1>2, <1>10 DEF ReturnCore, InCore, Result
<1>11. ASSUME NEW t \in Thread, TestStub(t) PROVE StubInv'
  BY <1>11 DEF TestStub, Goto, TypeOK, StubInv
<1>12. ASSUME NEW t \in Thread, OpenChannel(t) PROVE StubInv'
  <2>1. t \in Call
    BY <1>12, AccessorShape DEF OpenChannel, Goto, PlaceInv, Call, InStub
  <2>2. QED  BY <1>12, <2>1, CallsAssumption DEF OpenChannel, Goto, TypeOK, StubInv
<1>13. ASSUME NEW t \in Thread, MakeStub(t) PROVE StubInv'
  BY <1>13 DEF MakeStub, Goto, TypeOK, StubInv
<1>14. ASSUME NEW t \in Thread, AssignStub(t) PROVE StubInv'
  BY <1>14, CallsAssumption DEF AssignStub, Goto, TypeOK, StubInv
<1>15. ASSUME NEW t \in Thread, ReturnStub(t) PROVE StubInv'
  BY <1>2, <1>15 DEF ReturnStub, InStub, Result
<1>16. CASE ConfigAppears \/ UNCHANGED vars
  BY <1>16 DEF ConfigAppears, vars, StubInv
<1>17. QED
  BY <1>3, <1>4, <1>5, <1>6, <1>7, <1>8, <1>9, <1>10, <1>11, <1>12, <1>13, <1>14,
     <1>15, <1>16 DEF Next, Run

\* Only AssignStub changes the stub, and never back to none.
LEMMA GlobalsStay ==
  ASSUME TypeOK, PlaceInv, StubInv, [Next]_vars
  PROVE  /\ _k8s_checked => _k8s_checked'
         /\ _stub # "none" => _stub' # "none"
<1> USE DEF globals, environment
<1>1. ASSUME NEW t \in Thread, AssignStub(t) PROVE _stub' # "none"
  BY <1>1, CallsAssumption DEF AssignStub, Goto, StubInv
<1>2. ASSUME NEW t \in Thread, Run(t) PROVE _k8s_checked => _k8s_checked'
  BY <1>2 DEF Run, Begin, InitK8s, TestChecked, MarkChecked, LoadConfig, LoadRaises,
     AssignCore, ReturnCore, TestStub, OpenChannel, MakeStub, AssignStub, ReturnStub
<1>3. ASSUME NEW t \in Thread, Run(t) PROVE AssignStub(t) \/ _stub' = _stub
  BY <1>3 DEF Run, Begin, InitK8s, TestChecked, MarkChecked, LoadConfig, LoadRaises,
     AssignCore, ReturnCore, TestStub, OpenChannel, MakeStub, ReturnStub
<1>4. CASE ConfigAppears \/ UNCHANGED vars
  BY <1>4 DEF ConfigAppears, vars
<1>5. QED  BY <1>1, <1>2, <1>3, <1>4 DEF Next

\* The result a thread gets last is the stub's, if it wants one.
LEMMA StubThereStep ==
  TypeOK /\ PlaceInv /\ StubInv /\ StubAlwaysThere /\ [Next]_vars => StubAlwaysThere'
<1> SUFFICES ASSUME TypeOK, PlaceInv, StubInv, StubAlwaysThere, [Next]_vars
             PROVE  StubAlwaysThere'
  OBVIOUS
<1> USE DEF globals, environment
<1>1. ASSUME NEW t \in Thread, NEW result \in Result, Return(t, result),
             pc[t] \in InCore \cup InStub \cup {"enter"},
             Accessor(t) = "_get_stub" => result = "client"
      PROVE  StubAlwaysThere'
  <2>1. /\ got' = [got EXCEPT ![t] = got'[t]]
        /\ Len(got'[t]) = Len(got[t]) + 1 /\ got'[t] \in Seq(Result)
        /\ got'[t][Len(got[t]) + 1] = result
    BY <1>1, ReturnEffect
  <2>2. /\ Len(got[t]) < Len(Plan(t)) /\ Len(got[t]) \in Nat
        /\ t \in ProvisionCall \cup TerminateCall /\ Len(got[t]) + 1 = Len(Plan(t)) =>
             Accessor(t) = "_get_stub"
    BY <1>1, AccessorShape DEF PlaceInv
  <2>3. \A q \in Thread \ {t} : got'[q] = got[q]
    BY <2>1 DEF TypeOK
  <2>4. QED  BY <1>1, <2>1, <2>2, <2>3 DEF StubAlwaysThere, Thread, Call
<1>2. ASSUME NEW t \in Thread, Begin(t) PROVE StubAlwaysThere'
  <2>1. got' = [got EXCEPT ![t] = <<>>]
    BY <1>2 DEF Begin
  <2>2. \A q \in Thread \ {t} : got'[q] = got[q]
    BY <2>1 DEF TypeOK
  <2>3. Len(got'[t]) = 0
    BY <2>1 DEF TypeOK
  <2>4. Len(Plan(t)) # 0
    BY PlanOf, Kinds
  <2>5. QED  BY <2>2, <2>3, <2>4 DEF StubAlwaysThere, Thread, Call
<1>3. ASSUME NEW t \in Thread, InitK8s(t) PROVE StubAlwaysThere'
  BY <1>1, <1>3 DEF InitK8s, Enter, Unloaded, Result
<1>4. ASSUME NEW t \in Thread, LoadRaises(t) \/ ReturnCore(t) PROVE StubAlwaysThere'
  <2>1. pc[t] \in InCore /\ Accessor(t) = "_get_k8s_core"
    BY <1>4 DEF LoadRaises, ReturnCore, PlaceInv, InCore
  <2>2. QED  BY <1>1, <1>4, <2>1 DEF LoadRaises, ReturnCore, Result
<1>5. ASSUME NEW t \in Thread, ReturnStub(t) PROVE StubAlwaysThere'
  BY <1>1, <1>5 DEF ReturnStub, StubInv, InStub, Result
<1>6. ASSUME UNCHANGED got PROVE StubAlwaysThere'
  BY <1>6 DEF StubAlwaysThere
<1>7. CASE ConfigAppears \/ UNCHANGED vars
  BY <1>6, <1>7 DEF ConfigAppears, vars
<1>8. ASSUME NEW t \in Thread, Run(t) PROVE StubAlwaysThere'
  BY <1>2, <1>3, <1>4, <1>5, <1>6, <1>8 DEF Run, TestChecked, MarkChecked, LoadConfig,
     AssignCore, TestStub, OpenChannel, MakeStub, AssignStub
<1>9. QED  BY <1>7, <1>8 DEF Next

(***************************************************************************)
(* Threads that come after the first use                                   *)
(***************************************************************************)

LEMMA UsedStep ==
  TypeOK /\ PlaceInv /\ StubInv /\ UsedInv /\ [Next]_vars => UsedInv'
<1> SUFFICES ASSUME TypeOK, PlaceInv, StubInv, UsedInv, [Next]_vars PROVE UsedInv'
  OBVIOUS
<1> USE DEF globals, environment
<1>1. /\ _k8s_checked => _k8s_checked'
      /\ _stub # "none" => _stub' # "none"
  BY GlobalsStay
\* A step that enters no accessor and does not leave one.
<1>2. ASSUME NEW t \in Thread, pc' = [pc EXCEPT ![t] = pc'[t]],
             pc[t] \notin {"return_core", "return_stub"},
             pc'[t] \in {"load", "assign", "return_core"} => _k8s_checked',
             UNCHANGED <<returned, late>>
      PROVE  UsedInv'
  BY <1>1, <1>2 DEF TypeOK, UsedInv
\* A return leaves the global of its accessor set.
<1>3. ASSUME NEW t \in Thread, NEW result \in Result, Return(t, result),
             pc[t] \in InCore \cup InStub \cup {"enter"},
             Accessor(t) = "_get_k8s_core" => _k8s_checked,
             Accessor(t) = "_get_stub" => _stub # "none"
      PROVE  UsedInv'
  <2>1. /\ pc' = [pc EXCEPT ![t] = pc'[t]] /\ pc'[t] \in {"enter", "idle", "done"}
        /\ returned' = returned \cup {Accessor(t)} /\ late' = late \ {t}
    BY <1>3, ReturnEffect
  <2>2. QED  BY <1>1, <1>3, <2>1 DEF TypeOK, UsedInv
<1>4. ASSUME NEW t \in Thread, Begin(t) PROVE UsedInv'
  BY <1>2, <1>4 DEF Begin, Goto, TypeOK
<1>5. ASSUME NEW t \in Thread, InitK8s(t) PROVE UsedInv'
  BY <1>3, <1>5 DEF InitK8s, Enter, Unloaded, Result
<1>6. ASSUME NEW t \in Thread, TestChecked(t) PROVE UsedInv'
  BY <1>1, <1>6 DEF TestChecked, Enter, Goto, NoteLate, TypeOK, UsedInv
<1>7. ASSUME NEW t \in Thread, MarkChecked(t) PROVE UsedInv'
  BY <1>2, <1>7 DEF MarkChecked, Goto, TypeOK
<1>8. ASSUME NEW t \in Thread, LoadConfig(t) PROVE UsedInv'
  BY <1>2, <1>8 DEF LoadConfig, Goto, TypeOK, UsedInv
<1>9. ASSUME NEW t \in Thread, LoadRaises(t) \/ ReturnCore(t) PROVE UsedInv'
  <2>1. /\ pc[t] \in InCore /\ Accessor(t) = "_get_k8s_core" /\ _k8s_checked
        /\ \E result \in Result : Return(t, result)
    BY <1>9 DEF LoadRaises, ReturnCore, PlaceInv, UsedInv, InCore, Result
  <2>2. QED  BY <1>3, <2>1
<1>10. ASSUME NEW t \in Thread, AssignCore(t) PROVE UsedInv'
  BY <1>2, <1>10 DEF AssignCore, Goto, TypeOK, UsedInv
<1>11. ASSUME NEW t \in Thread, TestStub(t) PROVE UsedInv'
  BY <1>1, <1>11 DEF TestStub, Enter, Goto, NoteLate, TypeOK, UsedInv
<1>12. ASSUME NEW t \in Thread, OpenChannel(t) \/ MakeStub(t) PROVE UsedInv'
  BY <1>2, <1>12 DEF OpenChannel, MakeStub, Goto, TypeOK
<1>13. ASSUME NEW t \in Thread, AssignStub(t) PROVE UsedInv'
  BY <1>2, <1>13 DEF AssignStub, Goto, TypeOK
<1>14. ASSUME NEW t \in Thread, ReturnStub(t) PROVE UsedInv'
  <2>1. /\ pc[t] \in InStub /\ Accessor(t) = "_get_stub" /\ _stub # "none"
        /\ \E result \in Result : Return(t, result)
    BY <1>14 DEF ReturnStub, PlaceInv, StubInv, InStub, Result
  <2>2. QED  BY <1>3, <2>1
<1>15. CASE ConfigAppears \/ UNCHANGED vars
  BY <1>15 DEF ConfigAppears, vars, UsedInv
<1>16. QED
  BY <1>4, <1>5, <1>6, <1>7, <1>8, <1>9, <1>10, <1>11, <1>12, <1>13, <1>14, <1>15
     DEF Next, Run

(***************************************************************************)
(* A configuration that was there from the start                           *)
(***************************************************************************)

LEMMA ConfiguredBefore ==
  ASSUME [Next]_vars, config' = "valid", ~appeared'
  PROVE  config = "valid" /\ ~appeared /\ ~ConfigAppears
<1>1. ~ConfigAppears
  BY DEF ConfigAppears
<1>2. ASSUME NEW t \in Thread, Run(t) PROVE UNCHANGED <<config, appeared>>
  BY <1>2 DEF Run, Begin, InitK8s, TestChecked, MarkChecked, LoadConfig, LoadRaises,
     AssignCore, ReturnCore, TestStub, OpenChannel, MakeStub, AssignStub, ReturnStub,
     environment
<1>3. QED  BY <1>1, <1>2 DEF Next, vars, environment

\* serve() makes the client: it is the only one that runs, and the first one
\* to test _k8s_checked.
LEMMA ConfiguredStep ==
  TypeOK /\ PlaceInv /\ StubInv /\ ConfiguredInv /\ [Next]_vars => ConfiguredInv'
<1> SUFFICES ASSUME TypeOK, PlaceInv, StubInv, ConfiguredInv, [Next]_vars,
                    config' = "valid", ~appeared'
             PROVE  MadeFirst'
  BY DEF ConfiguredInv
<1> USE DEF globals, environment
<1>1. config = "valid" /\ ~appeared /\ ~ConfigAppears /\ MadeFirst
  BY ConfiguredBefore DEF ConfiguredInv
<1>2. "serve" \in Thread /\ "serve" \notin Call
  BY CallsAssumption DEF Thread
<1>3. ASSUME NEW t \in Thread, pc[t] # "idle" PROVE started \/ t = "serve"
  BY <1>3 DEF PlaceInv
<1>4. ASSUME NEW t \in Thread, NEW result \in Result, Return(t, result),
             pc[t] \in InCore \cup InStub \cup {"enter"},
             UNCHANGED <<_k8s_core, _k8s_checked, held>>,
             t = "serve" => /\ pc'[t] = "done" => _k8s_core
                            /\ pc'[t] = "enter" => ~_k8s_checked
      PROVE  MadeFirst'
  <2>1. /\ pc' = [pc EXCEPT ![t] = pc'[t]] /\ pc'[t] \in {"enter", "idle", "done"}
        /\ t = "serve" => (started' <=> pc'[t] = "done")
        /\ t # "serve" => started' = started
    BY <1>4, ReturnEffect
  <2>2. started' => _k8s_core'
    BY <1>1, <1>4, <2>1 DEF MadeFirst
  <2>3. ~started' /\ pc'["serve"] \in {"enter", "mark"} => ~_k8s_checked'
    <3>1. CASE t = "serve"
      BY <1>4, <2>1, <3>1
    <3>2. CASE t # "serve"
      BY <1>1, <1>2, <1>4, <2>1, <3>2 DEF MadeFirst, TypeOK
    <3>3. QED  BY <3>1, <3>2
  <2>4. QED  BY <1>1, <1>4, <2>1, <2>2, <2>3 DEF MadeFirst, TypeOK
<1>5. ASSUME NEW t \in Thread, Begin(t) PROVE MadeFirst'
  BY <1>1, <1>2, <1>5 DEF Begin, Goto, MadeFirst, TypeOK
<1>6. ASSUME NEW t \in Thread, InitK8s(t) PROVE MadeFirst'
  <2>1. Return(t, "client") /\ pc[t] = "enter" /\ Accessor(t) = "_init_k8s"
    BY <1>1, <1>6 DEF InitK8s, Enter
  <2>2. t = "serve" => pc'[t] = "enter" /\ ~_k8s_checked
    <3>1. SUFFICES ASSUME t = "serve" PROVE pc'[t] = "enter" /\ ~_k8s_checked
      OBVIOUS
    <3>2. Len(got[t]) < Len(Plan(t)) /\ ~started
      BY <2>1, <3>1 DEF PlaceInv
    <3>3. Len(got[t]) + 1 # Len(Plan(t))
      BY <2>1, <3>1, <3>2, AccessorShape
    <3>4. pc'[t] = "enter"
      BY <2>1, <3>1, <3>3, ReturnEffect DEF Refused, Result
    <3>5. QED  BY <1>1, <2>1, <3>1, <3>2, <3>4 DEF MadeFirst
  <2>3. QED  BY <1>4, <1>6, <2>1, <2>2 DEF InitK8s, Result
<1>7. ASSUME NEW t \in Thread, TestChecked(t) PROVE MadeFirst'
  <2>1. _k8s_checked => _k8s_core
    BY <1>1, <1>3, <1>7 DEF TestChecked, Enter, MadeFirst
  <2>2. QED  BY <1>1, <1>2, <1>7, <2>1 DEF TestChecked, Goto, MadeFirst, TypeOK
<1>8. ASSUME NEW t \in Thread, MarkChecked(t) PROVE MadeFirst'
  <2>1. started \/ t = "serve"
    BY <1>3, <1>8 DEF MarkChecked, Goto
  <2>2. QED  BY <1>1, <1>8, <2>1 DEF MarkChecked, Goto, MadeFirst, TypeOK
<1>9. ASSUME NEW t \in Thread, LoadConfig(t) PROVE MadeFirst'
  BY <1>1, <1>2, <1>9 DEF LoadConfig, Goto, MadeFirst, TypeOK
<1>10. ASSUME NEW t \in Thread, LoadRaises(t) PROVE MadeFirst'
  BY <1>1, <1>10 DEF LoadRaises
<1>11. ASSUME NEW t \in Thread, AssignCore(t) PROVE MadeFirst'
  BY <1>1, <1>2, <1>11 DEF AssignCore, Goto, MadeFirst, TypeOK
<1>12. ASSUME NEW t \in Thread, ReturnCore(t) PROVE MadeFirst'
  <2>1. /\ Return(t, "client") /\ pc[t] = "return_core" /\ _k8s_core
        /\ Accessor(t) = "_get_k8s_core" /\ Len(got[t]) < Len(Plan(t))
    BY <1>1, <1>12 DEF ReturnCore, MadeFirst, PlaceInv, InCore
  <2>2. t = "serve" => pc'[t] # "enter"
    <3>1. t = "serve" => Len(got[t]) + 1 = Len(Plan(t))
      BY <2>1, AccessorShape
    <3>2. QED  BY <2>1, <3>1, ReturnEffect DEF InCore, Result
  <2>3. QED  BY <1>4, <1>12, <2>1, <2>2 DEF ReturnCore, InCore, Result
<1>13. ASSUME NEW t \in Thread, TestStub(t) \/ OpenChannel(t) \/ MakeStub(t) \/ AssignStub(t)
       PROVE  MadeFirst'
  BY <1>1, <1>2, <1>13 DEF TestStub, OpenChannel, MakeStub, AssignStub, Goto, MadeFirst,
     TypeOK
<1>14. ASSUME NEW t \in Thread, ReturnStub(t) PROVE MadeFirst'
  <2>1. /\ Return(t, "client") /\ pc[t] \in InStub
        /\ Accessor(t) = "_get_stub" /\ Len(got[t]) < Len(Plan(t))
    BY <1>14 DEF ReturnStub, StubInv, PlaceInv, InStub
  <2>2. t # "serve"
    BY <1>2, <2>1, AccessorShape DEF Call
  <2>3. QED  BY <1>4, <1>14, <2>1, <2>2 DEF ReturnStub, Result
<1>15. CASE UNCHANGED vars
  BY <1>1, <1>15 DEF vars, MadeFirst
<1>16. QED
  BY <1>1, <1>5, <1>6, <1>7, <1>8, <1>9, <1>10, <1>11, <1>12, <1>13, <1>14, <1>15
     DEF Next, Run

LEMMA NeverRefusedStep ==
  /\ TypeOK /\ PlaceInv /\ StubInv /\ ConfiguredInv /\ ConfiguredNeverRefused
  /\ [Next]_vars
  => ConfiguredNeverRefused'
<1> SUFFICES ASSUME TypeOK, PlaceInv, StubInv, ConfiguredInv, ConfiguredNeverRefused,
                    [Next]_vars, config' = "valid", ~appeared'
             PROVE  \A t \in Thread : \A i \in DOMAIN got'[t] : got'[t][i] = "client"
  BY DEF ConfiguredNeverRefused
<1> USE DEF globals, environment
<1>1. /\ config = "valid" /\ ~appeared /\ ~ConfigAppears /\ MadeFirst
      /\ \A t \in Thread : \A i \in DOMAIN got[t] : got[t][i] = "client"
  BY ConfiguredBefore DEF ConfiguredInv, ConfiguredNeverRefused
<1>2. ASSUME NEW t \in Thread, pc[t] \in InCore \cup InStub \cup {"enter"},
             Return(t, "client")
      PROVE  \A q \in Thread : \A i \in DOMAIN got'[q] : got'[q][i] = "client"
  <2>1. /\ got' = [got EXCEPT ![t] = got'[t]]
        /\ got'[t] \in Seq(Result) /\ got[t] \in Seq(Result)
        /\ Len(got'[t]) = Len(got[t]) + 1
        /\ \A i \in DOMAIN got'[t] :
             got'[t][i] = IF i = Len(got[t]) + 1 THEN "client" ELSE got[t][i]
    BY <1>2, ReturnEffect DEF Result, TypeOK
  <2>2. \A i \in DOMAIN got'[t] : i = Len(got[t]) + 1 \/ i \in DOMAIN got[t]
    BY <2>1
  <2>3. \A q \in Thread \ {t} : got'[q] = got[q]
    BY <2>1 DEF TypeOK
  <2>4. QED  BY <1>1, <2>1, <2>2, <2>3
<1>3. ASSUME NEW t \in Thread, Begin(t)
      PROVE  \A q \in Thread : \A i \in DOMAIN got'[q] : got'[q][i] = "client"
  <2>1. got'[t] = <<>> /\ \A q \in Thread \ {t} : got'[q] = got[q]
    BY <1>3 DEF Begin, TypeOK
  <2>2. DOMAIN got'[t] = {}
    BY <2>1
  <2>3. QED  BY <1>1, <2>1, <2>2
<1>4. ASSUME NEW t \in Thread, InitK8s(t)
      PROVE  Return(t, "client") /\ pc[t] = "enter"
  BY <1>1, <1>4 DEF InitK8s, Enter
<1>5. ASSUME NEW t \in Thread, LoadRaises(t) PROVE FALSE
  BY <1>1, <1>5 DEF LoadRaises
<1>6. ASSUME NEW t \in Thread, ReturnCore(t) \/ ReturnStub(t)
      PROVE  Return(t, "client") /\ pc[t] \in InCore \cup InStub
  BY <1>1, <1>6 DEF ReturnCore, ReturnStub, MadeFirst, StubInv, InCore, InStub
<1>7. CASE UNCHANGED got
  BY <1>1, <1>7
<1>8. ASSUME NEW t \in Thread, Run(t)
      PROVE  \A q \in Thread : \A i \in DOMAIN got'[q] : got'[q][i] = "client"
  BY <1>2, <1>3, <1>4, <1>5, <1>6, <1>7, <1>8 DEF Run, TestChecked, MarkChecked,
     LoadConfig, AssignCore, TestStub, OpenChannel, MakeStub, AssignStub
<1>9. QED  BY <1>1, <1>7, <1>8 DEF Next, vars

(***************************************************************************)
(* Theorems                                                                *)
(***************************************************************************)

LEMMA InvInit == Init => IInv
<1> SUFFICES ASSUME Init PROVE IInv
  OBVIOUS
<1>1. TypeOK /\ PlaceInv
  BY TypeInit
<1>2. pc \in [Thread -> {"idle", "enter"}] /\ got = [t \in Thread |-> <<>>]
  BY DEF Init
<1>3. \A t \in Thread : Len(got[t]) = 0 /\ DOMAIN got[t] = {} /\ Len(Plan(t)) # 0
  BY <1>2, PlanOf, Kinds
<1>4. StubAlwaysThere /\ ConfiguredNeverRefused
  BY <1>3 DEF StubAlwaysThere, ConfiguredNeverRefused, Thread, Call
<1>5. QED  BY <1>1, <1>2, <1>4 DEF Init, IInv, StubInv, UsedInv, ConfiguredInv, MadeFirst

LEMMA InvStep == IInv /\ [Next]_vars => IInv'
BY TypeStep, StubStep, UsedStep, ConfiguredStep, NeverRefusedStep, StubThereStep DEF IInv

LEMMA Inductive == Spec => []IInv
BY InvInit, InvStep, PTL DEF Spec

\* The globals and the threads' places stay what the code makes them, with any
\* number of threads between any two statements.
THEOREM TypeCorrect == Spec => []TypeOK
BY Inductive, PTL DEF IInv

\* A server that starts with a valid configuration refuses no call for the
\* lack of one, although _get_k8s_core sets _k8s_checked before the client is
\* there (provisioner.py:30-44).
THEOREM NeverRefused == Spec => []ConfiguredNeverRefused
BY Inductive, PTL DEF IInv

\* Only calls that overlap the first use of an accessor load or connect.
THEOREM FirstUse == Spec => []FirstUseDecides
<1>1. IInv => FirstUseDecides
  BY DEF IInv, UsedInv, FirstUseDecides
<1>2. QED  BY Inductive, <1>1, PTL

\* However many first calls race in _get_stub, each goes on with a stub
\* (db_client.py:24-34).
THEOREM StubThere == Spec => []StubAlwaysThere
BY Inductive, PTL DEF IInv
=============================================================================
