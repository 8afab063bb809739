---------------------------- MODULE LazyClients ----------------------------
(***************************************************************************)
(* The clients the server process makes when they are first needed, shared *)
(* by its threads without a lock: provisioner._get_k8s_core,               *)
(* db_client._get_stub and the telemetry publisher's own _init_k8s, under  *)
(* the order in which serve() starts the threads that use them.            *)
(*                                                                         *)
(* A step reads or writes one global; threads may switch in between.  What *)
(* a thread does with a client is left out, except which call comes next.  *)
(***************************************************************************)
EXTENDS Naturals, Sequences

CONSTANTS
  ProvisionCall,   \* calls of ProvisionTenant
  TerminateCall,   \* calls of TerminateTenant
  StatusCall,      \* calls of GetInfraStatus
  AllowDev         \* ALLOW_DEV_WITHOUT_K8S

Call == ProvisionCall \cup TerminateCall \cup StatusCall
Thread == Call \cup {"serve", "publisher"}

\* A call is of one kind, and none is named like another thread or like the
\* absence of one.
ASSUME CallsAssumption ==
  /\ {"serve", "publisher", "none"} \cap Call = {}
  /\ ProvisionCall \cap TerminateCall = {}
  /\ StatusCall \cap (ProvisionCall \cup TerminateCall) = {}
  /\ AllowDev \in BOOLEAN

VARIABLES
  config,         \* what loading the Kubernetes configuration meets
  started,        \* serve() has started the publisher and the server
  _k8s_checked,
  _k8s_core,      \* there is a client
  publisherCore,  \* the publisher has a client of its own
  _channel,       \* the thread that opened the channel
  _stub,          \* the channel the stub was made over
  pc,
  held,           \* what a thread has read and not yet stored
  got,            \* results of the accessors a thread has called so far
  \* history
  appeared,       \* the configuration became valid after the start
  returned,       \* accessors that some thread has returned from
  late            \* threads whose present accessor call began after that

globals == <<_k8s_checked, _k8s_core, publisherCore, _channel, _stub>>
environment == <<config, appeared>>
vars == <<globals, environment, started, pc, held, got, returned, late>>

\* "absent" is a ConfigException, FileNotFoundError or IsADirectoryError;
\* "broken" is any other exception, a file that cannot be parsed for one.
Config == {"absent", "broken", "valid"}

\* The accessors a thread calls, in order: check_shared_cluster_capacity and
\* get_cluster_status before the database call; get_cluster_status and
\* get_patroni_status; and _init_k8s and get_patroni_status in a collection.
Plan(t) ==
  CASE t \in ProvisionCall -> <<"_get_k8s_core", "_get_k8s_core", "_get_stub">>
    [] t \in TerminateCall -> <<"_get_stub">>
    [] t \in StatusCall    -> <<"_get_k8s_core", "_get_k8s_core">>
    [] OTHER               -> <<"_init_k8s", "_get_k8s_core">>

Accessor(t) == Plan(t)[Len(got[t]) + 1]

Init ==
  /\ config \in Config
  /\ appeared = FALSE
  /\ started = FALSE
  /\ _k8s_checked = FALSE /\ _k8s_core = FALSE /\ publisherCore = FALSE
  /\ _channel = "none" /\ _stub = "none"
  /\ pc = [t \in Thread |-> IF t = "serve" THEN "enter" ELSE "idle"]
  /\ held = [t \in Thread |-> "none"]
  /\ got = [t \in Thread |-> <<>>]
  /\ returned = {}
  /\ late = {}

\* A thread goes on from one statement to the next.
Goto(t, here, next) ==
  /\ pc[t] = here
  /\ pc' = [pc EXCEPT ![t] = next]

----------------------------------------------------------------------------
(* Threads                                                                 *)

\* Plausible bug: serve() does not collect before it starts the threads.
Begin_unordered(t) ==
  /\ t # "serve"
  /\ Goto(t, "idle", "enter")
  /\ got' = [got EXCEPT ![t] = <<>>]
  /\ UNCHANGED <<globals, environment, started, held, returned, late>>

\* The pool runs a call, the publisher its next collection.
Begin(t) ==
  /\ started
  /\ t # "serve"
  /\ Goto(t, "idle", "enter")
  /\ got' = [got EXCEPT ![t] = <<>>]
  /\ UNCHANGED <<globals, environment, started, held, returned, late>>

\* Without a client a provisioning is refused, unless in development mode, and
\* a collection is skipped.
Refused(t, result) ==
  /\ result = "none"
  /\ got[t] = <<>>
  /\ \/ t \in ProvisionCall /\ ~AllowDev
     \/ t \in {"serve", "publisher"}

\* The publisher sleeps and collects again, others are done.
Rest(t) == IF t = "publisher" THEN "idle" ELSE "done"

\* An accessor returns or raises.  An exception ends the call, the collection
\* of the publisher, and the initial one of serve(), which goes on to start
\* the threads.
Return(t, result) ==
  LET over == \/ result = "raised"
              \/ Refused(t, result)
              \/ Len(got[t]) + 1 = Len(Plan(t))
  IN
  /\ got' = [got EXCEPT ![t] = Append(@, result)]
  /\ pc' = [pc EXCEPT ![t] = IF over THEN Rest(t) ELSE "enter"]
  /\ started' = (started \/ (over /\ t = "serve"))
  /\ returned' = returned \cup {Accessor(t)}
  /\ late' = late \ {t}

Enter(t, accessor) ==
  /\ pc[t] = "enter"
  /\ Accessor(t) = accessor

\* Entering a global accessor late is entering it after a return from it.
NoteLate(t) == late' = IF Accessor(t) \in returned THEN late \cup {t} ELSE late

----------------------------------------------------------------------------
(* _init_k8s, which only one thread at a time calls                        *)

\* What _init_k8s gives without a client.
Unloaded == IF config = "broken" THEN "raised" ELSE "none"

\* Plausible bug: a failure is remembered, as _get_k8s_core does.
InitK8s_once(t) ==
  /\ Enter(t, "_init_k8s")
  /\ publisherCore' = (publisherCore \/ (config = "valid" /\ t = "serve"))
  /\ Return(t, IF publisherCore' THEN "client" ELSE Unloaded)
  /\ UNCHANGED <<environment, _k8s_checked, _k8s_core, _channel, _stub, held>>

InitK8s(t) ==
  /\ Enter(t, "_init_k8s")
  /\ publisherCore' = (publisherCore \/ config = "valid")
  /\ Return(t, IF publisherCore' THEN "client" ELSE Unloaded)
  /\ UNCHANGED <<environment, _k8s_checked, _k8s_core, _channel, _stub, held>>

----------------------------------------------------------------------------
(* _get_k8s_core                                                           *)

TestChecked(t) ==
  /\ Enter(t, "_get_k8s_core")
  /\ Goto(t, "enter", IF _k8s_checked THEN "return_core" ELSE "mark")
  /\ NoteLate(t)
  /\ UNCHANGED <<globals, environment, started, held, got, returned>>

\* Plausible bug: the flag is only set when there is a client to keep.
MarkChecked_ifValid(t) ==
  /\ Goto(t, "mark", "load")
  /\ _k8s_checked' = (config = "valid")
  /\ UNCHANGED <<environment, started, _k8s_core, publisherCore, _channel, _stub,
                 held, got, returned, late>>

MarkChecked(t) ==
  /\ Goto(t, "mark", "load")
  /\ _k8s_checked' = TRUE
  /\ UNCHANGED <<environment, started, _k8s_core, publisherCore, _channel, _stub,
                 held, got, returned, late>>

LoadConfig(t) ==
  /\ pc[t] = "load"
  /\ config # "broken"
  /\ Goto(t, "load", "assign")
  /\ held' = [held EXCEPT ![t] = config]
  /\ UNCHANGED <<globals, environment, started, got, returned, late>>

\* Plausible bug: the exception is handed to the caller as a result.
LoadRaises_returned(t) ==
  /\ pc[t] = "load"
  /\ config = "broken"
  /\ Return(t, config)
  /\ UNCHANGED <<globals, environment, held>>

\* An exception that is not caught leaves _get_k8s_core, and its caller: no
\* caller has it inside its try block.
LoadRaises(t) ==
  /\ pc[t] = "load"
  /\ config = "broken"
  /\ Return(t, "raised")
  /\ UNCHANGED <<globals, environment, held>>

AssignCore(t) ==
  /\ Goto(t, "assign", "return_core")
  /\ _k8s_core' = (held[t] = "valid")
  /\ UNCHANGED <<environment, started, _k8s_checked, publisherCore, _channel, _stub,
                 held, got, returned, late>>

\* The global is returned, whoever has set it last.
ReturnCore(t) ==
  /\ pc[t] = "return_core"
  /\ Return(t, IF _k8s_core THEN "client" ELSE "none")
  /\ UNCHANGED <<globals, environment, held>>

----------------------------------------------------------------------------
(* _get_stub                                                               *)

\* Plausible bug: the global that is set first is the one that is tested.
TestStub_channelTested(t) ==
  /\ Enter(t, "_get_stub")
  /\ Goto(t, "enter", IF _channel = "none" THEN "channel" ELSE "return_stub")
  /\ NoteLate(t)
  /\ UNCHANGED <<globals, environment, started, held, got, returned>>

TestStub(t) ==
  /\ Enter(t, "_get_stub")
  /\ Goto(t, "enter", IF _stub = "none" THEN "channel" ELSE "return_stub")
  /\ NoteLate(t)
  /\ UNCHANGED <<globals, environment, started, held, got, returned>>

OpenChannel(t) ==
  /\ Goto(t, "channel", "stub")
  /\ _channel' = t
  /\ UNCHANGED <<environment, started, _k8s_checked, _k8s_core, publisherCore, _stub,
                 held, got, returned, late>>

\* The stub is made over the channel the global has now.
MakeStub(t) ==
  /\ Goto(t, "stub", "assign_stub")
  /\ held' = [held EXCEPT ![t] = _channel]
  /\ UNCHANGED <<globals, environment, started, got, returned, late>>

AssignStub(t) ==
  /\ Goto(t, "assign_stub", "return_stub")
  /\ _stub' = held[t]
  /\ UNCHANGED <<environment, started, _k8s_checked, _k8s_core, publisherCore, _channel,
                 held, got, returned, late>>

ReturnStub(t) ==
  /\ pc[t] = "return_stub"
  /\ Return(t, IF _stub = "none" THEN "none" ELSE "client")
  /\ UNCHANGED <<globals, environment, held>>

----------------------------------------------------------------------------

\* The configuration is mounted or repaired while the process runs.
ConfigAppears ==
  /\ config # "valid"
  /\ config' = "valid"
  /\ appeared' = TRUE
  /\ UNCHANGED <<globals, started, pc, held, got, returned, late>>

Run(t) ==
  \/ Begin(t) \/ InitK8s(t)
  \/ TestChecked(t) \/ MarkChecked(t) \/ LoadConfig(t) \/ LoadRaises(t)
  \/ AssignCore(t) \/ ReturnCore(t)
  \/ TestStub(t) \/ OpenChannel(t) \/ MakeStub(t) \/ AssignStub(t) \/ ReturnStub(t)

Next == (\E t \in Thread : Run(t)) \/ ConfigAppears

Spec == Init /\ [][Next]_vars

\* The interpreter runs the main thread and the publisher's, which sleeps a
\* bounded time.
FairSpec == Spec /\ WF_vars(Run("serve")) /\ WF_vars(Run("publisher"))

----------------------------------------------------------------------------
(* Properties                                                              *)

TypeOK ==
  /\ config \in Config
  /\ {appeared, started, _k8s_checked, _k8s_core, publisherCore} \subseteq BOOLEAN
  /\ {_channel, _stub} \subseteq Call \cup {"none"}
  /\ pc \in [Thread -> {"idle", "enter", "mark", "load", "assign", "return_core",
                        "channel", "stub", "assign_stub", "return_stub", "done"}]
  /\ held \in [Thread -> Config \cup Call \cup {"none"}]
  /\ got \in [Thread -> Seq({"client", "none", "raised"})]
  /\ \A t \in Thread : Len(got[t]) <= Len(Plan(t))
  /\ returned \subseteq {"_init_k8s", "_get_k8s_core", "_get_stub"}
  /\ late \subseteq Thread

\* With a configuration that was valid from the start no call is told that
\* Kubernetes is not configured, however many threads ask at once and although
\* _k8s_checked is set before the client is there: serve()'s initial
\* collection has made the client before any other thread runs.
ConfiguredNeverRefused ==
  config = "valid" /\ ~appeared =>
    \A t \in Thread : \A i \in DOMAIN got[t] : got[t][i] = "client"

\* The first use decides: a call that begins when some thread has left the
\* accessor, with a result or an exception, neither loads the configuration
\* (which might raise) nor opens a channel, so that only calls that overlap
\* the first use can differ from the ones that follow.
FirstUseDecides ==
  \A t \in late : pc[t] \notin {"mark", "load", "assign", "channel", "stub", "assign_stub"}

\* A call that goes on to the database layer has a stub to call, although
\* _channel is set before _stub and either may be replaced meanwhile.
StubAlwaysThere ==
  \A t \in ProvisionCall \cup TerminateCall :
    Len(got[t]) = Len(Plan(t)) => got[t][Len(got[t])] = "client"

\* The publisher asks again in each collection: once the configuration is
\* valid it gets its client, although the calls may never get theirs.
PublisherRecovers == (config = "valid") ~> publisherCore
=============================================================================
