------------------------------ MODULE Scaling ------------------------------
(***************************************************************************)
(* scaling_consumer.py: consumers of scaling recommendations (the server's *)
(* own and any simulate_scaling_event.py beside it) that clamp a           *)
(* recommendation, compare it with what the StatefulSet has, and patch the *)
(* StatefulSet; and the API server that stores what they send.             *)
(*                                                                         *)
(* A quantity is a number and a suffix.  CPU: "m" for millicores, "" for   *)
(* none, "displaced" for an m elsewhere ("m500"), "bad" for anything int() *)
(* refuses once every m is removed.  Memory: "Mi", "Gi" or "bad".  "number" *)
(* stands for a value that is not a string at all.                         *)
(*                                                                         *)
(* A remote call takes three steps: the request leaves, the API server     *)
(* acts on it, and the answer arrives or does not.  Between them the other *)
(* consumers and the cluster move on, and the consumer's process may end.  *)
(***************************************************************************)
EXTENDS Integers, FiniteSets

CONSTANTS
  Consumer,       \* ScalingConsumer objects, each in a process of its own
  Simulator,      \* those of them that a simulate_scaling_event.py runs
  Event,          \* recommendations the monitoring layer may send
  MaxEvents,      \* bound: events each consumer handles
  MaxRestarts,    \* bound: restarts of the process of each other consumer
  MaxRedeploys    \* bound: runs of deploy.sh on the running cluster

MIN_CPU == 250
MAX_CPU == 2000
MIN_MEMORY == 256
MAX_MEMORY == 2048

CpuQuantity == [n : Int, suffix : {"m", "", "displaced", "bad", "number"}]
MemoryQuantity == [n : Int, suffix : {"Mi", "Gi", "bad", "number"}]

\* complete: the event has all the required fields.
ASSUME EventAssumption ==
  Event \subseteq [complete : BOOLEAN,
                   action : {"scale_up", "scale_down", "unknown"},
                   cpu : CpuQuantity, memory : MemoryQuantity]

Ask(action, n, suffix, memory, unit) ==
  [complete |-> TRUE, action |-> action,
   cpu |-> [n |-> n, suffix |-> suffix], memory |-> [n |-> memory, suffix |-> unit]]

\* A run of simulate_scaling_event.py has its consumer handle one of these.
Simulated == {Ask("scale_up", 1500, "m", 1, "Gi"), Ask("scale_down", 500, "m", 512, "Mi")}

ASSUME SimulatorAssumption == Simulator \subseteq Consumer

ASSUME ScalingBounds == MaxEvents \in Nat /\ MaxRestarts \in Nat /\ MaxRedeploys \in Nat

----------------------------------------------------------------------------
(* Quantities                                                              *)

\* Plausible bug: the upper bound is not enforced.
ClampCpu_noMaximum(q) == IF q.n < MIN_CPU THEN [n |-> MIN_CPU, suffix |-> "m"] ELSE q

\* raw_cpu after every m is removed is compared with the bounds; a quantity
\* within them is kept as it was written.
ClampCpu(q) ==
  CASE q.n < MIN_CPU -> [n |-> MIN_CPU, suffix |-> "m"]
    [] q.n > MAX_CPU -> [n |-> MAX_CPU, suffix |-> "m"]
    [] OTHER         -> q

memory_to_mi(q) == IF q.suffix = "Gi" THEN q.n * 1024 ELSE q.n

\* Plausible bug: the upper bound is not enforced for memory.
ClampMemory_noMaximum(q) ==
  IF memory_to_mi(q) < MIN_MEMORY THEN [n |-> MIN_MEMORY, suffix |-> "Mi"] ELSE q

ClampMemory(q) ==
  CASE memory_to_mi(q) < MIN_MEMORY -> [n |-> MIN_MEMORY, suffix |-> "Mi"]
    [] memory_to_mi(q) > MAX_MEMORY -> [n |-> 2, suffix |-> "Gi"]
    [] OTHER                         -> q

\* The values an accepted event asks for.
Clamp(e) == [cpu |-> ClampCpu(e.cpu), memory |-> ClampMemory(e.memory)]

\* double_cpu drops the last character, an m or, without one, a digit.
double_cpu(q) == 2 * (IF q.suffix = "m" THEN q.n ELSE q.n \div 10)
double_memory(q) == 2 * memory_to_mi(q)

\* Kubernetes' reading of a quantity, in millicores and mebibytes, and the
\* canonical form in which it gives a stored quantity back.
CpuValue(q) == IF q.suffix = "m" THEN q.n ELSE q.n * 1000
CanonicalCpu(v) == IF v % 1000 = 0 THEN [n |-> v \div 1000, suffix |-> ""]
                                   ELSE [n |-> v, suffix |-> "m"]
CanonicalMemory(v) == IF v % 1024 = 0 THEN [n |-> v \div 1024, suffix |-> "Gi"]
                                      ELSE [n |-> v, suffix |-> "Mi"]

Resources(t) == [cpu |-> CpuValue(t.cpu), memory |-> memory_to_mi(t.memory),
                 cpu_limit |-> double_cpu(t.cpu),
                 memory_limit |-> double_memory(t.memory)]

\* The API server refuses a request above its limit.
Valid(res) == res.cpu <= res.cpu_limit /\ res.memory <= res.memory_limit

\* The resources statefulset.yaml is applied with.
Manifest == [cpu |-> 500, memory |-> 512, cpu_limit |-> 1000, memory_limit |-> 1024]

----------------------------------------------------------------------------

VARIABLES
  sts,            \* resources of the postgres container in the StatefulSet
  wire,           \* patches sent that the API server has not acted on
  pc,             \* where each consumer's handle_event stands
  event,          \* the event each consumer handles
  target,         \* new_cpu and new_memory, of this event or the latest
  current,        \* what get_current_resources returned; {} when it failed
  scale_count,
  SCALING_EVENTS, \* each consumer process's counter, by outcome
  \* history and bounds
  handled,        \* events each consumer has done with, which number its patches
  life,           \* processes of each consumer that have ended
  outcome,        \* how each consumer's latest event ended
  met,            \* the StatefulSet had target at some instant of the event
  overtaken,      \* somebody else changed it since the event arrived
  stores,         \* patches the API server has stored
  unanswered,     \* events whose patch this process got no answer to
  redeploys

consumerVars == <<event, target, current>>
countVars == <<scale_count, SCALING_EVENTS>>
eventVars == <<handled, outcome>>
storeVars == <<sts, met, overtaken>>
vars == <<pc, wire, consumerVars, countVars, eventVars, storeVars,
          life, stores, unanswered, redeploys>>

Outcome == {"applied", "skipped", "clamped", "rejected"}

NoTarget == [cpu |-> CanonicalCpu(Manifest.cpu), memory |-> CanonicalMemory(Manifest.memory)]

NoEvent == [complete |-> FALSE, action |-> "unknown",
            cpu |-> NoTarget.cpu, memory |-> NoTarget.memory]

Init ==
  /\ sts = Manifest
  /\ wire = {} /\ stores = {}
  /\ pc = [c \in Consumer |-> "idle"]
  /\ event = [c \in Consumer |-> NoEvent]
  /\ target = [c \in Consumer |-> NoTarget]
  /\ current = [c \in Consumer |-> {}]
  /\ scale_count = [c \in Consumer |-> 0]
  /\ SCALING_EVENTS = [c \in Consumer |-> [o \in Outcome |-> 0]]
  /\ handled = [c \in Consumer |-> 0]
  /\ life = [c \in Consumer |-> 0]
  /\ outcome = [c \in Consumer |-> "none"]
  /\ met = [c \in Consumer |-> FALSE]
  /\ overtaken = [c \in Consumer |-> FALSE]
  /\ unanswered = [c \in Consumer |-> {}]
  /\ redeploys = 0

----------------------------------------------------------------------------
(* handle_event                                                            *)

\* The event c handles is over, with o as its end.
Close(c, o) ==
  /\ pc' = [pc EXCEPT ![c] = "idle"]
  /\ event' = [event EXCEPT ![c] = NoEvent]
  /\ current' = [current EXCEPT ![c] = {}]
  /\ outcome' = [outcome EXCEPT ![c] = o]
  /\ handled' = [handled EXCEPT ![c] = @ + 1]

\* handle_event returns, counting o if it is one of the counted outcomes.
Return(c, o) ==
  /\ Close(c, o)
  /\ SCALING_EVENTS' = IF o \in Outcome THEN [SCALING_EVENTS EXCEPT ![c][o] = @ + 1]
                                       ELSE SCALING_EVENTS

\* Plausible bug: a memory int() refuses is not caught.
Verdict_memoryUnchecked(e) ==
  CASE ~e.complete -> "incomplete"
    [] e.complete /\ e.cpu.suffix = "bad" -> "rejected"
    [] OTHER -> "accepted"

\* What validation makes of an event, in the order of its tests.  A value that
\* is no string raises an AttributeError, which leaves handle_event.
Verdict(e) ==
  CASE ~e.complete -> "incomplete"
    [] e.complete /\ e.cpu.suffix = "number" -> "raised"
    [] e.complete /\ e.cpu.suffix = "bad" -> "rejected"
    [] /\ e.complete /\ e.cpu.suffix \notin {"number", "bad"}
       /\ e.memory.suffix = "number" -> "raised"
    [] /\ e.complete /\ e.cpu.suffix \notin {"number", "bad"}
       /\ e.memory.suffix # "number"
       /\ e.memory.suffix = "bad" \/ e.action = "unknown" -> "rejected"
    [] OTHER -> "accepted"

\* An event arrives and is validated and clamped.
Receive(c, e) ==
  /\ pc[c] = "idle"
  /\ handled[c] < MaxEvents
  /\ c \in Simulator => handled[c] = 0 /\ life[c] = 0 /\ e \in Simulated
  /\ IF Verdict(e) # "accepted"
       THEN /\ Return(c, Verdict(e))
            /\ UNCHANGED <<target, met, overtaken>>
       ELSE /\ pc' = [pc EXCEPT ![c] = "read"]
            /\ event' = [event EXCEPT ![c] = e]
            /\ target' = [target EXCEPT ![c] = Clamp(e)]
            /\ met' = [met EXCEPT ![c] = sts = Resources(Clamp(e))]
            /\ overtaken' = [overtaken EXCEPT ![c] = FALSE]
            /\ UNCHANGED <<current, SCALING_EVENTS, eventVars>>
  /\ UNCHANGED <<sts, wire, scale_count, life, stores, unanswered, redeploys>>

\* What a read of the StatefulSet returns.
Read == [cpu |-> CanonicalCpu(sts.cpu), memory |-> CanonicalMemory(sts.memory)]

\* get_current_resources turns every error into {}, which equals nothing.
ReadCurrent(c) ==
  /\ pc[c] = "read"
  /\ pc' = [pc EXCEPT ![c] = "compare"]
  /\ \E r \in {{}, {Read}} : current' = [current EXCEPT ![c] = r]
  /\ UNCHANGED <<event, target, countVars, eventVars, storeVars, wire, life, stores,
                 unanswered, redeploys>>

\* Plausible bug: only the CPU is compared.
Duplicate_cpuOnly(c) == \E r \in current[c] : r.cpu = target[c].cpu

\* As far as c has read, the cluster has what the event asks for.
Duplicate(c) == current[c] = {target[c]}

SkipDuplicate(c) ==
  /\ pc[c] = "compare"
  /\ Duplicate(c)
  /\ Return(c, "skipped")
  /\ UNCHANGED <<target, scale_count, storeVars, wire, life, stores, unanswered,
                 redeploys>>

\* The body is built before the try block, and int() refuses a displaced m:
\* the ValueError leaves handle_event.
BuildRaises(c) ==
  /\ pc[c] = "compare"
  /\ ~Duplicate(c)
  /\ target[c].cpu.suffix = "displaced"
  /\ Return(c, "raised")
  /\ UNCHANGED <<target, scale_count, storeVars, wire, life, stores, unanswered,
                 redeploys>>

PatchOf(c) == [by |-> c, life |-> life[c], number |-> handled[c],
               resources |-> Resources(target[c])]

SendPatch(c) ==
  /\ pc[c] = "compare"
  /\ ~Duplicate(c)
  /\ target[c].cpu.suffix # "displaced"
  /\ pc' = [pc EXCEPT ![c] = "sent"]
  /\ wire' = wire \cup {PatchOf(c)}
  /\ UNCHANGED <<consumerVars, countVars, eventVars, storeVars, life, stores, unanswered,
                 redeploys>>

was_clamped(c) == target[c] # [cpu |-> event[c].cpu, memory |-> event[c].memory]

\* Plausible bug: a clamped patch is counted in the metric but not in
\* scale_count.
PatchAnswered_clampedUncounted(c) ==
  /\ pc[c] = "stored"
  /\ scale_count' = [scale_count EXCEPT ![c] = IF was_clamped(c) THEN @ ELSE @ + 1]
  /\ Return(c, IF was_clamped(c) THEN "clamped" ELSE "applied")
  /\ UNCHANGED <<target, storeVars, wire, life, stores, unanswered, redeploys>>

\* The consumer learns that its patch is stored.
PatchAnswered(c) ==
  /\ pc[c] = "stored"
  /\ scale_count' = [scale_count EXCEPT ![c] = @ + 1]
  /\ Return(c, IF was_clamped(c) THEN "clamped" ELSE "applied")
  /\ UNCHANGED <<target, storeVars, wire, life, stores, unanswered, redeploys>>

\* The API server refuses the patch.
PatchRefused(c) ==
  /\ pc[c] = "sent"
  /\ wire' = wire \ {PatchOf(c)}
  /\ Return(c, "failed")
  /\ UNCHANGED <<target, scale_count, storeVars, life, stores, unanswered, redeploys>>

\* The connection breaks; the patch may be stored, before or afterwards.
PatchUnanswered(c) ==
  /\ pc[c] \in {"sent", "stored"}
  /\ unanswered' = [unanswered EXCEPT ![c] = @ \cup {handled[c]}]
  /\ Return(c, "failed")
  /\ UNCHANGED <<target, scale_count, storeVars, wire, life, stores, redeploys>>

\* The process of c ends: simulate_scaling_event.py after its event or killed
\* before, the server's in a restart.  Its counters go with it.
ProcessEnds(c) ==
  /\ life[c] < IF c \in Simulator THEN 1 ELSE MaxRestarts
  /\ life' = [life EXCEPT ![c] = @ + 1]
  /\ scale_count' = [scale_count EXCEPT ![c] = 0]
  /\ SCALING_EVENTS' = [SCALING_EVENTS EXCEPT ![c] = [o \in Outcome |-> 0]]
  /\ unanswered' = [unanswered EXCEPT ![c] = {}]
  /\ IF pc[c] = "idle" THEN UNCHANGED <<pc, event, current, eventVars>> ELSE Close(c, "ended")
  /\ UNCHANGED <<target, storeVars, wire, stores, redeploys>>

----------------------------------------------------------------------------
(* The API server                                                          *)

\* The event p was sent for is still being handled.
Awaited(p) == p.number = handled[p.by]

\* The consumers for whose present event p is.
For(p) == IF Awaited(p) THEN {p.by} ELSE {}

\* res is stored, for the present event of the consumers in own.
Store(res, own) ==
  /\ sts' = res
  /\ met' = [d \in Consumer |-> met[d] \/ (pc[d] # "idle" /\ res = Resources(target[d]))]
  /\ overtaken' = [d \in Consumer |-> overtaken[d] \/ (res # sts /\ d \notin own)]

\* Plausible bug: the patch carries the CPU only.
StorePatch_cpuOnly(p) ==
  /\ Valid(p.resources)
  /\ Store([sts EXCEPT !.cpu = p.resources.cpu, !.cpu_limit = p.resources.cpu_limit], For(p))
  /\ wire' = wire \ {p}
  /\ stores' = stores \cup {[by |-> p.by, life |-> p.life, number |-> p.number]}
  /\ pc' = [pc EXCEPT ![p.by] = IF Awaited(p) THEN "stored" ELSE @]
  /\ UNCHANGED <<consumerVars, countVars, eventVars, life, unanswered, redeploys>>

\* The API server stores a patch, whether or not somebody waits for the answer.
StorePatch(p) ==
  /\ Valid(p.resources)
  /\ Store(p.resources, For(p))
  /\ wire' = wire \ {p}
  /\ stores' = stores \cup {[by |-> p.by, life |-> p.life, number |-> p.number]}
  /\ pc' = [pc EXCEPT ![p.by] = IF Awaited(p) THEN "stored" ELSE @]
  /\ UNCHANGED <<consumerVars, countVars, eventVars, life, unanswered, redeploys>>

\* deploy.sh applies the manifest again.
Redeploy ==
  /\ redeploys < MaxRedeploys
  /\ redeploys' = redeploys + 1
  /\ Store(Manifest, {})
  /\ UNCHANGED <<pc, consumerVars, countVars, eventVars, wire, life, stores, unanswered>>

HandleEvent(c) ==
  \/ \E e \in Event : Receive(c, e)
  \/ ReadCurrent(c) \/ SkipDuplicate(c) \/ BuildRaises(c) \/ SendPatch(c)
  \/ PatchAnswered(c) \/ PatchRefused(c) \/ PatchUnanswered(c)

Next ==
  \/ \E c \in Consumer : HandleEvent(c) \/ ProcessEnds(c)
  \/ \E p \in wire : StorePatch(p)
  \/ Redeploy

Spec == Init /\ [][Next]_vars

----------------------------------------------------------------------------
(* Properties                                                              *)

ResourceSet == [cpu : Int, memory : Int, cpu_limit : Int, memory_limit : Int]
TargetSet == [cpu : [n : Int, suffix : {"m", "", "displaced"}],
              memory : [n : Int, suffix : {"Mi", "Gi"}]]
PatchSet == [by : Consumer, life : Nat, number : Nat, resources : ResourceSet]

TypeOK ==
  /\ sts \in ResourceSet
  /\ wire \subseteq PatchSet
  /\ stores \subseteq [by : Consumer, life : Nat, number : Nat]
  /\ pc \in [Consumer -> {"idle", "read", "compare", "sent", "stored"}]
  /\ event \in [Consumer -> Event \cup {NoEvent}]
  /\ target \in [Consumer -> TargetSet]
  /\ current \in [Consumer -> SUBSET TargetSet]
  /\ scale_count \in [Consumer -> Nat]
  /\ SCALING_EVENTS \in [Consumer -> [Outcome -> Nat]]
  /\ handled \in [Consumer -> Nat] /\ life \in [Consumer -> Nat]
  /\ outcome \in [Consumer -> Outcome \cup {"none", "incomplete", "raised", "failed", "ended"}]
  /\ met \in [Consumer -> BOOLEAN] /\ overtaken \in [Consumer -> BOOLEAN]
  /\ unanswered \in [Consumer -> SUBSET Nat]
  /\ redeploys \in 0 .. MaxRedeploys

\* Whatever the events ask for and whoever patches when, the StatefulSet's
\* requests stay within the configured bounds and its limits are exactly
\* twice its requests: the body is built from clamped values, and a request
\* whose limit came out wrong is one the API server refuses.
ResourcesBounded ==
  /\ sts.cpu \in MIN_CPU .. MAX_CPU
  /\ sts.memory \in MIN_MEMORY .. MAX_MEMORY
  /\ sts.cpu_limit = 2 * sts.cpu
  /\ sts.memory_limit = 2 * sts.memory

\* CPU and memory are never a mix of two recommendations, with any number of
\* consumers: the StatefulSet has all of one event's resources or all of the
\* manifest's.
NoMixedResources ==
  \/ sts = Manifest
  \/ \E e \in Event : Verdict(e) = "accepted" /\ sts = Resources(Clamp(e))

\* A consumer that reports an event applied, clamped or skipped is right: the
\* StatefulSet had that event's resources at some instant of its handling,
\* although a skip is decided on a read that may be stale by then, and still
\* has them unless a patch of another event, which may be an earlier one of
\* its own that got no answer, or deploy.sh has changed it meanwhile.
OutcomeHolds ==
  \A c \in Consumer :
    pc[c] = "idle" /\ outcome[c] \in {"applied", "clamped", "skipped"} =>
      met[c] /\ (~overtaken[c] => sts = Resources(target[c]))

\* The events of c's present process whose patch has been stored.
Stored(c) == {p.number : p \in {q \in stores : q.by = c /\ q.life = life[c]}}
Waiting(c) == IF pc[c] = "stored" THEN {handled[c]} ELSE {}

\* What a running consumer has counted, in scale_count and as applied or
\* clamped alike, is each patch of its own that was stored, once: less the one
\* it still waits for, and those it got no answer to, which may be stored long
\* after it has reported a failure.
PatchesCounted ==
  \A c \in Consumer :
    LET counted == Cardinality(Stored(c) \ (Waiting(c) \cup unanswered[c]))
    IN  /\ scale_count[c] = counted
        /\ SCALING_EVENTS[c]["applied"] + SCALING_EVENTS[c]["clamped"] = counted

----------------------------------------------------------------------------
(* What the repository says of the program and the code does not do        *)

\* scaling_consumer.py:108: "Skip duplicate events".  The values are compared
\* as strings, and the API server gives 1000m back as 1 and 1024Mi as 1Gi.
SkipsDuplicates ==
  \A c \in Consumer : pc[c] = "sent" =>
    \A r \in current[c] :
      \/ CpuValue(r.cpu) # CpuValue(target[c].cpu)
      \/ memory_to_mi(r.memory) # memory_to_mi(target[c].memory)
=============================================================================
