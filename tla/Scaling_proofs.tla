--------------------------- MODULE Scaling_proofs ---------------------------
(***************************************************************************)
(* Proofs about Scaling for any consumers, any recommendations and any     *)
(* number of events, process ends and redeployments.                       *)
(*                                                                         *)
(* What the StatefulSet gets: the target a consumer holds is the clamped   *)
(* form of its event (TargetInv), so is what a patch under way carries     *)
(* (WireInv), and such a form is within the bounds whenever the API server *)
(* accepts it.  What the consumers report: an event's number tells a patch *)
(* somebody waits for from one that is late (NumberInv).                   *)
(***************************************************************************)
EXTENDS Scaling, FiniteSetTheorems, TLAPS

Accepted(e) == Verdict(e) = "accepted"

InBounds(res) ==
  /\ res.cpu \in MIN_CPU .. MAX_CPU
  /\ res.memory \in MIN_MEMORY .. MAX_MEMORY
  /\ res.cpu_limit = 2 * res.cpu
  /\ res.memory_limit = 2 * res.memory

\* Every consumer that is past validation holds the clamped form of an
\* accepted event.
TargetInv ==
  /\ pc \in [Consumer -> {"idle", "read", "compare", "sent", "stored"}]
  /\ event \in [Consumer -> Event \cup {NoEvent}]
  /\ DOMAIN target = Consumer
  /\ \A c \in Consumer :
       pc[c] # "idle" => /\ event[c] \in Event
                         /\ Accepted(event[c])
                         /\ target[c] = Clamp(event[c])

\* Every patch under way was made from an accepted event; the one a consumer
\* waits for is its own last, with the number of its present event, and every
\* other belongs to an event that is over.
PatchInv(p) ==
  /\ p.by \in Consumer /\ p.number \in Nat /\ p.number <= handled[p.by]
  /\ Awaited(p) => pc[p.by] = "sent" /\ p = PatchOf(p.by)
  /\ \E e \in Event :
       Accepted(e) /\ Clamp(e).cpu.suffix # "displaced" /\ p.resources = Resources(Clamp(e))

WireInv == handled \in [Consumer -> Nat] /\ \A p \in wire : PatchInv(p)

----------------------------------------------------------------------------
(* What clamping and the API server's validation do to one event.          *)

LEMMA CpuBounds ==
  ASSUME NEW k \in Int
  PROVE  /\ k < MIN_CPU => ~(k > MAX_CPU)
         /\ ~(k < MIN_CPU) /\ ~(k > MAX_CPU) => k \in MIN_CPU .. MAX_CPU
         /\ k \in MIN_CPU .. MAX_CPU => k \in Nat /\ k > 0
BY DEF MIN_CPU, MAX_CPU

LEMMA CpuBoundsWithin ==
  /\ MIN_CPU \in Int /\ MIN_CPU \in MIN_CPU .. MAX_CPU
  /\ MAX_CPU \in Int /\ MAX_CPU \in MIN_CPU .. MAX_CPU
BY DEF MIN_CPU, MAX_CPU

\* Within 250..2000, whatever the suffix: a value below or above is replaced,
\* and with a suffix of its own (scaling_consumer.py:63-79).
LEMMA CpuClamped ==
  ASSUME NEW q \in CpuQuantity, q.suffix \notin {"bad", "number"}
  PROVE  /\ ClampCpu(q) \in [n : Int, suffix : {"m", "", "displaced"}]
         /\ ClampCpu(q).n \in MIN_CPU .. MAX_CPU
<1>1. q \in [n : Int, suffix : {"m", "", "displaced"}] /\ q.n \in Int
  BY DEF CpuQuantity
<1>2. CASE q.n < MIN_CPU
  <2>1. ClampCpu(q) = [n |-> MIN_CPU, suffix |-> "m"]
    BY <1>1, <1>2, CpuBounds DEF ClampCpu
  <2>2. QED BY <2>1, CpuBoundsWithin
<1>3. CASE ~(q.n < MIN_CPU) /\ q.n > MAX_CPU
  <2>1. ClampCpu(q) = [n |-> MAX_CPU, suffix |-> "m"]
    BY <1>3 DEF ClampCpu
  <2>2. QED BY <2>1, CpuBoundsWithin
<1>4. CASE ~(q.n < MIN_CPU) /\ ~(q.n > MAX_CPU)
  <2>1. ClampCpu(q) = q
    BY <1>4 DEF ClampCpu
  <2>2. QED BY <1>1, <1>4, <2>1, CpuBounds
<1>5. QED BY <1>2, <1>3, <1>4

\* Within 256 and 2048 mebibytes, in either unit (scaling_consumer.py:81-97).
LEMMA MemoryClamped ==
  ASSUME NEW q \in MemoryQuantity, q.suffix \notin {"bad", "number"}
  PROVE  /\ ClampMemory(q) \in [n : Int, suffix : {"Mi", "Gi"}]
         /\ memory_to_mi(ClampMemory(q)) \in MIN_MEMORY .. MAX_MEMORY
<1>1. q \in [n : Int, suffix : {"Mi", "Gi"}] /\ memory_to_mi(q) \in Int
  BY DEF MemoryQuantity, memory_to_mi
<1>2. CASE memory_to_mi(q) < MIN_MEMORY
  BY <1>2 DEF ClampMemory, memory_to_mi, MIN_MEMORY, MAX_MEMORY
<1>3. CASE ~(memory_to_mi(q) < MIN_MEMORY) /\ memory_to_mi(q) > MAX_MEMORY
  BY <1>3 DEF ClampMemory, memory_to_mi, MIN_MEMORY, MAX_MEMORY
<1>4. CASE ~(memory_to_mi(q) < MIN_MEMORY) /\ ~(memory_to_mi(q) > MAX_MEMORY)
  <2>1. ClampMemory(q) = q
    BY <1>4 DEF ClampMemory
  <2>2. QED BY <1>1, <1>4, <2>1 DEF MIN_MEMORY, MAX_MEMORY
<1>5. QED BY <1>2, <1>3, <1>4

LEMMA TenthIsLess ==
  ASSUME NEW n \in Nat
  PROVE  n \div 10 \in Int /\ 10 * (n \div 10) <= n
OBVIOUS

LEMMA EventShape ==
  ASSUME NEW e \in Event, Accepted(e)
  PROVE  /\ e.cpu \in CpuQuantity /\ e.cpu.suffix \notin {"bad", "number"}
         /\ e.memory \in MemoryQuantity /\ e.memory.suffix \notin {"bad", "number"}
BY EventAssumption DEF Accepted, Verdict

\* A clamped request in whole cores is 1000 times what was compared with the
\* bounds, and its limit, made by dropping a digit, is below it: only
\* millicores pass the API server's validation (scaling_consumer.py:131-153).
LEMMA AcceptedPatchInBounds ==
  ASSUME NEW e \in Event, Accepted(e),
         Clamp(e).cpu.suffix # "displaced", Valid(Resources(Clamp(e)))
  PROVE  InBounds(Resources(Clamp(e)))
<1> DEFINE cpu == ClampCpu(e.cpu)
           memory == ClampMemory(e.memory)
           res == Resources(Clamp(e))
<1>1. /\ cpu \in [n : Int, suffix : {"m", ""}]
      /\ cpu.n \in MIN_CPU .. MAX_CPU
  BY EventShape, CpuClamped DEF Clamp
<1>2. /\ memory \in [n : Int, suffix : {"Mi", "Gi"}]
      /\ memory_to_mi(memory) \in MIN_MEMORY .. MAX_MEMORY
  BY EventShape, MemoryClamped
<1>3. /\ res.cpu = CpuValue(cpu) /\ res.cpu_limit = double_cpu(cpu)
      /\ res.memory = memory_to_mi(memory)
      /\ res.memory_limit = 2 * memory_to_mi(memory)
  BY DEF Resources, Clamp, double_memory
<1>4. cpu.suffix = "m"
  <2>1. SUFFICES ASSUME cpu.suffix = "" PROVE FALSE
    BY <1>1
  <2>2. CpuValue(cpu) = cpu.n * 1000 /\ double_cpu(cpu) = 2 * (cpu.n \div 10)
    BY <2>1 DEF CpuValue, double_cpu
  <2>3. CpuValue(cpu) <= double_cpu(cpu)
    BY <1>3 DEF Valid
  <2>4. cpu.n \in Nat /\ cpu.n > 0
    BY <1>1, CpuBounds
  <2>5. QED
    BY <2>2, <2>3, <2>4, TenthIsLess
<1>5. res.cpu = cpu.n /\ res.cpu_limit = 2 * cpu.n
  BY <1>3, <1>4 DEF CpuValue, double_cpu
<1>6. QED
  BY <1>1, <1>2, <1>3, <1>5 DEF InBounds

----------------------------------------------------------------------------
(* What the StatefulSet is given                                           *)

LEMMA TargetInitial == Init => TargetInv /\ WireInv
BY DEF Init, TargetInv, WireInv

\* What ends an event leaves every patch of its consumer late.
LEMMA CloseStep ==
  ASSUME TargetInv, WireInv, NEW c \in Consumer, NEW o, Close(c, o),
         UNCHANGED target, wire' \subseteq wire,
         \A d \in Consumer \ {c} : life'[d] = life[d]
  PROVE  TargetInv' /\ WireInv'
<1>1. TargetInv'
  BY DEF TargetInv, Close
<1>2. handled' \in [Consumer -> Nat]
  BY DEF WireInv, Close
<1>3. ASSUME NEW p \in wire' PROVE PatchInv(p)'
  <2>1. PatchInv(p)
    BY DEF WireInv
  <2>2. CASE p.by = c
    <3>1. handled'[c] = handled[c] + 1 /\ handled[c] \in Nat
      BY DEF Close, WireInv
    <3>2. p.number # handled'[p.by] /\ p.number <= handled'[p.by]
      BY <2>1, <2>2, <3>1 DEF PatchInv
    <3>3. QED  BY <2>1, <3>2 DEF PatchInv, Awaited
  <2>3. CASE p.by # c
    <3>1. /\ handled'[p.by] = handled[p.by] /\ pc'[p.by] = pc[p.by]
          /\ life'[p.by] = life[p.by] /\ target'[p.by] = target[p.by]
      BY <2>1, <2>3 DEF Close, PatchInv, WireInv, TargetInv
    <3>2. QED  BY <2>1, <3>1 DEF PatchInv, Awaited, PatchOf
  <2>4. QED  BY <2>2, <2>3
<1>4. QED  BY <1>2, <1>1, <1>3 DEF WireInv

\* A step in which c sends nothing and waits for nothing.
LEMMA QuietStep ==
  ASSUME WireInv, NEW c \in Consumer, pc[c] # "sent", UNCHANGED <<wire, handled>>,
         \A d \in Consumer \ {c} :
           pc'[d] = pc[d] /\ target'[d] = target[d] /\ life'[d] = life[d]
  PROVE  WireInv'
<1>1. ASSUME NEW p \in wire PROVE PatchInv(p)'
  <2>1. PatchInv(p)
    BY DEF WireInv
  <2>2. Awaited(p) => p.by # c
    BY <2>1 DEF PatchInv
  <2>3. QED  BY <2>1, <2>2 DEF PatchInv, Awaited, PatchOf
<1>2. QED  BY <1>1 DEF WireInv

LEMMA TargetStep ==
  ASSUME TargetInv, WireInv, [Next]_vars
  PROVE  TargetInv' /\ WireInv'
<1> USE DEF consumerVars, eventVars
<1>1. ASSUME NEW c \in Consumer, NEW e \in Event, Receive(c, e)
      PROVE  TargetInv' /\ WireInv'
  <2>1. CASE Verdict(e) # "accepted"
    BY <1>1, <2>1, CloseStep DEF Receive, Return
  <2>2. CASE Verdict(e) = "accepted"
    <3>1. TargetInv'
      BY <1>1, <2>2 DEF Receive, TargetInv, Accepted
    <3>2. WireInv'
      BY <1>1, <2>2, QuietStep DEF Receive, TargetInv
    <3>3. QED  BY <3>1, <3>2
  <2>3. QED  BY <2>1, <2>2
<1>2. ASSUME NEW c \in Consumer, ReadCurrent(c)
      PROVE  TargetInv' /\ WireInv'
  <2>1. TargetInv'
    BY <1>2 DEF ReadCurrent, TargetInv
  <2>2. WireInv'
    BY <1>2, QuietStep DEF ReadCurrent, TargetInv
  <2>3. QED  BY <2>1, <2>2
<1>3. ASSUME NEW c \in Consumer,
             \/ SkipDuplicate(c) \/ BuildRaises(c) \/ PatchAnswered(c)
             \/ PatchRefused(c) \/ PatchUnanswered(c)
      PROVE  TargetInv' /\ WireInv'
  <2>1. UNCHANGED <<target, life>> /\ wire' \subseteq wire /\ \E o : Close(c, o)
    BY <1>3 DEF SkipDuplicate, BuildRaises, PatchAnswered, PatchRefused, PatchUnanswered,
       Return
  <2>2. QED  BY <2>1, CloseStep
<1>4. ASSUME NEW c \in Consumer, ProcessEnds(c)
      PROVE  TargetInv' /\ WireInv'
  <2>1. UNCHANGED <<target, wire>> /\ \A d \in Consumer \ {c} : life'[d] = life[d]
    BY <1>4 DEF ProcessEnds
  <2>2. CASE pc[c] = "idle"
    <3>1. UNCHANGED <<pc, event, handled>>
      BY <1>4, <2>2 DEF ProcessEnds
    <3>2. WireInv'
      BY <2>1, <2>2, <3>1, QuietStep
    <3>3. QED  BY <2>1, <3>1, <3>2 DEF TargetInv
  <2>3. CASE pc[c] # "idle"
    BY <1>4, <2>1, <2>3, CloseStep DEF ProcessEnds
  <2>4. QED  BY <2>2, <2>3
<1>5. ASSUME NEW c \in Consumer, SendPatch(c)
      PROVE  TargetInv' /\ WireInv'
  <2>1. TargetInv'
    BY <1>5 DEF SendPatch, TargetInv
  <2>2. /\ event[c] \in Event /\ Accepted(event[c])
        /\ Clamp(event[c]).cpu.suffix # "displaced" /\ target[c] = Clamp(event[c])
    BY <1>5 DEF SendPatch, TargetInv
  <2>3. /\ wire' = wire \cup {PatchOf(c)} /\ UNCHANGED <<target, handled, life>>
        /\ pc'[c] = "sent" /\ \A d \in Consumer \ {c} : pc'[d] = pc[d]
    BY <1>5 DEF SendPatch, TargetInv
  <2>4. ASSUME NEW p, p = PatchOf(c) PROVE PatchInv(p)'
    <3>1. /\ p.by = c /\ p.number = handled[c] /\ p.resources = Resources(target[c])
          /\ p = PatchOf(c)'
      BY <2>3, <2>4 DEF PatchOf
    <3>2. handled[c] \in Nat /\ handled[c] <= handled[c]
      BY DEF WireInv
    <3>3. QED  BY <2>2, <2>3, <3>1, <3>2 DEF PatchInv
  <2>5. ASSUME NEW p \in wire PROVE PatchInv(p)'
    <3>1. PatchInv(p) /\ pc[c] # "sent"
      BY <1>5 DEF WireInv, SendPatch
    <3>2. Awaited(p) => p.by # c
      BY <3>1 DEF PatchInv
    <3>3. Awaited(p) => pc'[p.by] = "sent" /\ p = PatchOf(p.by)
      BY <2>3, <3>1, <3>2 DEF PatchInv
    <3>4. PatchOf(p.by)' = PatchOf(p.by) /\ (Awaited(p)' <=> Awaited(p))
      BY <2>3 DEF PatchOf, Awaited
    <3>5. (Awaited(p) => pc[p.by] = "sent" /\ p = PatchOf(p.by))'
      BY <3>3, <3>4
    <3>6. p.by \in Consumer /\ p.number \in Nat /\ p.number <= handled'[p.by]
      BY <2>3, <3>1 DEF PatchInv
    <3>7. QED  BY <3>1, <3>5, <3>6 DEF PatchInv
  <2>6. QED  BY <2>1, <2>3, <2>4, <2>5 DEF WireInv
<1>6. ASSUME NEW p \in wire, StorePatch(p)
      PROVE  TargetInv' /\ WireInv'
  <2>1. /\ wire' = wire \ {p} /\ UNCHANGED <<event, target, handled, life>>
        /\ pc' = [pc EXCEPT ![p.by] = IF Awaited(p) THEN "stored" ELSE @]
    BY <1>6 DEF StorePatch
  <2>2. PatchInv(p)
    BY DEF WireInv
  <2>3. TargetInv'
    BY <2>1, <2>2 DEF TargetInv, PatchInv
  <2>4. ASSUME NEW q \in wire' PROVE PatchInv(q)'
    <3>1. PatchInv(q) /\ q # p
      BY <2>1 DEF WireInv
    <3>2. Awaited(q) => ~(q.by = p.by /\ Awaited(p))
      BY <2>2, <3>1 DEF PatchInv
    <3>3. Awaited(q) => pc'[q.by] = pc[q.by]
      BY <2>1, <3>1, <3>2 DEF TargetInv, PatchInv
    <3>4. QED  BY <2>1, <3>1, <3>3 DEF PatchInv, Awaited, PatchOf
  <2>5. QED  BY <2>1, <2>3, <2>4 DEF WireInv
<1>7. CASE Redeploy
  BY <1>7 DEF Redeploy, TargetInv, WireInv, PatchInv, Awaited, PatchOf
<1>8. CASE UNCHANGED vars
  BY <1>8 DEF vars, TargetInv, WireInv, PatchInv, Awaited, PatchOf
<1>9. QED
  BY <1>1, <1>2, <1>3, <1>4, <1>5, <1>6, <1>7, <1>8 DEF Next, HandleEvent

\* A step stores a patch that was under way, or applies the manifest, or
\* leaves the StatefulSet alone.
LEMMA StatefulSetStep ==
  ASSUME [Next]_vars
  PROVE  \/ sts' = sts
         \/ sts' = Manifest
         \/ \E p \in wire : sts' = p.resources /\ Valid(p.resources)
<1> USE DEF storeVars
<1>1. ASSUME NEW c \in Consumer, HandleEvent(c)
      PROVE  sts' = sts
  BY <1>1 DEF HandleEvent, Receive, ReadCurrent, SkipDuplicate, BuildRaises, SendPatch,
     PatchAnswered, PatchRefused, PatchUnanswered
<1>2. ASSUME NEW c \in Consumer, ProcessEnds(c)
      PROVE  sts' = sts
  BY <1>2 DEF ProcessEnds
<1>3. ASSUME NEW p \in wire, StorePatch(p)
      PROVE  sts' = p.resources /\ Valid(p.resources)
  BY <1>3 DEF StorePatch, Store
<1>4. CASE Redeploy
  BY <1>4 DEF Redeploy, Store
<1>5. CASE UNCHANGED vars
  BY <1>5 DEF vars
<1>6. QED
  BY <1>1, <1>2, <1>3, <1>4, <1>5 DEF Next

LEMMA TargetAlways == Spec => [](TargetInv /\ WireInv)
<1>1. (TargetInv /\ WireInv) /\ [Next]_vars => (TargetInv /\ WireInv)'
  BY TargetStep
<1>2. QED
  BY <1>1, TargetInitial, PTL DEF Spec

\* For any recommendations from any number of consumers, and whatever fails,
\* the postgres container's requests stay within 250-2000 millicores and
\* 256-2048 mebibytes and its limits are twice its requests
\* (scaling_consumer.py:18-21, 63-97, 131-153).
THEOREM Bounded == Spec => []ResourcesBounded
<1>1. Init => ResourcesBounded
  BY DEF Init, Manifest, ResourcesBounded, MIN_CPU, MAX_CPU, MIN_MEMORY, MAX_MEMORY
<1>2. WireInv /\ ResourcesBounded /\ [Next]_vars => ResourcesBounded'
  <2> SUFFICES ASSUME WireInv, ResourcesBounded, [Next]_vars
               PROVE  ResourcesBounded'
    OBVIOUS
  <2>1. CASE sts' = sts
    BY <2>1 DEF ResourcesBounded
  <2>2. CASE sts' = Manifest
    BY <2>2 DEF Manifest, ResourcesBounded, MIN_CPU, MAX_CPU, MIN_MEMORY, MAX_MEMORY
  <2>3. ASSUME NEW p \in wire, sts' = p.resources, Valid(p.resources)
        PROVE  ResourcesBounded'
    <3>1. InBounds(sts')
      BY <2>3, AcceptedPatchInBounds DEF WireInv, PatchInv
    <3>2. QED BY <3>1 DEF InBounds, ResourcesBounded
  <2>4. QED
    BY <2>1, <2>2, <2>3, StatefulSetStep
<1>3. QED
  BY <1>1, <1>2, TargetAlways, PTL DEF Spec

\* CPU and memory are never those of two different recommendations, for any
\* number of consumers patching at once (scaling_consumer.py:131-153: one
\* patch carries requests and limits of both).
THEOREM OneRecommendation == Spec => []NoMixedResources
<1>1. Init => NoMixedResources
  BY DEF Init, NoMixedResources
<1>2. WireInv /\ NoMixedResources /\ [Next]_vars => NoMixedResources'
  <2> SUFFICES ASSUME WireInv, NoMixedResources, [Next]_vars
               PROVE  NoMixedResources'
    OBVIOUS
  <2>1. CASE sts' = sts
    BY <2>1 DEF NoMixedResources
  <2>2. CASE sts' = Manifest
    BY <2>2 DEF NoMixedResources
  <2>3. ASSUME NEW p \in wire, sts' = p.resources
        PROVE  NoMixedResources'
    BY <2>3 DEF WireInv, PatchInv, NoMixedResources, Accepted
  <2>4. QED
    BY <2>1, <2>2, <2>3, StatefulSetStep
<1>3. QED
  BY <1>1, <1>2, TargetAlways, PTL DEF Spec

----------------------------------------------------------------------------
(* Types                                                                   *)

\* The API server's canonical form is a quantity of the same value.
LEMMA CpuCanonical ==
  ASSUME NEW v \in Int
  PROVE  /\ CanonicalCpu(v) \in [n : Int, suffix : {"m", "", "displaced"}]
         /\ CpuValue(CanonicalCpu(v)) = v
<1>1. v \div 1000 \in Int /\ (v % 1000 = 0 => (v \div 1000) * 1000 = v)
  OBVIOUS
<1>2. CASE v % 1000 = 0
  BY <1>1, <1>2 DEF CanonicalCpu, CpuValue
<1>3. CASE v % 1000 # 0
  BY <1>3 DEF CanonicalCpu, CpuValue
<1>4. QED BY <1>2, <1>3

LEMMA MemoryCanonical ==
  ASSUME NEW v \in Int
  PROVE  /\ CanonicalMemory(v) \in [n : Int, suffix : {"Mi", "Gi"}]
         /\ memory_to_mi(CanonicalMemory(v)) = v
<1>1. v \div 1024 \in Int /\ (v % 1024 = 0 => (v \div 1024) * 1024 = v)
  OBVIOUS
<1>2. CASE v % 1024 = 0
  BY <1>1, <1>2 DEF CanonicalMemory, memory_to_mi
<1>3. CASE v % 1024 # 0
  BY <1>3 DEF CanonicalMemory, memory_to_mi
<1>4. QED BY <1>2, <1>3

LEMMA ClampTyped ==
  ASSUME NEW e \in Event, Accepted(e)
  PROVE  Clamp(e) \in TargetSet
BY EventShape, CpuClamped, MemoryClamped DEF Clamp, TargetSet

LEMMA ReadTyped ==
  ASSUME sts \in ResourceSet
  PROVE  Read \in TargetSet
BY CpuCanonical, MemoryCanonical DEF Read, ResourceSet, TargetSet

LEMMA ResourcesTyped ==
  ASSUME NEW t \in TargetSet
  PROVE  Resources(t) \in ResourceSet
<1>1. t.cpu.n \in Int /\ t.cpu.n \div 10 \in Int /\ t.memory.n \in Int
  <2>1. ASSUME NEW n \in Int PROVE n \div 10 \in Int
    OBVIOUS
  <2>2. t.cpu.n \in Int /\ t.memory.n \in Int
    BY DEF TargetSet
  <2>3. QED BY <2>1, <2>2
<1>2. CpuValue(t.cpu) \in Int /\ double_cpu(t.cpu) \in Int
  BY <1>1 DEF CpuValue, double_cpu
<1>3. memory_to_mi(t.memory) \in Int /\ double_memory(t.memory) \in Int
  BY <1>1 DEF memory_to_mi, double_memory
<1>4. QED BY <1>2, <1>3 DEF Resources, ResourceSet

LEMMA ManifestTyped ==
  /\ Manifest \in ResourceSet /\ NoTarget \in TargetSet
<1>1. Manifest \in ResourceSet
  BY DEF Manifest, ResourceSet
<1>2. Manifest.cpu \in Int /\ Manifest.memory \in Int
  BY DEF Manifest
<1>3. NoTarget \in TargetSet
  BY <1>2, CpuCanonical, MemoryCanonical DEF NoTarget, TargetSet
<1>4. QED BY <1>1, <1>3

\* Ending an event keeps the types of what it sets.
LEMMA CloseTyped ==
  ASSUME TypeOK, NEW c \in Consumer,
         NEW o \in Outcome \cup {"incomplete", "raised", "failed", "ended"}, Close(c, o)
  PROVE  /\ pc' \in [Consumer -> {"idle", "read", "compare", "sent", "stored"}]
         /\ event' \in [Consumer -> Event \cup {NoEvent}]
         /\ current' \in [Consumer -> SUBSET TargetSet]
         /\ outcome' \in [Consumer -> Outcome \cup {"none", "incomplete", "raised", "failed", "ended"}]
         /\ handled' \in [Consumer -> Nat]
<1> USE DEF TypeOK, Close
<1>1. pc' \in [Consumer -> {"idle", "read", "compare", "sent", "stored"}]
  OBVIOUS
<1>2. event' \in [Consumer -> Event \cup {NoEvent}] /\ current' \in [Consumer -> SUBSET TargetSet]
  OBVIOUS
<1>3. outcome' \in [Consumer -> Outcome \cup {"none", "incomplete", "raised", "failed", "ended"}]
  OBVIOUS
<1>4. handled' \in [Consumer -> Nat]
  OBVIOUS
<1>5. QED BY <1>1, <1>2, <1>3, <1>4

LEMMA ReturnTyped ==
  ASSUME TypeOK, NEW c \in Consumer,
         NEW o \in Outcome \cup {"incomplete", "raised", "failed"}, Return(c, o),
         UNCHANGED <<sts, stores, target, life, met, overtaken, redeploys>>,
         wire' \subseteq wire, scale_count' \in [Consumer -> Nat],
         unanswered' \in [Consumer -> SUBSET Nat]
  PROVE  TypeOK'
<1>1. Close(c, o)
  BY DEF Return
<1>2. SCALING_EVENTS' \in [Consumer -> [Outcome -> Nat]]
  <2>1. CASE o \in Outcome
    BY <2>1 DEF Return, TypeOK
  <2>2. CASE o \notin Outcome
    BY <2>2 DEF Return, TypeOK
  <2>3. QED BY <2>1, <2>2
<1>3. QED BY <1>1, <1>2, CloseTyped DEF TypeOK

LEMMA StoreTyped ==
  ASSUME TypeOK, NEW res \in ResourceSet, NEW own, Store(res, own)
  PROVE  /\ sts' \in ResourceSet
         /\ met' \in [Consumer -> BOOLEAN] /\ overtaken' \in [Consumer -> BOOLEAN]
BY DEF TypeOK, Store
----------------------------------------------------------------------------

LEMMA TypeInitial == Init => TypeOK
<1>1. \A c \in Consumer : {} \subseteq TargetSet /\ {} \subseteq Nat
  OBVIOUS
<1>2. QED
  BY <1>1, ManifestTyped, ScalingBounds DEF Init, TypeOK

LEMMA TypeStep ==
  ASSUME TypeOK, TargetInv, [Next]_vars
  PROVE  TypeOK'
<1> USE DEF consumerVars, countVars, eventVars, storeVars
<1>1. ASSUME NEW c \in Consumer, NEW e \in Event, Receive(c, e)
      PROVE  TypeOK'
  <2>1. CASE Verdict(e) # "accepted"
    <3>1. PICK o \in Outcome \cup {"incomplete", "raised", "failed"} : o = Verdict(e)
      BY <2>1 DEF Verdict, Outcome
    <3>2. /\ Return(c, o) /\ wire' \subseteq wire
          /\ UNCHANGED <<sts, stores, target, life, met, overtaken, redeploys>>
          /\ UNCHANGED <<scale_count, unanswered>>
      BY <1>1, <2>1, <3>1 DEF Receive
    <3>3. scale_count' \in [Consumer -> Nat] /\ unanswered' \in [Consumer -> SUBSET Nat]
      BY <3>2 DEF TypeOK
    <3>4. QED BY <3>2, <3>3, ReturnTyped
  <2>2. CASE Verdict(e) = "accepted"
    <3>1. Clamp(e) \in TargetSet
      BY <2>2, ClampTyped DEF Accepted
    <3>2. met' \in [Consumer -> BOOLEAN]
      <4> DEFINE b == sts = Resources(Clamp(e))
      <4>1. met' = [met EXCEPT ![c] = b]
        BY <1>1, <2>2 DEF Receive
      <4>2. b \in BOOLEAN
        OBVIOUS
      <4> HIDE DEF b
      <4>3. QED BY <4>1, <4>2 DEF TypeOK
    <3>3. /\ pc' = [pc EXCEPT ![c] = "read"] /\ event' = [event EXCEPT ![c] = e]
          /\ target' = [target EXCEPT ![c] = Clamp(e)]
          /\ overtaken' = [overtaken EXCEPT ![c] = FALSE]
          /\ UNCHANGED <<current, SCALING_EVENTS, handled, outcome, sts, wire,
                         scale_count, life, stores, unanswered, redeploys>>
      BY <1>1, <2>2 DEF Receive
    <3>4. /\ pc' \in [Consumer -> {"idle", "read", "compare", "sent", "stored"}]
          /\ event' \in [Consumer -> Event \cup {NoEvent}]
          /\ target' \in [Consumer -> TargetSet]
          /\ overtaken' \in [Consumer -> BOOLEAN]
      BY <3>1, <3>3 DEF TypeOK
    <3>5. QED BY <3>2, <3>3, <3>4 DEF TypeOK
  <2>3. QED BY <2>1, <2>2
<1>2. ASSUME NEW c \in Consumer, ReadCurrent(c)
      PROVE  TypeOK'
  <2>1. current' \in [Consumer -> SUBSET TargetSet]
    <3>1. {} \subseteq TargetSet /\ {Read} \subseteq TargetSet
      BY ReadTyped DEF TypeOK
    <3>2. PICK r \in {{}, {Read}} : current' = [current EXCEPT ![c] = r]
      BY <1>2 DEF ReadCurrent
    <3>3. QED BY <3>1, <3>2 DEF TypeOK
  <2>2. QED BY <1>2, <2>1 DEF ReadCurrent, TypeOK
<1>3. ASSUME NEW c \in Consumer, SkipDuplicate(c) PROVE TypeOK'
  BY <1>3, ReturnTyped DEF SkipDuplicate, TypeOK, Outcome
<1>4. ASSUME NEW c \in Consumer, BuildRaises(c) PROVE TypeOK'
  BY <1>4, ReturnTyped DEF BuildRaises, TypeOK
<1>5. ASSUME NEW c \in Consumer, SendPatch(c)
      PROVE  TypeOK'
  <2>1. PatchOf(c) \in PatchSet
    BY ResourcesTyped DEF PatchOf, PatchSet, TypeOK
  <2>2. QED BY <1>5, <2>1 DEF SendPatch, TypeOK
<1>6. ASSUME NEW c \in Consumer, PatchAnswered(c)
      PROVE  TypeOK'
  <2>1. scale_count' \in [Consumer -> Nat]
    BY <1>6 DEF PatchAnswered, TypeOK
  <2>2. QED BY <1>6, <2>1, ReturnTyped DEF PatchAnswered, TypeOK, Outcome
<1>7. ASSUME NEW c \in Consumer, PatchRefused(c) PROVE TypeOK'
  BY <1>7, ReturnTyped DEF PatchRefused, TypeOK
<1>8. ASSUME NEW c \in Consumer, PatchUnanswered(c)
      PROVE  TypeOK'
  <2>1. unanswered' \in [Consumer -> SUBSET Nat]
    BY <1>8 DEF PatchUnanswered, TypeOK
  <2>2. QED BY <1>8, <2>1, ReturnTyped DEF PatchUnanswered, TypeOK
<1>9. ASSUME NEW c \in Consumer, ProcessEnds(c)
      PROVE  TypeOK'
  <2>1. /\ pc' \in [Consumer -> {"idle", "read", "compare", "sent", "stored"}]
        /\ event' \in [Consumer -> Event \cup {NoEvent}]
        /\ current' \in [Consumer -> SUBSET TargetSet]
        /\ outcome' \in [Consumer -> Outcome \cup {"none", "incomplete", "raised", "failed", "ended"}]
        /\ handled' \in [Consumer -> Nat]
    <3>1. CASE pc[c] = "idle"
      BY <1>9, <3>1 DEF ProcessEnds, TypeOK
    <3>2. CASE pc[c] # "idle"
      BY <1>9, <3>2, CloseTyped DEF ProcessEnds
    <3>3. QED BY <3>1, <3>2
  <2>2. /\ life' \in [Consumer -> Nat] /\ scale_count' \in [Consumer -> Nat]
        /\ SCALING_EVENTS' \in [Consumer -> [Outcome -> Nat]]
    BY <1>9 DEF ProcessEnds, TypeOK
  <2>3. unanswered' \in [Consumer -> SUBSET Nat]
    <3>1. {} \subseteq Nat
      OBVIOUS
    <3>2. QED BY <1>9, <3>1 DEF ProcessEnds, TypeOK
  <2>4. QED BY <1>9, <2>1, <2>2, <2>3 DEF ProcessEnds, TypeOK
<1>10. ASSUME NEW p \in wire, StorePatch(p)
       PROVE  TypeOK'
  <2>1. /\ p.by \in Consumer /\ p.life \in Nat /\ p.number \in Nat
        /\ p.resources \in ResourceSet
    BY DEF TypeOK, PatchSet
  <2>2. /\ sts' \in ResourceSet
        /\ met' \in [Consumer -> BOOLEAN] /\ overtaken' \in [Consumer -> BOOLEAN]
    BY <1>10, <2>1, StoreTyped DEF StorePatch
  <2>3. stores' \subseteq [by : Consumer, life : Nat, number : Nat]
    BY <1>10, <2>1 DEF StorePatch, TypeOK
  <2>4. pc' \in [Consumer -> {"idle", "read", "compare", "sent", "stored"}]
    BY <1>10 DEF StorePatch, TypeOK
  <2>5. QED BY <1>10, <2>2, <2>3, <2>4 DEF StorePatch, TypeOK
<1>11. CASE Redeploy
  <2>1. /\ sts' \in ResourceSet
        /\ met' \in [Consumer -> BOOLEAN] /\ overtaken' \in [Consumer -> BOOLEAN]
    BY <1>11, ManifestTyped, StoreTyped DEF Redeploy
  <2>2. redeploys' \in 0 .. MaxRedeploys
    BY <1>11, ScalingBounds DEF Redeploy, TypeOK
  <2>3. QED BY <1>11, <2>1, <2>2 DEF Redeploy, TypeOK
<1>12. CASE UNCHANGED vars
  BY <1>12 DEF vars, TypeOK
<1>13. QED
  BY <1>1, <1>2, <1>3, <1>4, <1>5, <1>6, <1>7, <1>8, <1>9, <1>10, <1>11, <1>12
     DEF Next, HandleEvent

\* Type correctness, for every set of events and any number of consumers.
THEOREM TypeCorrect == Spec => []TypeOK
<1>1. TypeOK /\ TargetInv /\ [Next]_vars => TypeOK'
  BY TypeStep
<1>2. QED
  BY <1>1, TypeInitial, TargetAlways, PTL DEF Spec

----------------------------------------------------------------------------
(* What a reported outcome means                                           *)

LEMMA ThousandthTooSmall ==
  ASSUME NEW v \in MIN_CPU .. MAX_CPU
  PROVE  v \div 1000 \notin MIN_CPU .. MAX_CPU
BY DEF MIN_CPU, MAX_CPU

LEMMA WholeCoresOutOfBounds ==
  ASSUME NEW v \in MIN_CPU .. MAX_CPU, v % 1000 = 0
  PROVE  CanonicalCpu(v).n \notin MIN_CPU .. MAX_CPU
<1> DEFINE cores == v \div 1000
           quantity == CanonicalCpu(v)
<1>1. cores \notin MIN_CPU .. MAX_CPU
  BY ThousandthTooSmall
<1>2. quantity = [n |-> cores, suffix |-> ""]
  BY DEF CanonicalCpu
<1>3. quantity.n = cores
  <2> HIDE DEF cores, quantity
  <2>1. QED BY <1>2
<1>4. QED BY <1>1, <1>3

\* A clamped value in millicores is never stored as whole cores, since the
\* bounds are far above two: the string comparison of a duplicate succeeds
\* only on the resources the event asks for.
LEMMA SkipSound ==
  ASSUME sts \in ResourceSet, ResourcesBounded,
         NEW e \in Event, Accepted(e), Read = Clamp(e)
  PROVE  sts = Resources(Clamp(e))
<1>1. sts.cpu \in Int /\ sts.memory \in Int
  BY DEF ResourceSet
<1>2. /\ Clamp(e).cpu = CanonicalCpu(sts.cpu)
      /\ Clamp(e).memory = CanonicalMemory(sts.memory)
  BY DEF Read
<1>3. Clamp(e).cpu.n \in MIN_CPU .. MAX_CPU
  BY EventShape, CpuClamped DEF Clamp
<1>4. sts.cpu % 1000 # 0
  <2>1. sts.cpu \in MIN_CPU .. MAX_CPU
    BY DEF ResourcesBounded
  <2>2. QED
    BY <1>2, <1>3, <2>1, WholeCoresOutOfBounds
<1>5. Clamp(e).cpu = [n |-> sts.cpu, suffix |-> "m"]
  BY <1>2, <1>4 DEF CanonicalCpu
<1>6. memory_to_mi(Clamp(e).memory) = sts.memory
  BY <1>1, <1>2, MemoryCanonical
<1>7. Resources(Clamp(e)) = [cpu |-> sts.cpu, memory |-> sts.memory,
                             cpu_limit |-> 2 * sts.cpu,
                             memory_limit |-> 2 * sts.memory]
  BY <1>5, <1>6 DEF Resources, CpuValue, double_cpu, double_memory
<1>8. QED
  BY <1>7 DEF ResourceSet, ResourcesBounded

\* The StatefulSet had c's target during its event and, unless somebody else
\* changed it since, has it now.
Right(c) == met[c] /\ (~overtaken[c] => sts = Resources(target[c]))

\* What a consumer knows before it reports.
OutcomeInv ==
  \A c \in Consumer :
    /\ pc[c] # "idle" /\ sts = Resources(target[c]) => met[c]
    /\ pc[c] = "compare" /\ Duplicate(c) => Right(c)
    /\ pc[c] = "stored" => Right(c)
    /\ pc[c] = "idle" /\ outcome[c] \in {"applied", "clamped", "skipped"} => Right(c)

LEMMA OutcomeStep ==
  ASSUME TypeOK, TargetInv, WireInv, ResourcesBounded, OutcomeInv, [Next]_vars
  PROVE  OutcomeInv'
<1> USE DEF consumerVars, countVars, eventVars, storeVars
<1> DEFINE Knows(c) ==
      /\ pc[c] # "idle" /\ sts = Resources(target[c]) => met[c]
      /\ pc[c] = "compare" /\ Duplicate(c) => Right(c)
      /\ pc[c] = "stored" => Right(c)
      /\ pc[c] = "idle" /\ outcome[c] \in {"applied", "clamped", "skipped"} => Right(c)
<1>1. \A c \in Consumer : Knows(c)
  BY DEF OutcomeInv
<1>2. SUFFICES ASSUME NEW c \in Consumer PROVE Knows(c)'
  BY DEF OutcomeInv
\* A step that is none of c's and stores nothing.
<1>3. ASSUME UNCHANGED <<sts, target>>, pc'[c] = pc[c], current'[c] = current[c],
             outcome'[c] = outcome[c], met'[c] = met[c], overtaken'[c] = overtaken[c]
      PROVE  Knows(c)'
  BY <1>1, <1>3 DEF Right, Duplicate
<1>4. ASSUME NEW d \in Consumer, NEW o, Close(d, o), UNCHANGED <<target, storeVars>>,
             d = c /\ o \in {"applied", "clamped", "skipped"} => Right(c)
      PROVE  Knows(c)'
  <2>1. CASE d = c
    <3>1. pc'[c] = "idle" /\ outcome'[c] = o
      BY <1>4, <2>1 DEF Close, TypeOK
    <3>2. Right(c)' <=> Right(c)
      BY <1>4 DEF Right
    <3>3. QED  BY <1>4, <2>1, <3>1, <3>2
  <2>2. CASE d # c
    BY <1>3, <1>4, <2>2 DEF Close, TypeOK
  <2>3. QED  BY <2>1, <2>2
<1>5. ASSUME NEW d \in Consumer, NEW e \in Event, Receive(d, e)
      PROVE  Knows(c)'
  <2>1. CASE Verdict(e) # "accepted"
    <3>1. Verdict(e) \notin {"applied", "clamped", "skipped"}
      BY <2>1 DEF Verdict
    <3>2. QED  BY <1>4, <1>5, <2>1, <3>1 DEF Receive, Return
  <2>2. CASE Verdict(e) = "accepted" /\ d = c
    <3>1. /\ pc'[c] = "read" /\ target'[c] = Clamp(e) /\ sts' = sts
          /\ met'[c] = (sts = Resources(Clamp(e)))
      BY <1>5, <2>2 DEF Receive, TypeOK
    <3>2. QED  BY <3>1
  <2>3. CASE Verdict(e) = "accepted" /\ d # c
    <3>1. /\ sts' = sts /\ target'[c] = target[c] /\ pc'[c] = pc[c] /\ current' = current
          /\ outcome' = outcome /\ met'[c] = met[c] /\ overtaken'[c] = overtaken[c]
      BY <1>5, <2>3 DEF Receive, TypeOK
    <3>2. QED  BY <1>1, <3>1 DEF Right, Duplicate
  <2>4. QED  BY <2>1, <2>2, <2>3
\* The read that makes a duplicate found the event's resources (SkipSound).
<1>6. ASSUME NEW d \in Consumer, ReadCurrent(d)
      PROVE  Knows(c)'
  <2>1. PICK r \in {{}, {Read}} : current' = [current EXCEPT ![d] = r]
    BY <1>6 DEF ReadCurrent
  <2>2. pc' = [pc EXCEPT ![d] = "compare"] /\ UNCHANGED <<sts, target, met, overtaken, outcome>>
    BY <1>6 DEF ReadCurrent
  <2>3. CASE d = c
    <3>1. pc'[c] = "compare" /\ current'[c] = r /\ pc[c] = "read"
      BY <1>6, <2>1, <2>2, <2>3 DEF ReadCurrent, TypeOK
    <3>2. ASSUME Duplicate(c)' PROVE Right(c)'
      <4>1. Read = target[c]
        BY <2>1, <2>2, <3>1, <3>2 DEF Duplicate
      <4>2. event[c] \in Event /\ Accepted(event[c]) /\ target[c] = Clamp(event[c])
        BY <3>1 DEF TargetInv
      <4>3. sts = Resources(target[c])
        BY <4>1, <4>2, SkipSound DEF TypeOK
      <4>4. met[c]
        BY <1>1, <3>1, <4>3
      <4>5. QED  BY <2>2, <4>3, <4>4 DEF Right
    <3>3. QED  BY <1>1, <2>2, <3>1, <3>2
  <2>4. CASE d # c
    BY <1>3, <2>1, <2>2, <2>4 DEF TypeOK
  <2>5. QED  BY <2>3, <2>4
<1>7. ASSUME NEW d \in Consumer, SkipDuplicate(d) PROVE Knows(c)'
  BY <1>1, <1>4, <1>7 DEF SkipDuplicate, Return
<1>8. ASSUME NEW d \in Consumer,
             BuildRaises(d) \/ PatchRefused(d) \/ PatchUnanswered(d)
      PROVE  Knows(c)'
  <2>1. /\ UNCHANGED <<target, storeVars>>
        /\ \E o \in {"raised", "failed"} : Close(d, o)
    BY <1>8 DEF BuildRaises, PatchRefused, PatchUnanswered, Return
  <2>2. QED  BY <1>4, <2>1
<1>9. ASSUME NEW d \in Consumer, SendPatch(d)
      PROVE  Knows(c)'
  <2>1. pc' = [pc EXCEPT ![d] = "sent"] /\ pc[d] = "compare"
        /\ UNCHANGED <<sts, target, current, met, overtaken, outcome>>
    BY <1>9 DEF SendPatch
  <2>2. CASE d = c
    <3>1. pc'[c] = "sent"
      BY <2>1, <2>2 DEF TypeOK
    <3>2. QED  BY <1>1, <2>1, <2>2, <3>1
  <2>3. CASE d # c
    BY <1>3, <2>1, <2>3 DEF TypeOK
  <2>4. QED  BY <2>2, <2>3
<1>10. ASSUME NEW d \in Consumer, PatchAnswered(d) PROVE Knows(c)'
  <2>1. PICK o : Close(d, o)
    BY <1>10 DEF PatchAnswered, Return
  <2>2. UNCHANGED <<target, storeVars>> /\ pc[d] = "stored"
    BY <1>10 DEF PatchAnswered
  <2>3. QED  BY <1>1, <1>4, <2>1, <2>2
<1>11. ASSUME NEW d \in Consumer, ProcessEnds(d)
       PROVE  Knows(c)'
  <2>1. UNCHANGED <<target, storeVars>>
    BY <1>11 DEF ProcessEnds
  <2>2. CASE pc[d] = "idle"
    BY <1>3, <1>11, <2>1, <2>2 DEF ProcessEnds
  <2>3. CASE pc[d] # "idle"
    BY <1>4, <1>11, <2>1, <2>3 DEF ProcessEnds
  <2>4. QED  BY <2>2, <2>3
\* What a store does to a consumer it is not made for.
<1>12. ASSUME NEW res, NEW own \in SUBSET Consumer, Store(res, own), c \notin own,
              UNCHANGED <<target, current, outcome>>, pc'[c] = pc[c]
       PROVE  Knows(c)'
  <2>1. /\ sts' = res
        /\ met'[c] = (met[c] \/ (pc[c] # "idle" /\ res = Resources(target[c])))
        /\ overtaken'[c] = (overtaken[c] \/ res # sts)
    BY <1>12 DEF Store
  <2>2. Right(c) => Right(c)'
    BY <1>12, <2>1 DEF Right
  <2>3. pc'[c] # "idle" /\ sts' = Resources(target'[c]) => met'[c]
    BY <1>12, <2>1
  <2>4. Duplicate(c)' <=> Duplicate(c)
    BY <1>12 DEF Duplicate
  <2>5. QED  BY <1>1, <1>12, <2>2, <2>3, <2>4
<1>13. ASSUME NEW p \in wire, StorePatch(p)
       PROVE  Knows(c)'
  <2>1. /\ Store(p.resources, For(p)) /\ UNCHANGED <<target, current, outcome>>
        /\ pc' = [pc EXCEPT ![p.by] = IF Awaited(p) THEN "stored" ELSE @]
    BY <1>13 DEF StorePatch
  <2>2. PatchInv(p)
    BY DEF WireInv
  <2>3. CASE Awaited(p) /\ p.by = c
    <3>1. pc[c] = "sent" /\ p.resources = Resources(target[c])
      BY <2>2, <2>3 DEF PatchInv, PatchOf
    <3>2. pc'[c] = "stored" /\ sts' = Resources(target'[c]) /\ met'[c]
      BY <2>1, <2>3, <3>1 DEF Store, TypeOK
    <3>3. QED  BY <3>2 DEF Right
  <2>4. CASE ~(Awaited(p) /\ p.by = c)
    <3>1. For(p) \in SUBSET Consumer /\ c \notin For(p)
      BY <2>2, <2>4 DEF For, PatchInv
    <3>2. pc'[c] = pc[c]
      BY <2>1, <2>2, <2>4 DEF TypeOK, PatchInv
    <3>3. QED  BY <1>12, <2>1, <3>1, <3>2
  <2>5. QED  BY <2>3, <2>4
<1>14. CASE Redeploy
  <2>1. Store(Manifest, {}) /\ UNCHANGED <<pc, target, current, outcome>>
    BY <1>14 DEF Redeploy
  <2>2. {} \in SUBSET Consumer /\ c \notin {}
    OBVIOUS
  <2>3. QED  BY <1>12, <2>1, <2>2
<1>15. CASE UNCHANGED vars
  BY <1>3, <1>15 DEF vars
<1>16. QED
  BY <1>5, <1>6, <1>7, <1>8, <1>9, <1>10, <1>11, <1>13, <1>14, <1>15 DEF Next, HandleEvent

\* A consumer that reports applied, clamped or skipped is right about its own
\* event: the StatefulSet had exactly those resources at some instant of it,
\* and has them until a patch of another event or deploy.sh changes it, for
\* any history of lost answers, late patches and processes that ended
\* (scaling_consumer.py:106-129, 156-167).
THEOREM OutcomeTruthful == Spec => []OutcomeHolds
<1>1. Init => OutcomeInv
  BY DEF Init, OutcomeInv
<1>2. OutcomeInv => OutcomeHolds
  BY DEF OutcomeInv, OutcomeHolds, Right
<1>3. TypeOK /\ (TargetInv /\ WireInv) /\ ResourcesBounded /\ OutcomeInv /\ [Next]_vars
        => OutcomeInv'
  BY OutcomeStep
<1>4. QED
  BY <1>1, <1>2, <1>3, TypeCorrect, TargetAlways, Bounded, PTL DEF Spec

----------------------------------------------------------------------------
(* What the counters say of the patches                                    *)

\* An event's number places its patch: of an event that is over, a patch still
\* under way is one the process got no answer to; of the present one, a stored
\* patch is the one waited for.
NumberInv ==
  /\ \A p \in wire :
       /\ p.life <= life[p.by]
       /\ p.number # handled[p.by] /\ p.life = life[p.by] => p.number \in unanswered[p.by]
  /\ \A q \in stores :
       /\ q.number <= handled[q.by] /\ q.life <= life[q.by]
       /\ q.number = handled[q.by] => pc[q.by] = "stored"
  /\ \A c \in Consumer :
       /\ pc[c] = "stored" => handled[c] \in Stored(c)
       /\ \A n \in unanswered[c] : n < handled[c]

Counted(c) == Stored(c) \ (Waiting(c) \cup unanswered[c])

CountInv ==
  /\ NumberInv
  /\ \A c \in Consumer :
       /\ scale_count[c] = Cardinality(Counted(c))
       /\ SCALING_EVENTS[c]["applied"] + SCALING_EVENTS[c]["clamped"] = scale_count[c]

LEMMA StoredFinite ==
  ASSUME TypeOK, NumberInv, NEW c \in Consumer
  PROVE  IsFiniteSet(Counted(c))
<1>1. Counted(c) \subseteq 0 .. handled[c]
  BY DEF Counted, Stored, NumberInv, TypeOK
<1>2. IsFiniteSet(0 .. handled[c])
  BY FS_Interval DEF TypeOK
<1>3. QED  BY <1>1, <1>2, FS_Subset

\* The end of an event whose patch, if it was sent, is answered, refused or
\* among the unanswered.
LEMMA NumberClose ==
  ASSUME TypeOK, TargetInv, WireInv, NumberInv, NEW c \in Consumer, NEW o, Close(c, o),
         wire' \subseteq wire, UNCHANGED <<stores, life>>,
         \A d \in Consumer \ {c} : unanswered'[d] = unanswered[d],
         unanswered[c] \subseteq unanswered'[c],
         unanswered'[c] \subseteq unanswered[c] \cup {handled[c]},
         \A p \in wire' : p.by = c /\ Awaited(p) => handled[c] \in unanswered'[c]
  PROVE  NumberInv'
<1>1. /\ pc'[c] = "idle" /\ handled'[c] = handled[c] + 1 /\ handled[c] \in Nat
      /\ \A d \in Consumer \ {c} : pc'[d] = pc[d] /\ handled'[d] = handled[d]
  BY DEF Close, TypeOK
<1>2. ASSUME NEW p \in wire'
      PROVE  /\ p.life <= life'[p.by]
             /\ p.number # handled'[p.by] /\ p.life = life'[p.by]
                  => p.number \in unanswered'[p.by]
  <2>1. /\ PatchInv(p) /\ p.life <= life[p.by]
        /\ p.number # handled[p.by] /\ p.life = life[p.by] => p.number \in unanswered[p.by]
    BY DEF WireInv, NumberInv
  <2>2. QED  BY <1>1, <1>2, <2>1 DEF PatchInv, Awaited
<1>3. ASSUME NEW q \in stores'
      PROVE  /\ q.number <= handled'[q.by] /\ q.life <= life'[q.by]
             /\ q.number = handled'[q.by] => pc'[q.by] = "stored"
  <2>1. /\ q.by \in Consumer /\ q.number \in Nat
        /\ q.number <= handled[q.by] /\ q.life <= life[q.by]
        /\ q.number = handled[q.by] => pc[q.by] = "stored"
    BY DEF NumberInv, TypeOK
  <2>2. QED  BY <1>1, <2>1
<1>4. ASSUME NEW d \in Consumer
      PROVE  /\ pc'[d] = "stored" => handled'[d] \in Stored(d)'
             /\ \A n \in unanswered'[d] : n < handled'[d]
  <2>1. Stored(d)' = Stored(d)
    BY DEF Stored
  <2>2. /\ pc[d] = "stored" => handled[d] \in Stored(d)
        /\ \A n \in unanswered[d] : n < handled[d] /\ n \in Nat
    BY DEF NumberInv, TypeOK
  <2>3. QED  BY <1>1, <2>1, <2>2
<1>5. QED  BY <1>2, <1>3, <1>4 DEF NumberInv

\* Counting is undisturbed where nothing it depends on changes.
LEMMA SameCount ==
  ASSUME CountInv, NEW c \in Consumer, Counted(c)' = Counted(c),
         scale_count'[c] = scale_count[c], SCALING_EVENTS'[c]["applied"] = SCALING_EVENTS[c]["applied"],
         SCALING_EVENTS'[c]["clamped"] = SCALING_EVENTS[c]["clamped"]
  PROVE  /\ scale_count'[c] = Cardinality(Counted(c)')
         /\ SCALING_EVENTS'[c]["applied"] + SCALING_EVENTS'[c]["clamped"] = scale_count'[c]
BY DEF CountInv

Uncounted == {"skipped", "rejected", "incomplete", "raised", "failed"}

\* An event that ends without having been counted as applied or clamped.
LEMMA CountReturn ==
  ASSUME TypeOK, TargetInv, WireInv, CountInv, NEW c \in Consumer, NEW o \in Uncounted,
         Return(c, o), wire' \subseteq wire, UNCHANGED <<stores, life, scale_count>>,
         unanswered' = [unanswered EXCEPT ![c] = unanswered'[c]],
         \/ /\ unanswered'[c] = unanswered[c] /\ pc[c] # "stored"
            /\ \A p \in wire' : p.by = c => ~Awaited(p)
         \/ unanswered'[c] = unanswered[c] \cup {handled[c]} /\ pc[c] \in {"sent", "stored"}
  PROVE  CountInv'
<1>1. Close(c, o) /\ NumberInv
  BY DEF Return, CountInv
<1>2. \A d \in Consumer \ {c} : unanswered'[d] = unanswered[d]
  BY DEF TypeOK
<1>3. NumberInv'
  BY <1>1, <1>2, NumberClose
<1>4. ASSUME NEW d \in Consumer PROVE Counted(d)' = Counted(d)
  <2>1. Stored(d)' = Stored(d)
    BY DEF Stored
  <2>2. CASE d # c
    BY <1>1, <1>2, <2>1, <2>2 DEF Counted, Waiting, Close, TypeOK
  <2>3. CASE d = c
    <3>1. pc'[c] = "idle" /\ Waiting(c)' = {}
      BY <1>1 DEF Close, TypeOK, Waiting
    <3>2. pc[c] # "stored" => handled[c] \notin Stored(c)
      BY <1>1 DEF NumberInv, Stored
    <3>3. QED  BY <2>1, <2>3, <3>1, <3>2 DEF Counted, Waiting
  <2>4. QED  BY <2>2, <2>3
<1>5. ASSUME NEW d \in Consumer
      PROVE  /\ SCALING_EVENTS'[d]["applied"] = SCALING_EVENTS[d]["applied"]
             /\ SCALING_EVENTS'[d]["clamped"] = SCALING_EVENTS[d]["clamped"]
  <2>1. "applied" \in Outcome /\ "clamped" \in Outcome /\ o \notin {"applied", "clamped"}
    BY DEF Uncounted, Outcome
  <2>2. QED  BY <2>1 DEF Return, TypeOK
<1>6. QED  BY <1>3, <1>4, <1>5, SameCount DEF CountInv

\* A step that leaves the counters, the events' ends and the stores alone.
LEMMA CountQuiet ==
  ASSUME TypeOK, CountInv, NumberInv', UNCHANGED <<scale_count, SCALING_EVENTS, stores,
         handled, life, unanswered>>, \A c \in Consumer : pc'[c] = "stored" <=> pc[c] = "stored"
  PROVE  CountInv'
<1>1. ASSUME NEW c \in Consumer PROVE Counted(c)' = Counted(c)
  BY DEF Counted, Stored, Waiting
<1>2. QED  BY <1>1, SameCount DEF CountInv

LEMMA CountStored ==
  ASSUME TypeOK, TargetInv, WireInv, CountInv, NEW p \in wire, StorePatch(p)
  PROVE  CountInv'
<1> DEFINE new == [by |-> p.by, life |-> p.life, number |-> p.number]
<1>1. /\ wire' = wire \ {p} /\ stores' = stores \cup {new}
      /\ pc' = [pc EXCEPT ![p.by] = IF Awaited(p) THEN "stored" ELSE @]
      /\ UNCHANGED <<target, scale_count, SCALING_EVENTS, handled, life, unanswered>>
  BY DEF StorePatch, consumerVars, countVars, eventVars
<1>2. PatchInv(p) /\ NumberInv /\ p.life \in Nat /\ p.by \in Consumer
  BY DEF WireInv, CountInv, TypeOK, PatchSet
<1>3. /\ new.by = p.by /\ new.life = p.life /\ new.number = p.number
  OBVIOUS
<1> HIDE DEF new
<1>4. CASE Awaited(p)
  <2>1. /\ pc[p.by] = "sent" /\ p.life = life[p.by] /\ p.number = handled[p.by]
    BY <1>2, <1>4 DEF PatchInv, PatchOf, Awaited
  <2>2. pc'[p.by] = "stored" /\ \A d \in Consumer \ {p.by} : pc'[d] = pc[d]
    BY <1>1, <1>2, <1>4 DEF TypeOK
  <2>3. \A d \in Consumer \ {p.by} : Stored(d)' = Stored(d)
    BY <1>1, <1>3 DEF Stored
  <2>4. Stored(p.by)' = Stored(p.by) \cup {handled[p.by]}
    BY <1>1, <1>3, <2>1 DEF Stored
  <2>5. handled[p.by] \notin Stored(p.by) /\ life[p.by] \in Nat /\ handled[p.by] \in Nat
    BY <1>2, <2>1 DEF NumberInv, Stored, TypeOK
  <2>6. NumberInv'
    <3>1. \A r \in wire' :
            /\ r.life <= life'[r.by]
            /\ r.number # handled'[r.by] /\ r.life = life'[r.by]
                 => r.number \in unanswered'[r.by]
      BY <1>1, <1>2 DEF NumberInv
    <3>2. ASSUME NEW r \in stores'
          PROVE  /\ r.number <= handled'[r.by] /\ r.life <= life'[r.by]
                 /\ r.number = handled'[r.by] => pc'[r.by] = "stored"
      <4>1. CASE r \in stores
        <5>1. r.by \in Consumer
          BY <4>1 DEF TypeOK
        <5>2. QED  BY <1>1, <1>2, <2>2, <4>1, <5>1 DEF NumberInv
      <4>2. CASE r = new
        BY <1>1, <1>3, <2>1, <2>2, <2>5, <4>2
      <4>3. QED  BY <1>1, <4>1, <4>2
    <3>3. ASSUME NEW d \in Consumer
          PROVE  /\ pc'[d] = "stored" => handled'[d] \in Stored(d)'
                 /\ \A n \in unanswered'[d] : n < handled'[d]
      BY <1>1, <1>2, <2>2, <2>3, <2>4 DEF NumberInv
    <3>4. QED  BY <3>1, <3>2, <3>3 DEF NumberInv
  <2>7. ASSUME NEW d \in Consumer PROVE Counted(d)' = Counted(d)
    <3>1. CASE d = p.by
      <4>1. Waiting(d) = {} /\ Waiting(d)' = {handled[d]}
        BY <1>1, <2>1, <2>2, <3>1 DEF Waiting
      <4>2. QED  BY <1>1, <2>4, <2>5, <3>1, <4>1 DEF Counted
    <3>2. CASE d # p.by
      BY <1>1, <2>2, <2>3, <3>2 DEF Counted, Waiting
    <3>3. QED  BY <3>1, <3>2
  <2>8. QED  BY <1>1, <2>6, <2>7, SameCount DEF CountInv
<1>5. CASE ~Awaited(p)
  <2>1. UNCHANGED pc
    BY <1>1, <1>2, <1>5 DEF TypeOK
  <2>2. p.number # handled[p.by] /\ p.number \in Nat /\ p.number <= handled[p.by]
    BY <1>2, <1>5 DEF PatchInv, Awaited
  <2>3. p.life = life[p.by] => p.number \in unanswered[p.by]
    BY <1>2, <2>2 DEF NumberInv
  <2>4. \A d \in Consumer : Stored(d)' \subseteq Stored(d) \cup unanswered[d]
                              /\ Stored(d) \subseteq Stored(d)'
    BY <1>1, <1>3, <2>3 DEF Stored
  <2>5. p.life <= life[p.by]
    BY <1>2 DEF NumberInv
  <2>6. NumberInv'
    <3>1. \A r \in wire' :
            /\ r.life <= life'[r.by]
            /\ r.number # handled'[r.by] /\ r.life = life'[r.by]
                 => r.number \in unanswered'[r.by]
      BY <1>1, <1>2 DEF NumberInv
    <3>2. ASSUME NEW r \in stores'
          PROVE  /\ r.number <= handled'[r.by] /\ r.life <= life'[r.by]
                 /\ r.number = handled'[r.by] => pc'[r.by] = "stored"
      <4>1. CASE r \in stores
        BY <1>1, <1>2, <2>1, <4>1 DEF NumberInv
      <4>2. CASE r = new
        BY <1>1, <1>3, <2>2, <2>5, <4>2
      <4>3. QED  BY <1>1, <4>1, <4>2
    <3>3. ASSUME NEW d \in Consumer
          PROVE  /\ pc'[d] = "stored" => handled'[d] \in Stored(d)'
                 /\ \A n \in unanswered'[d] : n < handled'[d]
      BY <1>1, <1>2, <2>1, <2>4 DEF NumberInv
    <3>4. QED  BY <3>1, <3>2, <3>3 DEF NumberInv
  <2>7. ASSUME NEW d \in Consumer PROVE Counted(d)' = Counted(d)
    BY <1>1, <2>1, <2>4 DEF Counted, Waiting
  <2>8. QED  BY <1>1, <2>6, <2>7, SameCount DEF CountInv
<1>6. QED  BY <1>4, <1>5

\* The one step that counts: Counted(c) gains the event waited for.
LEMMA CountAnswered ==
  ASSUME TypeOK, TargetInv, WireInv, CountInv, NEW c \in Consumer, PatchAnswered(c)
  PROVE  CountInv'
<1> DEFINE o == IF was_clamped(c) THEN "clamped" ELSE "applied"
<1>1. /\ pc[c] = "stored" /\ scale_count' = [scale_count EXCEPT ![c] = @ + 1] /\ Return(c, o)
      /\ UNCHANGED <<target, wire, life, stores, unanswered>>
  BY DEF PatchAnswered
<1>2. o \in {"applied", "clamped"}
  OBVIOUS
<1> HIDE DEF o
<1>3. Close(c, o) /\ NumberInv
  BY <1>1 DEF Return, CountInv
<1>4. \A p \in wire' : p.by = c => ~Awaited(p)
  BY <1>1 DEF WireInv, PatchInv
<1>5. NumberInv'
  BY <1>1, <1>3, <1>4, NumberClose
<1>6. /\ pc'[c] = "idle" /\ \A d \in Consumer \ {c} : pc'[d] = pc[d] /\ handled'[d] = handled[d]
  BY <1>3 DEF Close, TypeOK
<1>7. /\ "applied" \in Outcome /\ "clamped" \in Outcome
      /\ SCALING_EVENTS' = [SCALING_EVENTS EXCEPT ![c][o] = @ + 1]
  BY <1>1, <1>2 DEF Return, Outcome
<1>8. ASSUME NEW d \in Consumer, d # c
      PROVE  /\ scale_count'[d] = Cardinality(Counted(d)')
             /\ SCALING_EVENTS'[d]["applied"] + SCALING_EVENTS'[d]["clamped"] = scale_count'[d]
  <2>1. Counted(d)' = Counted(d)
    BY <1>1, <1>6, <1>8 DEF Counted, Stored, Waiting
  <2>2. scale_count'[d] = scale_count[d] /\ SCALING_EVENTS'[d] = SCALING_EVENTS[d]
    BY <1>1, <1>7, <1>8 DEF TypeOK
  <2>3. QED  BY <2>1, <2>2, SameCount
<1>9. /\ scale_count'[c] = Cardinality(Counted(c)')
      /\ SCALING_EVENTS'[c]["applied"] + SCALING_EVENTS'[c]["clamped"] = scale_count'[c]
  <2>1. handled[c] \in Stored(c) /\ handled[c] \notin unanswered[c]
    BY <1>1, <1>3 DEF NumberInv, TypeOK
  <2>2. handled[c] \notin Counted(c) /\ Counted(c)' = Counted(c) \cup {handled[c]}
    BY <1>1, <1>6, <2>1 DEF Counted, Waiting, Stored
  <2>3. Cardinality(Counted(c)') = Cardinality(Counted(c)) + 1
    BY <1>3, <2>2, StoredFinite, FS_AddElement
  <2>4. scale_count'[c] = scale_count[c] + 1
    BY <1>1 DEF TypeOK
  <2>5. SCALING_EVENTS'[c]["applied"] + SCALING_EVENTS'[c]["clamped"]
          = SCALING_EVENTS[c]["applied"] + SCALING_EVENTS[c]["clamped"] + 1
    <3>1. SCALING_EVENTS'[c] = [SCALING_EVENTS[c] EXCEPT ![o] = @ + 1]
      BY <1>7 DEF TypeOK
    <3>2. SCALING_EVENTS[c] \in [Outcome -> Nat]
      BY DEF TypeOK
    <3>3. SCALING_EVENTS[c]["applied"] \in Nat /\ SCALING_EVENTS[c]["clamped"] \in Nat
      BY <1>7, <3>2
    <3>4. QED  BY <1>2, <1>7, <3>1, <3>2, <3>3
  <2>6. QED  BY <2>3, <2>4, <2>5 DEF CountInv
<1>10. QED  BY <1>5, <1>8, <1>9 DEF CountInv

\* An ended process takes its counters and its stored patches with it.
LEMMA CountEnded ==
  ASSUME TypeOK, TargetInv, WireInv, CountInv, NEW c \in Consumer, ProcessEnds(c)
  PROVE  CountInv'
<1>1. /\ life' = [life EXCEPT ![c] = @ + 1] /\ scale_count' = [scale_count EXCEPT ![c] = 0]
      /\ SCALING_EVENTS' = [SCALING_EVENTS EXCEPT ![c] = [o \in Outcome |-> 0]]
      /\ unanswered' = [unanswered EXCEPT ![c] = {}]
      /\ UNCHANGED <<target, wire, stores>>
  BY DEF ProcessEnds
<1>2. /\ life'[c] = life[c] + 1 /\ life[c] \in Nat
      /\ \A d \in Consumer \ {c} : life'[d] = life[d] /\ unanswered'[d] = unanswered[d]
      /\ unanswered'[c] = {}
  BY <1>1 DEF TypeOK
<1>3. /\ pc'[c] = "idle" /\ \A d \in Consumer \ {c} : pc'[d] = pc[d] /\ handled'[d] = handled[d]
      /\ handled[c] \in Nat /\ handled'[c] \in {handled[c], handled[c] + 1}
      /\ pc[c] = "idle" => handled'[c] = handled[c]
      /\ pc[c] # "idle" => handled'[c] = handled[c] + 1
  BY DEF ProcessEnds, Close, TypeOK, eventVars
<1>4. NumberInv
  BY DEF CountInv
<1>5. \A q \in stores : q.by = c => q.life # life'[c]
  BY <1>2, <1>4 DEF NumberInv, TypeOK
<1>6. Stored(c)' = {} /\ \A d \in Consumer \ {c} : Stored(d)' = Stored(d)
  BY <1>1, <1>2, <1>5 DEF Stored
<1>7. NumberInv'
  <2>1. ASSUME NEW p \in wire'
        PROVE  /\ p.life <= life'[p.by]
               /\ p.number # handled'[p.by] /\ p.life = life'[p.by]
                    => p.number \in unanswered'[p.by]
    <3>1. /\ p.life \in Nat /\ p.by \in Consumer /\ p.life <= life[p.by]
          /\ p.number # handled[p.by] /\ p.life = life[p.by] => p.number \in unanswered[p.by]
      BY <1>1, <1>4 DEF NumberInv, TypeOK, PatchSet
    <3>2. QED  BY <1>2, <1>3, <3>1
  <2>2. ASSUME NEW q \in stores'
        PROVE  /\ q.number <= handled'[q.by] /\ q.life <= life'[q.by]
               /\ q.number = handled'[q.by] => pc'[q.by] = "stored"
    <3>1. /\ q.by \in Consumer /\ q.number \in Nat /\ q.life \in Nat
          /\ q.number <= handled[q.by] /\ q.life <= life[q.by]
          /\ q.number = handled[q.by] => pc[q.by] = "stored"
      BY <1>1, <1>4 DEF NumberInv, TypeOK
    <3>2. QED  BY <1>2, <1>3, <3>1
  <2>3. ASSUME NEW d \in Consumer
        PROVE  /\ pc'[d] = "stored" => handled'[d] \in Stored(d)'
               /\ \A n \in unanswered'[d] : n < handled'[d]
    BY <1>2, <1>3, <1>4, <1>6 DEF NumberInv
  <2>4. QED  BY <2>1, <2>2, <2>3 DEF NumberInv
<1>8. ASSUME NEW d \in Consumer
      PROVE  /\ scale_count'[d] = Cardinality(Counted(d)')
             /\ SCALING_EVENTS'[d]["applied"] + SCALING_EVENTS'[d]["clamped"] = scale_count'[d]
  <2>1. CASE d = c
    <3>1. Counted(c)' = {} /\ Cardinality(Counted(c)') = 0
      BY <1>6, FS_EmptySet DEF Counted
    <3>2. /\ scale_count'[c] = 0
          /\ SCALING_EVENTS'[c]["applied"] = 0 /\ SCALING_EVENTS'[c]["clamped"] = 0
      BY <1>1 DEF TypeOK, Outcome
    <3>3. QED  BY <2>1, <3>1, <3>2
  <2>2. CASE d # c
    <3>1. Counted(d)' = Counted(d)
      BY <1>2, <1>3, <1>6, <2>2 DEF Counted, Waiting
    <3>2. scale_count'[d] = scale_count[d] /\ SCALING_EVENTS'[d] = SCALING_EVENTS[d]
      BY <1>1, <2>2 DEF TypeOK
    <3>3. QED  BY <3>1, <3>2, SameCount
  <2>3. QED  BY <2>1, <2>2
<1>9. QED  BY <1>7, <1>8 DEF CountInv

LEMMA CountStep ==
  ASSUME TypeOK, TargetInv, WireInv, CountInv, [Next]_vars
  PROVE  CountInv'
<1> USE DEF consumerVars, countVars, eventVars, storeVars
<1>1. NumberInv
  BY DEF CountInv
<1>2. \A c \in Consumer : pc[c] # "sent" => \A p \in wire : p.by = c => ~Awaited(p)
  BY DEF WireInv, PatchInv
<1>3. ASSUME NEW c \in Consumer, NEW e \in Event, Receive(c, e)
      PROVE  CountInv'
  <2>1. CASE Verdict(e) # "accepted"
    <3>1. PICK o \in Uncounted : o = Verdict(e)
      BY <2>1 DEF Verdict, Uncounted
    <3>2. /\ Return(c, o) /\ pc[c] = "idle" /\ UNCHANGED <<wire, stores, life, scale_count, unanswered>>
      BY <1>3, <2>1, <3>1 DEF Receive
    <3>3. unanswered' = [unanswered EXCEPT ![c] = unanswered'[c]]
      BY <3>2 DEF TypeOK
    <3>4. QED  BY <1>2, <3>2, <3>3, CountReturn
  <2>2. CASE Verdict(e) = "accepted"
    <3>1. /\ pc[c] = "idle" /\ pc' = [pc EXCEPT ![c] = "read"]
          /\ UNCHANGED <<wire, stores, life, handled, unanswered, scale_count, SCALING_EVENTS>>
      BY <1>3, <2>2 DEF Receive
    <3>2. \A d \in Consumer : pc'[d] = "stored" <=> pc[d] = "stored"
      BY <3>1 DEF TypeOK
    <3>3. NumberInv'
      BY <1>1, <3>1, <3>2 DEF NumberInv, Stored, TypeOK
    <3>4. QED  BY <3>1, <3>2, <3>3, CountQuiet
  <2>3. QED  BY <2>1, <2>2
<1>4. ASSUME NEW c \in Consumer, ReadCurrent(c)
      PROVE  CountInv'
  <2>1. /\ pc[c] = "read" /\ pc' = [pc EXCEPT ![c] = "compare"]
        /\ UNCHANGED <<wire, stores, life, handled, unanswered, scale_count, SCALING_EVENTS>>
    BY <1>4 DEF ReadCurrent
  <2>2. \A d \in Consumer : pc'[d] = "stored" <=> pc[d] = "stored"
    BY <2>1 DEF TypeOK
  <2>3. NumberInv'
    BY <1>1, <2>1, <2>2 DEF NumberInv, Stored, TypeOK
  <2>4. QED  BY <2>1, <2>2, <2>3, CountQuiet
<1>5. ASSUME NEW c \in Consumer, SkipDuplicate(c) \/ BuildRaises(c) \/ PatchRefused(c)
      PROVE  CountInv'
  <2>1. /\ \E o \in Uncounted : Return(c, o)
        /\ wire' \subseteq wire /\ UNCHANGED <<stores, life, scale_count, unanswered>>
        /\ pc[c] # "stored"
    BY <1>5 DEF SkipDuplicate, BuildRaises, PatchRefused, Uncounted
  <2>2. \A p \in wire' : p.by = c => ~Awaited(p)
    BY <1>2, <1>5 DEF SkipDuplicate, BuildRaises, PatchRefused, WireInv, PatchInv
  <2>3. unanswered' = [unanswered EXCEPT ![c] = unanswered'[c]]
    BY <2>1 DEF TypeOK
  <2>4. QED  BY <2>1, <2>2, <2>3, CountReturn
<1>6. ASSUME NEW c \in Consumer, SendPatch(c)
      PROVE  CountInv'
  <2>1. /\ pc[c] = "compare" /\ pc' = [pc EXCEPT ![c] = "sent"] /\ wire' = wire \cup {PatchOf(c)}
        /\ UNCHANGED <<stores, life, handled, unanswered, scale_count, SCALING_EVENTS>>
    BY <1>6 DEF SendPatch
  <2>2. \A d \in Consumer : pc'[d] = "stored" <=> pc[d] = "stored"
    BY <2>1 DEF TypeOK
  <2>3. /\ PatchOf(c).by = c /\ PatchOf(c).number = handled[c] /\ PatchOf(c).life = life[c]
        /\ life[c] \in Nat
    BY DEF PatchOf, TypeOK
  <2>4. NumberInv'
    BY <1>1, <2>1, <2>2, <2>3 DEF NumberInv, Stored, TypeOK
  <2>5. QED  BY <2>1, <2>2, <2>4, CountQuiet
<1>7. ASSUME NEW c \in Consumer, PatchUnanswered(c)
      PROVE  CountInv'
  <2>1. /\ Return(c, "failed") /\ "failed" \in Uncounted /\ pc[c] \in {"sent", "stored"}
        /\ UNCHANGED <<wire, stores, life, scale_count>>
        /\ unanswered' = [unanswered EXCEPT ![c] = @ \cup {handled[c]}]
    BY <1>7 DEF PatchUnanswered, Uncounted
  <2>2. /\ unanswered'[c] = unanswered[c] \cup {handled[c]}
        /\ unanswered' = [unanswered EXCEPT ![c] = unanswered'[c]]
    BY <2>1 DEF TypeOK
  <2>3. QED  BY <2>1, <2>2, CountReturn
<1>8. CASE Redeploy
  <2>1. UNCHANGED <<pc, wire, stores, life, handled, unanswered, scale_count, SCALING_EVENTS>>
    BY <1>8 DEF Redeploy
  <2>2. NumberInv'
    BY <1>1, <2>1 DEF NumberInv, Stored
  <2>3. QED  BY <2>1, <2>2, CountQuiet
<1>9. CASE UNCHANGED vars
  <2>1. UNCHANGED <<pc, wire, stores, life, handled, unanswered, scale_count, SCALING_EVENTS>>
    BY <1>9 DEF vars
  <2>2. NumberInv'
    BY <1>1, <2>1 DEF NumberInv, Stored
  <2>3. QED  BY <2>1, <2>2, CountQuiet
<1>10. QED
  BY <1>3, <1>4, <1>5, <1>6, <1>7, <1>8, <1>9, CountAnswered, CountEnded, CountStored
     DEF Next, HandleEvent

LEMMA CountAlways == Spec => []CountInv
<1>1. Init => CountInv
  <2> SUFFICES ASSUME Init PROVE CountInv
    OBVIOUS
  <2>1. \A c \in Consumer : Stored(c) = {}
    BY DEF Init, Stored
  <2>2. NumberInv
    BY DEF Init, NumberInv
  <2>3. \A c \in Consumer : Counted(c) = {}
    BY <2>1 DEF Counted
  <2>4. ASSUME NEW c \in Consumer
        PROVE  /\ scale_count[c] = Cardinality(Counted(c))
               /\ SCALING_EVENTS[c]["applied"] + SCALING_EVENTS[c]["clamped"] = scale_count[c]
    <3>1. Cardinality(Counted(c)) = 0
      BY <2>3, FS_EmptySet
    <3>2. /\ scale_count[c] = 0
          /\ SCALING_EVENTS[c]["applied"] = 0 /\ SCALING_EVENTS[c]["clamped"] = 0
      BY DEF Init, Outcome
    <3>3. QED  BY <3>1, <3>2
  <2>5. QED  BY <2>2, <2>4 DEF CountInv
<1>2. TypeOK /\ (TargetInv /\ WireInv) /\ CountInv /\ [Next]_vars => CountInv'
  BY CountStep
<1>3. QED
  BY <1>1, <1>2, TypeCorrect, TargetAlways, PTL DEF Spec

\* A running process has counted each of its stored patches once, in both
\* counters, except the one it waits for and those whose answer was lost
\* (scaling_consumer.py:118-129, 156-167), for any number of events, late
\* stores and restarts.
THEOREM PatchesAccounted == Spec => []PatchesCounted
<1>1. CountInv => PatchesCounted
  BY DEF CountInv, PatchesCounted, Counted
<1>2. QED  BY <1>1, CountAlways, PTL

\* Why the StatefulSet was patched, as the consumer that did it can tell.
Explained(s) ==
  \/ /\ scale_count[s.by] > 0
     /\ SCALING_EVENTS[s.by]["applied"] + SCALING_EVENTS[s.by]["clamped"] > 0
  \/ pc[s.by] = "stored" /\ s.number = handled[s.by]
  \/ s.number \in unanswered[s.by]
  \/ s.life < life[s.by]

\* A stored patch shows in the counters of the process that sent it, unless
\* that waits for the answer, never had one or has ended.
LEMMA StoresExplained == Spec => [](\A s \in stores : Explained(s))
<1>1. ASSUME TypeOK, CountInv, NEW s \in stores
      PROVE  Explained(s)
  <2> DEFINE c == s.by
  <2>1. c \in Consumer /\ s.life \in Nat /\ life[c] \in Nat
    BY <1>1 DEF TypeOK
  <2> SUFFICES ASSUME ~(pc[c] = "stored" /\ s.number = handled[c]),
                      s.number \notin unanswered[c], ~(s.life < life[c])
               PROVE  /\ scale_count[c] > 0
                      /\ SCALING_EVENTS[c]["applied"] + SCALING_EVENTS[c]["clamped"] > 0
    BY DEF Explained
  <2>2. s.life = life[c]
    BY <1>1, <2>1 DEF CountInv, NumberInv
  <2>3. s.number \in Counted(c)
    BY <2>2 DEF Counted, Stored, Waiting
  <2>4. Cardinality(Counted(c)) \in Nat /\ Cardinality(Counted(c)) # 0
    BY <1>1, <2>1, <2>3, StoredFinite, FS_CardinalityType, FS_EmptySet DEF CountInv
  <2>5. QED  BY <1>1, <2>1, <2>4 DEF CountInv
<1>2. TypeOK /\ CountInv => \A s \in stores : Explained(s)
  BY <1>1
<1>3. QED  BY <1>2, CountAlways, TypeCorrect, PTL
=============================================================================
