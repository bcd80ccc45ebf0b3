------------------------------ MODULE Rendering ------------------------------
(***************************************************************************)
(* The two render loops of CollectMetrics (src/mesos/mesos.go), element by *)
(* element, and the memory under them.  A namespace is a slice: the one in *)
(* Snap's request, the one in requestedMaster or requestedAgent and the    *)
(* one in a static metric of the answer share an array.  Collector takes a *)
(* loop for one step, RenderAll.                                           *)
(***************************************************************************)
EXTENDS Requests, FiniteSets

CONSTANTS
    Frameworks, Executors,  \* what elements 3 and 4 of a namespace may become
    Orders,                 \* the orders a listing may come in
    Star,                   \* "*", in a request
    KeyPart                 \* an element that is no wildcard but part of the key

(* A framework of a master's listing has no executor: its element 4 is a   *)
(* part of the key.                                                        *)
ASSUME InstancesAssumption ==
    /\ Instances \subseteq Frameworks \X (Executors \cup {KeyPart})
    /\ Star \notin Frameworks \cup Executors \cup {KeyPart}
    /\ Orders \subseteq Seq(Instances)
    /\ KeyPart \notin Frameworks \cup Executors

(* What NewMetricType was given: a slice by its array.                     *)
Appended == [array : Nat, source : Hosts \cup {Unset}, reading : Documents]

Arrays == [namespace : Namespaces,
           framework : Frameworks \cup {Star, KeyPart},
           executor : Executors \cup {Star, KeyPart}]

VARIABLES
    batch, service,     \* the metrics asked for, and the loop's service
    requested,          \* the arrays of the batch's namespaces when the loop starts
    snapshot, listing,  \* the documents the two fetches decoded
    order,              \* the listing's frameworks or executors, in their order
    heap,               \* the arrays by address; the batch's come first
    i, j,               \* the positions of the outer and the inner loop
    metrics,            \* what was appended: an array, a source and a value
    pc                  \* "loop", "returned", "error" or "panicked"

input == <<batch, service, requested, snapshot, listing, order>>
vars == <<input, heap, i, j, metrics, pc>>

(* How a request may name its framework and executor: with the wildcard,   *)
(* or, as an element stays dynamic, with one that it wants.                *)
Naming(ns) ==
    [namespace : {ns},
     framework : IF ns.dynamic THEN Frameworks \cup {Star} ELSE {KeyPart},
     executor : IF ns.dynamic /\ ns.service = "agent" THEN Executors \cup {Star}
                ELSE {KeyPart}]

OfService == IF service = "agent" THEN Executors ELSE {KeyPart}

(* The listing holds every instance that carries a key.                    *)
ListingOK ==
    /\ listing \in Documents
    /\ order \in Orders
    /\ \A n \in DOMAIN order : order[n][2] \in OfService
    /\ \A p \in listing.listing : \E n \in DOMAIN order : order[n] = p[1]

Init ==
    /\ batch \in Batches
    /\ service \in Services
    /\ Wants(batch, service)
    /\ requested \in [DOMAIN batch -> UNION {Naming(batch[k].namespace) : k \in DOMAIN batch}]
    /\ \A k \in DOMAIN batch : requested[k] \in Naming(batch[k].namespace)
    /\ snapshot \in Documents
    /\ ListingOK
    /\ heap = requested
    /\ i = 1
    /\ j = 1
    /\ metrics = << >>
    /\ pc = "loop"

Looping == pc = "loop" /\ i \in DOMAIN batch
Positions == Requested(batch, service)

-----------------------------------------------------------------------------
(* plugin.NewMetricType: the metric holds the slice it is given.           *)
Metrics(array, reading) ==
    Append(metrics, [array |-> array, source |-> HostFor(batch, service),
                     reading |-> reading])

(* The partition leaves the metrics of the other service out.              *)
OtherService ==
    /\ Looping
    /\ i \notin Positions
    /\ i' = i + 1
    /\ UNCHANGED <<input, heap, j, metrics, pc>>

(* ns.GetValueByNamespace is not nil. *)
HasValue(x, ns) == <<x, ns.key>> \in listing.listing

Inner == Looping /\ i \in Positions /\ batch[i].namespace.dynamic /\ j \in DOMAIN order

(* The array with framework.ID, or exec.Framework and exec.ID, put in.     *)
Filled(array, x) ==
    [array EXCEPT !.framework = x[1],
                  !.executor = IF service = "agent" THEN x[2] ELSE @]

(* cloneNamespace: an array of its own with the same elements.             *)
cloneNamespace(array) == Append(heap, array)

(* Slip: no cloneNamespace: the IDs go into the request's own array.       *)
AppendUncloned ==
    /\ Inner
    /\ HasValue(order[j], batch[i].namespace)
    /\ heap' = [heap EXCEPT ![i] = Filled(heap[i], order[j])]
    /\ metrics' = Metrics(i, listing)
    /\ j' = j + 1
    /\ UNCHANGED <<input, i, pc>>

(* Slip: cloneNamespace outside of the inner loop: one clone for all.      *)
AppendOneClone ==
    /\ Inner
    /\ HasValue(order[j], batch[i].namespace)
    /\ heap' = IF j > 1 /\ Len(heap) > Len(batch)
               THEN [heap EXCEPT ![Len(heap)] = Filled(heap[i], order[j])]
               ELSE Append(heap, Filled(heap[i], order[j]))
    /\ metrics' = Metrics(Len(heap'), listing)
    /\ j' = j + 1
    /\ UNCHANGED <<input, i, pc>>

(* A clone of the request's array takes the instance, whichever one the    *)
(* request named.                                                          *)
AppendInstance ==
    /\ Inner
    /\ HasValue(order[j], batch[i].namespace)
    /\ heap' = cloneNamespace(Filled(heap[i], order[j]))
    /\ metrics' = Metrics(Len(heap) + 1, listing)
    /\ j' = j + 1
    /\ UNCHANGED <<input, i, pc>>

(* "Attempted to collect metric ... but it returned nil!"                  *)
SkipInstance ==
    /\ Inner
    /\ ~ HasValue(order[j], batch[i].namespace)
    /\ j' = j + 1
    /\ UNCHANGED <<input, heap, i, metrics, pc>>

EndInstances ==
    /\ Looping
    /\ i \in Positions
    /\ batch[i].namespace.dynamic
    /\ j \notin DOMAIN order
    /\ i' = i + 1
    /\ j' = 1
    /\ UNCHANGED <<input, heap, metrics, pc>>

(* Slip: a static metric put in front of the others. *)
AppendStaticFirst ==
    /\ Looping
    /\ i \in Positions
    /\ ~ batch[i].namespace.dynamic
    /\ ~ Stops(batch[i].namespace, snapshot)
    /\ metrics' = <<[array |-> i, source |-> HostFor(batch, service),
                     reading |-> snapshot]>> \o metrics
    /\ i' = i + 1
    /\ UNCHANGED <<input, heap, j, pc>>

(* A static metric shares its array with the request. *)
AppendStatic ==
    /\ Looping
    /\ i \in Positions
    /\ ~ batch[i].namespace.dynamic
    /\ ~ Stops(batch[i].namespace, snapshot)
    /\ metrics' = Metrics(i, snapshot)
    /\ i' = i + 1
    /\ UNCHANGED <<input, heap, j, pc>>

(* Slip: the lookup before Strings()[5:]: a short key that is missing.     *)
StopLookedUpFirst ==
    /\ Looping
    /\ i \in Positions
    /\ Stops(batch[i].namespace, snapshot)
    /\ pc' = IF NotFound(batch[i].namespace, snapshot) THEN "error" ELSE "panicked"
    /\ UNCHANGED <<input, heap, i, j, metrics>>

(* The key is not in the snapshot, or Strings()[5:] is out of range.       *)
Stop ==
    /\ Looping
    /\ i \in Positions
    /\ Stops(batch[i].namespace, snapshot)
    /\ pc' = IF OutOfRange(batch[i].namespace) THEN "panicked" ELSE "error"
    /\ UNCHANGED <<input, heap, i, j, metrics>>

Return ==
    /\ pc = "loop"
    /\ i \notin DOMAIN batch
    /\ pc' = "returned"
    /\ UNCHANGED <<input, heap, i, j, metrics>>

Next ==
    \/ OtherService \/ AppendInstance \/ SkipInstance \/ EndInstances
    \/ AppendStatic \/ Stop \/ Return

Spec == Init /\ [][Next]_vars

-----------------------------------------------------------------------------
(* A metric as its reader sees it, through the array it points to.         *)
Through(arrays, m) ==
    LET array == arrays[m.array]
    IN  [namespace |-> array.namespace,
         instance |-> IF array.namespace.dynamic
                      THEN <<array.framework, array.executor>> ELSE NoInstance,
         source |-> m.source, reading |-> m.reading]

View(m) == Through(heap, m)

Views == {View(metrics[n]) : n \in DOMAIN metrics}

(* What the inner loop has to have appended before its position.           *)
SoFar ==
    IF i \in Positions /\ batch[i].namespace.dynamic
    THEN {[namespace |-> batch[i].namespace, instance |-> x,
           source |-> HostFor(batch, service), reading |-> listing] :
             x \in {order[n] : n \in {m \in DOMAIN order : m < j}}
                     \cap {y \in Instances : HasValue(y, batch[i].namespace)}}
    ELSE {}

Before(n) ==
    UNION {Rendered(batch[k].namespace, HostFor(batch, service), snapshot, listing) :
              k \in {l \in Positions : l < n}}

(* The places of the answer: a requested metric, and of a dynamic one the  *)
(* position of an instance with a value in the listing.                    *)
Slots ==
    {s \in Positions \X (DOMAIN order \cup {1}) :
        IF batch[s[1]].namespace.dynamic
        THEN s[2] \in DOMAIN order /\ HasValue(order[s[2]], batch[s[1]].namespace)
        ELSE s[2] = 1}

(* The slots before the request and instance n, and up to the slot s.      *)
SlotsBefore(k, n) == {s \in Slots : s[1] < k \/ (s[1] = k /\ s[2] < n)}
UpTo(s) == SlotsBefore(s[1], s[2] + 1)

(* The metric of a slot. *)
MetricAt(s) ==
    LET ns == batch[s[1]].namespace
    IN  [namespace |-> ns,
         instance |-> IF ns.dynamic THEN order[s[2]] ELSE NoInstance,
         source |-> HostFor(batch, service),
         reading |-> IF ns.dynamic THEN listing ELSE snapshot]

(* The metrics are those of the slots S, each in its turn.                 *)
InTurn(S) ==
    /\ Len(metrics) = Cardinality(S)
    /\ \A s \in S : View(metrics[Cardinality(UpTo(s))]) = MetricAt(s)

(* The inductive invariant of the proofs: at each position the metrics are *)
(* those of the requests before it and of the instances before the inner   *)
(* one, seen through arrays that nobody writes to any more.                *)
InputOK ==
    /\ batch \in Batches
    /\ service \in Services
    /\ requested \in Seq(Arrays)
    /\ DOMAIN requested = DOMAIN batch
    /\ \A k \in DOMAIN batch : requested[k] \in Naming(batch[k].namespace)
    /\ snapshot \in Documents
    /\ ListingOK

HeapOK ==
    /\ heap \in Seq(Arrays)
    /\ Len(batch) <= Len(heap)
    /\ \A k \in DOMAIN requested : heap[k] = requested[k]

IInv ==
    /\ InputOK
    /\ HeapOK
    /\ i \in Nat \ {0} /\ j \in Nat \ {0}
    /\ i <= Len(batch) + 1
    /\ j <= Len(order) + 1
    /\ j = 1 \/ (i \in Positions /\ batch[i].namespace.dynamic)
    /\ metrics \in Seq(Appended)
    /\ \A n \in DOMAIN metrics : metrics[n].array \in DOMAIN heap
    /\ Views = Before(i) \cup SoFar
    /\ pc = "returned" => i \notin DOMAIN batch
    /\ \A k \in Positions : k < i => ~ Stops(batch[k].namespace, snapshot)

(* And they are in their turn. *)
TurnInv == IInv /\ InTurn(SlotsBefore(i, j))

(* The arrays of Snap's own request are as they were: what a wildcard      *)
(* stood for in one answer never becomes what the next call asks for.      *)
RequestUntouched == \A k \in DOMAIN requested : heap[k] = requested[k]

(* A loop that comes to its end has given, read through the arrays, what   *)
(* Collector's one step gives: each metric under its own instance, and all *)
(* instances also for a request that names one; and it comes to its end    *)
(* exactly when no requested namespace stops it.                           *)
RendersAll ==
    pc = "returned" =>
        /\ Views = RenderAll(batch, service, HostFor(batch, service), snapshot, listing)
        /\ Runs(batch, service, snapshot)

(* The answer keeps the order of the request, and under each wildcard that *)
(* of the listing, leaves no gap where an instance has no value, and holds *)
(* a metric that was asked for twice twice.                                *)
InOrder == pc = "returned" => InTurn(Slots)

(* The loops, element by element, do what Collector takes for one step:    *)
(* all metrics, or the error or the panic of the first namespace that is   *)
(* missing or too short, whatever was appended before it.                  *)
Abstract == INSTANCE RenderStep WITH
    outcome <- pc, answer <- IF pc = "returned" THEN Views ELSE {}
IsOneStep == Abstract!Spec
=============================================================================
