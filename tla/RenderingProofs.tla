--------------------------- MODULE RenderingProofs ---------------------------
(***************************************************************************)
(* Theorems about Rendering, for any batches, documents and listings: the  *)
(* loops give what Collector takes them to give in one step, and write to  *)
(* no array of the request.                                                *)
(***************************************************************************)
EXTENDS Rendering, FiniteSetTheorems, TLAPS

(* The elements of a batch are requests. *)
LEMMA BatchTyped ==
    ASSUME InputOK
    PROVE  /\ DOMAIN batch = 1 .. Len(batch) /\ Len(batch) \in Nat /\ 1 \in DOMAIN batch
           /\ \A k \in DOMAIN batch : /\ batch[k].namespace \in Namespaces
                                     /\ batch[k].config \in Configs
<1> DEFINE S == [namespace : Namespaces, config : Configs]
<1>1. batch \in Seq(S) /\ batch # << >>
    BY BatchesAssumption DEF InputOK
<1>2. /\ DOMAIN batch = 1 .. Len(batch) /\ Len(batch) \in Nat /\ 1 \in DOMAIN batch
      /\ \A k \in DOMAIN batch : batch[k] \in S
    <2> HIDE DEF S
    <2> QED BY <1>1
<1> QED BY <1>2

(* A host of the batch is a host, or there is none. *)
LEMMA HostTyped ==
    ASSUME InputOK
    PROVE  HostFor(batch, service) \in Hosts \cup {Unset}
<1>1. batch[1].config \in Configs
    BY BatchTyped
<1> QED BY <1>1 DEF HostFor, BatchConfig, Configured, Configs, Hosts, InputOK, Services

(* The array of a request. *)
LEMMA RequestArray ==
    ASSUME IInv, i \in Positions
    PROVE  /\ i \in DOMAIN batch /\ i \in DOMAIN heap
           /\ heap[i] \in Arrays
           /\ heap[i].namespace = batch[i].namespace
           /\ batch[i].namespace.service = service
           /\ service = "master" => heap[i].executor = KeyPart
<1>1. i \in DOMAIN batch /\ batch[i].namespace.service = service
    BY DEF Positions, Requested
<1>2. DOMAIN batch = 1 .. Len(batch) /\ Len(batch) \in Nat
    BY BatchTyped DEF IInv
<1>3. heap[i] = requested[i] /\ requested[i] \in Naming(batch[i].namespace)
    BY <1>1 DEF IInv, InputOK, HeapOK
<1>4. i \in DOMAIN heap
    BY <1>1, <1>2 DEF IInv, HeapOK
<1>5. heap[i] \in Arrays
    BY <1>4 DEF IInv, HeapOK
<1>6. heap[i].namespace = batch[i].namespace
    BY <1>3 DEF Naming
<1>7. service = "master" => heap[i].executor = KeyPart
    BY <1>1, <1>3 DEF Naming
<1> QED BY <1>1, <1>4, <1>5, <1>6, <1>7

(* One more request is behind the position. *)
LEMMA BeforeNext ==
    ASSUME NEW n \in Nat, InputOK
    PROVE  Before(n + 1) = Before(n) \cup
             IF n \in Positions
             THEN Rendered(batch[n].namespace, HostFor(batch, service), snapshot, listing)
             ELSE {}
<1>1. \A l \in Positions : l \in Nat
    BY BatchTyped DEF Positions, Requested
<1>2. {l \in Positions : l < n + 1} = {l \in Positions : l < n} \cup ({n} \cap Positions)
    BY <1>1
<1> QED BY <1>2 DEF Before

LEMMA SoFarStart == ASSUME j = 1, InputOK PROVE SoFar = {}
<1>1. {m \in DOMAIN order : m < j} = {}
    BY InstancesAssumption DEF InputOK, ListingOK
<1> QED BY <1>1 DEF SoFar

(* A new metric leaves the views of the others as they are, if the arrays  *)
(* that were there are not written to.                                     *)
LEMMA ViewsAppended ==
    ASSUME IInv, NEW m \in Appended,
           metrics' = Append(metrics, m), \A k \in DOMAIN heap : heap'[k] = heap[k]
    PROVE  Views' = Views \cup {Through(heap', m)}
<1> DEFINE last == Len(metrics) + 1
<1>1. /\ DOMAIN metrics' = DOMAIN metrics \cup {last}
      /\ \A n \in DOMAIN metrics : metrics'[n] = metrics[n]
      /\ metrics'[last] = m
    BY DEF IInv
<1>2. \A n \in DOMAIN metrics : Through(heap', metrics'[n]) = Through(heap, metrics[n])
    <2> TAKE n \in DOMAIN metrics
    <2>1. metrics'[n] = metrics[n]
        BY <1>1
    <2>2. metrics[n].array \in DOMAIN heap
        BY DEF IInv
    <2>3. heap'[metrics[n].array] = heap[metrics[n].array]
        BY <2>2
    <2> QED BY <2>1, <2>3 DEF Through
<1>3. Views' = {Through(heap', metrics'[n]) : n \in DOMAIN metrics'}
    BY DEF Views, View
<1>4. Views = {Through(heap, metrics[n]) : n \in DOMAIN metrics}
    BY DEF Views, View
<1> HIDE DEF last
<1> QED BY <1>1, <1>2, <1>3, <1>4

(* The metrics keep their type when one is appended. *)
LEMMA MetricsTyped ==
    ASSUME IInv, NEW m \in Appended,
           metrics' = Append(metrics, m), DOMAIN heap \subseteq DOMAIN heap',
           m.array \in DOMAIN heap'
    PROVE  /\ metrics' \in Seq(Appended)
           /\ \A n \in DOMAIN metrics' : metrics'[n].array \in DOMAIN heap'
<1>1. metrics' \in Seq(Appended) /\ \A n \in DOMAIN metrics' :
          \/ n \in DOMAIN metrics /\ metrics'[n] = metrics[n]
          \/ metrics'[n] = m
    BY DEF IInv
<1> QED BY <1>1 DEF IInv

(* The document is a record of sets, whose listing pairs instances with    *)
(* keys, and every instance in it is one of the listing's order.           *)
LEMMA OrderTyped ==
    ASSUME IInv, j \in DOMAIN order
    PROVE  /\ order[j] \in Instances
           /\ order[j] = <<order[j][1], order[j][2]>>
           /\ order[j][1] \in Frameworks
           /\ order[j][2] \in OfService
           /\ j + 1 <= Len(order) + 1
<1>1. order \in Seq(Instances) /\ \A n \in DOMAIN order : order[n][2] \in OfService
    BY InstancesAssumption DEF IInv, InputOK, ListingOK
<1>2. order[j] \in Instances /\ j <= Len(order) /\ Len(order) \in Nat /\ j \in Nat
    BY <1>1
<1>3. order[j] \in Frameworks \X (Executors \cup {KeyPart})
    BY <1>2, InstancesAssumption
<1> QED BY <1>1, <1>2, <1>3

(* One more instance is behind the inner position.                         *)
LEMMA SoFarNext ==
    ASSUME IInv, Inner, j' = j + 1, UNCHANGED <<input, i>>
    PROVE  SoFar' = SoFar \cup
             IF HasValue(order[j], batch[i].namespace)
             THEN {[namespace |-> batch[i].namespace, instance |-> order[j],
                    source |-> HostFor(batch, service), reading |-> listing]}
             ELSE {}
<1> DEFINE Have == {y \in Instances : HasValue(y, batch[i].namespace)}
           Passed(n) == {order[l] : l \in {m \in DOMAIN order : m < n}}
           M(x) == [namespace |-> batch[i].namespace, instance |-> x,
                    source |-> HostFor(batch, service), reading |-> listing]
<1>1. j \in DOMAIN order /\ order[j] \in Instances
    BY OrderTyped DEF Inner
<1>2. \A n \in DOMAIN order : n \in Nat
    BY InstancesAssumption DEF IInv, InputOK, ListingOK
<1>3. Passed(j + 1) = Passed(j) \cup {order[j]}
    BY <1>1, <1>2
<1>4. SoFar = {M(x) : x \in Passed(j) \cap Have}
    BY DEF SoFar, Inner
<1>5. SoFar' = {M(x) : x \in Passed(j + 1) \cap Have}
    BY DEF SoFar, Inner, Looping, input, Positions, HasValue
<1>6. order[j] \in Have <=> HasValue(order[j], batch[i].namespace)
    BY <1>1
<1> HIDE DEF Have, Passed, M
<1>7. SoFar' = SoFar \cup IF order[j] \in Have THEN {M(order[j])} ELSE {}
    BY <1>3, <1>4, <1>5
<1> QED BY <1>6, <1>7 DEF M

(* Behind its last instance the inner loop has appended all of them.       *)
LEMMA SoFarEnd ==
    ASSUME IInv, i \in Positions, batch[i].namespace.dynamic, j \notin DOMAIN order
    PROVE  SoFar = Rendered(batch[i].namespace, HostFor(batch, service), snapshot, listing)
<1>1. order \in Seq(Instances) /\ \A p \in listing.listing :
                                      \E n \in DOMAIN order : order[n] = p[1]
    BY InstancesAssumption DEF IInv, InputOK, ListingOK
<1>2. {m \in DOMAIN order : m < j} = DOMAIN order
    <2>1. DOMAIN order = 1 .. Len(order) /\ Len(order) \in Nat
        BY <1>1
    <2>2. j \in Nat \ {0}
        BY DEF IInv
    <2> QED BY <2>1, <2>2
<1>3. {order[n] : n \in DOMAIN order} \cap {y \in Instances : HasValue(y, batch[i].namespace)}
        = {y \in Instances : HasValue(y, batch[i].namespace)}
    BY <1>1 DEF HasValue
<1> QED BY <1>2, <1>3 DEF SoFar, Rendered, HasValue

-----------------------------------------------------------------------------
LEMMA InitOK == Init => IInv
<1> SUFFICES ASSUME Init PROVE IInv
    OBVIOUS
<1>1. requested \in Seq(Arrays) /\ InputOK
    <2>1. batch \in Batches /\ DOMAIN batch = 1 .. Len(batch) /\ Len(batch) \in Nat
          /\ \A k \in DOMAIN batch : batch[k].namespace \in Namespaces
        <3> DEFINE S == [namespace : Namespaces, config : Configs]
        <3>1. batch \in Batches /\ batch \in Seq(S)
            BY BatchesAssumption DEF Init
        <3>2. /\ DOMAIN batch = 1 .. Len(batch) /\ Len(batch) \in Nat
              /\ \A k \in DOMAIN batch : batch[k] \in S
            <4> HIDE DEF S
            <4> QED BY <3>1
        <3> QED BY <3>1, <3>2
    <2>2. \A k \in DOMAIN batch : requested[k] \in Arrays
        BY <2>1 DEF Init, Naming, Arrays
    <2>3. requested \in [1 .. Len(batch) -> Arrays]
        BY <2>1, <2>2 DEF Init
    <2>4. requested \in Seq(Arrays)
        BY <2>1, <2>3
    <2> QED BY <2>1, <2>4 DEF Init, InputOK
<1>2. HeapOK
    BY <1>1, BatchTyped DEF Init, HeapOK, InputOK
<1>3. i \in Nat \ {0} /\ j \in Nat \ {0} /\ i = 1 /\ j = 1 /\ i <= Len(batch) + 1
    BY <1>1, BatchTyped DEF Init
<1>4. j <= Len(order) + 1
    BY <1>3, InstancesAssumption DEF Init, ListingOK
<1>5. metrics \in Seq(Appended) /\ DOMAIN metrics = {} /\ Views = {}
    BY DEF Init, Views
<1>6. Before(i) = {} /\ \A k \in Positions : ~ k < i
    BY <1>1, <1>3, BatchTyped DEF Before, Positions, Requested
<1>7. SoFar = {}
    BY <1>1, <1>3, SoFarStart
<1> QED BY <1>1, <1>2, <1>3, <1>4, <1>5, <1>6, <1>7 DEF IInv, Init

(* What the steps that append nothing leave alone.                         *)
LEMMA NothingAppended ==
    ASSUME IInv, UNCHANGED <<input, heap, metrics>>
    PROVE  /\ InputOK' /\ HeapOK' /\ Views' = Views
           /\ metrics' \in Seq(Appended)
           /\ \A n \in DOMAIN metrics' : metrics'[n].array \in DOMAIN heap'
           /\ Positions' = Positions
           /\ \A n : Before(n)' = Before(n)
BY DEF IInv, InputOK, HeapOK, ListingOK, OfService, Views, View, Through, input, Positions,
       Before

(* An outer step leaves a request behind that had nothing left to append.  *)
LEMMA OuterStep ==
    ASSUME IInv, Looping, UNCHANGED input,
           InputOK', HeapOK', metrics' \in Seq(Appended),
           \A n \in DOMAIN metrics' : metrics'[n].array \in DOMAIN heap',
           i' = i + 1, j' = 1, pc' = pc,
           Views' = Before(i + 1),
           i \in Positions => ~ Stops(batch[i].namespace, snapshot)
    PROVE  IInv'
<1>1. i \in Nat \ {0} /\ i \in DOMAIN batch /\ i + 1 <= Len(batch) + 1
    BY BatchTyped DEF IInv, Looping
<1>2. j' \in Nat \ {0} /\ j' <= Len(order') + 1
    BY InstancesAssumption DEF IInv, InputOK, ListingOK, input
<1>3. SoFar' = {}
    <2>1. {m \in DOMAIN order' : m < j'} = {}
        BY InstancesAssumption DEF IInv, InputOK, ListingOK, input
    <2> QED BY <2>1 DEF SoFar
<1>4. Before(i)' = Before(i + 1)
    BY DEF Before, input, Positions
<1>5. \A k \in Positions' : k < i' => ~ Stops(batch'[k].namespace, snapshot')
    <2>1. \A k \in Positions : k \in Nat
        BY BatchTyped DEF Positions, Requested, IInv
    <2>2. \A k \in Positions : k < i + 1 => k < i \/ k = i
        BY <1>1, <2>1
    <2> QED BY <2>2 DEF IInv, Positions, input
<1>6. pc' # "returned"
    BY DEF Looping
<1>7. i' \in Nat \ {0} /\ i' <= Len(batch') + 1
    BY <1>1 DEF input
<1> QED BY <1>2, <1>3, <1>4, <1>5, <1>6, <1>7 DEF IInv

(* An inner step stays with its request.                                   *)
LEMMA InnerStep ==
    ASSUME IInv, Inner, UNCHANGED <<input, i, pc>>,
           InputOK', HeapOK', metrics' \in Seq(Appended),
           \A n \in DOMAIN metrics' : metrics'[n].array \in DOMAIN heap',
           j' = j + 1,
           Views' = Before(i) \cup SoFar'
    PROVE  IInv'
<1>1. j' \in Nat \ {0} /\ j' <= Len(order') + 1
    BY OrderTyped DEF IInv, Inner, input
<1>2. Before(i)' = Before(i) /\ Positions' = Positions
    BY DEF Before, input, Positions
<1>3. pc' # "returned"
    BY DEF Looping, Inner
<1>4. \A k \in Positions' : k < i' => ~ Stops(batch'[k].namespace, snapshot')
    BY <1>2 DEF IInv, input
<1> QED BY <1>1, <1>2, <1>3, <1>4 DEF IInv, Inner, input

(* The clone that takes an instance is at an address of its own, and what  *)
(* is read through it is the instance.                                     *)
LEMMA InstanceAppended ==
    ASSUME IInv, AppendInstance
    PROVE  LET m == [array |-> Len(heap) + 1, source |-> HostFor(batch, service),
                     reading |-> listing]
           IN  /\ m \in Appended /\ metrics' = Append(metrics, m)
               /\ heap' \in Seq(Arrays) /\ Len(heap) \in Nat /\ Len(heap') = Len(heap) + 1
               /\ DOMAIN heap \subseteq DOMAIN heap' /\ m.array \in DOMAIN heap'
               /\ \A k \in DOMAIN heap : heap'[k] = heap[k]
               /\ Through(heap', m) = [namespace |-> batch[i].namespace, instance |-> order[j],
                                       source |-> HostFor(batch, service), reading |-> listing]
<1> DEFINE ns == batch[i].namespace
           m == [array |-> Len(heap) + 1, source |-> HostFor(batch, service),
                 reading |-> listing]
           array == Filled(heap[i], order[j])
<1>1. /\ HostFor(batch, service) \in Hosts \cup {Unset} /\ listing \in Documents
      /\ service \in {"master", "agent"}
    BY HostTyped DEF IInv, InputOK, ListingOK, Services
<1>2. /\ i \in DOMAIN batch /\ heap[i] \in Arrays /\ heap[i].namespace = ns
      /\ ns.dynamic /\ ns.service = service
      /\ service = "master" => heap[i].executor = KeyPart
    BY RequestArray DEF AppendInstance, Inner
<1>3. /\ order[j] = <<order[j][1], order[j][2]>> /\ order[j][1] \in Frameworks
      /\ order[j][2] \in OfService
    BY OrderTyped DEF AppendInstance, Inner
<1>4. /\ array \in Arrays /\ array.namespace = ns
      /\ <<array.framework, array.executor>> = order[j]
    BY <1>1, <1>2, <1>3 DEF Filled, Arrays, OfService
<1>5. /\ heap' = Append(heap, array) /\ heap' \in Seq(Arrays)
      /\ Len(heap) \in Nat /\ Len(heap') = Len(heap) + 1
      /\ DOMAIN heap = 1 .. Len(heap) /\ DOMAIN heap' = 1 .. Len(heap) + 1
      /\ heap'[Len(heap) + 1] = array /\ \A k \in DOMAIN heap : heap'[k] = heap[k]
    <2>1. heap \in Seq(Arrays) /\ heap' = Append(heap, array)
        BY DEF AppendInstance, cloneNamespace, IInv, HeapOK
    <2> HIDE DEF array
    <2> QED BY <1>4, <2>1
<1>6. m \in Appended /\ m.array \in DOMAIN heap' /\ metrics' = Append(metrics, m)
    BY <1>1, <1>5 DEF Appended, AppendInstance, Metrics
<1>7. Through(heap', m) = [namespace |-> ns, instance |-> order[j],
                           source |-> HostFor(batch, service), reading |-> listing]
    BY <1>2, <1>4, <1>5 DEF Through
<1>8. DOMAIN heap \subseteq DOMAIN heap'
    BY <1>5
<1> HIDE DEF array
<1> QED BY <1>5, <1>6, <1>7, <1>8

LEMMA StepOK == IInv /\ [Next]_vars => IInv'
<1> SUFFICES ASSUME IInv, [Next]_vars PROVE IInv'
    OBVIOUS
<1> DEFINE host == HostFor(batch, service)
           Rec(ns, x, reading) == [namespace |-> ns, instance |-> x,
                                   source |-> host, reading |-> reading]
<1>0. /\ host \in Hosts \cup {Unset} /\ InputOK /\ HeapOK
      /\ snapshot \in Documents /\ listing \in Documents /\ i \in Nat
    BY HostTyped DEF IInv, InputOK, ListingOK
<1>1. ASSUME OtherService PROVE IInv'
    <2>1. SoFar = {} /\ j = 1
        BY <1>1 DEF OtherService, SoFar, IInv
    <2>2. Before(i + 1) = Before(i)
        BY <1>0, <1>1, BeforeNext DEF OtherService
    <2>3. InputOK' /\ HeapOK' /\ Views' = Views /\ metrics' \in Seq(Appended)
          /\ \A n \in DOMAIN metrics' : metrics'[n].array \in DOMAIN heap'
        BY <1>1, NothingAppended DEF OtherService
    <2>4. Views' = Before(i + 1)
        BY <2>1, <2>2, <2>3 DEF IInv
    <2> QED BY <1>1, <2>1, <2>3, <2>4, OuterStep DEF OtherService
<1>2. ASSUME AppendInstance PROVE IInv'
    <2> DEFINE ns == batch[i].namespace
               m == [array |-> Len(heap) + 1, source |-> host, reading |-> listing]
    <2>1. /\ m \in Appended /\ metrics' = Append(metrics, m)
          /\ heap' \in Seq(Arrays) /\ Len(heap) \in Nat /\ Len(heap') = Len(heap) + 1
          /\ DOMAIN heap \subseteq DOMAIN heap' /\ m.array \in DOMAIN heap'
          /\ \A k \in DOMAIN heap : heap'[k] = heap[k]
          /\ Through(heap', m) = Rec(ns, order[j], listing)
        BY <1>2, InstanceAppended
    <2>2. /\ metrics' \in Seq(Appended)
          /\ \A n \in DOMAIN metrics' : metrics'[n].array \in DOMAIN heap'
          /\ Views' = Views \cup {Through(heap', m)}
        <3> HIDE DEF m
        <3> QED BY <2>1, MetricsTyped, ViewsAppended
    <2>3. SoFar' = SoFar \cup {Rec(ns, order[j], listing)}
        BY <1>2, SoFarNext DEF AppendInstance
    <2>4. Views' = Before(i) \cup SoFar'
        BY <2>1, <2>2, <2>3 DEF IInv
    <2>5. InputOK'
        BY <1>0, <1>2 DEF AppendInstance, InputOK, ListingOK, OfService, input
    <2>6. HeapOK'
        <3>1. Len(batch) \in Nat /\ Len(batch) <= Len(heap) /\ DOMAIN requested = 1 .. Len(batch)
            BY <1>0, BatchTyped DEF HeapOK, InputOK
        <3>2. UNCHANGED <<batch, requested>>
            BY <1>2 DEF AppendInstance, input
        <3> QED BY <1>0, <2>1, <3>1, <3>2 DEF HeapOK
    <2> QED BY <1>2, <2>2, <2>4, <2>5, <2>6, InnerStep DEF AppendInstance
<1>3. ASSUME SkipInstance PROVE IInv'
    <2>1. SoFar' = SoFar
        BY <1>3, SoFarNext DEF SkipInstance
    <2>2. InputOK' /\ HeapOK' /\ Views' = Views /\ metrics' \in Seq(Appended)
          /\ \A n \in DOMAIN metrics' : metrics'[n].array \in DOMAIN heap'
        BY <1>3, NothingAppended DEF SkipInstance
    <2>3. Views' = Before(i) \cup SoFar'
        BY <2>1, <2>2 DEF IInv
    <2> QED BY <1>3, <2>2, <2>3, InnerStep DEF SkipInstance
<1>4. ASSUME EndInstances PROVE IInv'
    <2>1. SoFar = Rendered(batch[i].namespace, host, snapshot, listing)
        BY <1>4, SoFarEnd DEF EndInstances
    <2>2. Before(i + 1) = Before(i) \cup SoFar
        BY <1>0, <1>4, <2>1, BeforeNext DEF EndInstances
    <2>3. InputOK' /\ HeapOK' /\ Views' = Views /\ metrics' \in Seq(Appended)
          /\ \A n \in DOMAIN metrics' : metrics'[n].array \in DOMAIN heap'
        BY <1>4, NothingAppended DEF EndInstances
    <2>4. Views' = Before(i + 1)
        BY <2>2, <2>3 DEF IInv
    <2>5. ~ Stops(batch[i].namespace, snapshot)
        BY <1>4 DEF EndInstances, Stops, OutOfRange, NotFound
    <2> QED BY <1>4, <2>3, <2>4, <2>5, OuterStep DEF EndInstances
<1>5. ASSUME AppendStatic PROVE IInv'
    <2> DEFINE ns == batch[i].namespace
               m == [array |-> i, source |-> host, reading |-> snapshot]
    <2>1. /\ i \in DOMAIN heap /\ heap[i].namespace = ns /\ ~ ns.dynamic
        BY <1>5, RequestArray DEF AppendStatic
    <2>2. heap' = heap /\ UNCHANGED input /\ j' = j /\ j = 1
        BY <1>5 DEF AppendStatic, IInv
    <2>3. m \in Appended /\ m.array \in DOMAIN heap' /\ metrics' = Append(metrics, m)
        BY <1>0, <1>5, <2>1, <2>2 DEF Appended, AppendStatic, Metrics, Looping
    <2>4. Through(heap', m) = Rec(ns, NoInstance, snapshot)
        BY <2>1, <2>2 DEF Through
    <2>5. /\ metrics' \in Seq(Appended)
          /\ \A n \in DOMAIN metrics' : metrics'[n].array \in DOMAIN heap'
          /\ Views' = Views \cup {Through(heap', m)}
        <3> HIDE DEF m
        <3> QED BY <2>2, <2>3, MetricsTyped, ViewsAppended
    <2>6. SoFar = {}
        BY <2>1 DEF SoFar
    <2>7. Before(i + 1) = Before(i) \cup {Rec(ns, NoInstance, snapshot)}
        BY <1>0, <1>5, <2>1, BeforeNext DEF AppendStatic, Rendered
    <2>8. Views' = Before(i + 1)
        BY <2>4, <2>5, <2>6, <2>7 DEF IInv
    <2>9. InputOK' /\ HeapOK'
        BY <1>0, <2>2 DEF InputOK, HeapOK, ListingOK, OfService, input
    <2> QED BY <1>5, <2>2, <2>5, <2>8, <2>9, OuterStep DEF AppendStatic
<1>6. ASSUME Stop \/ Return \/ UNCHANGED vars PROVE IInv'
    <2>1. UNCHANGED <<input, heap, i, j, metrics>>
        BY <1>6 DEF Stop, Return, vars
    <2>2. /\ InputOK' /\ HeapOK' /\ Views' = Views /\ metrics' \in Seq(Appended)
          /\ \A n \in DOMAIN metrics' : metrics'[n].array \in DOMAIN heap'
          /\ Positions' = Positions /\ Before(i)' = Before(i)
        BY <2>1, NothingAppended DEF Before
    <2>3. SoFar' = SoFar
        BY <2>1 DEF SoFar, input, Positions, HasValue
    <2>4. pc' = "returned" => i' \notin DOMAIN batch'
        BY <1>6, <2>1 DEF Stop, Return, vars, IInv, input
    <2> QED BY <2>1, <2>2, <2>3, <2>4 DEF IInv, input
<1> QED BY <1>1, <1>2, <1>3, <1>4, <1>5, <1>6 DEF Next

-----------------------------------------------------------------------------
(* In every reachable state the metrics, read through their arrays, are    *)
(* those of the requests and the instances behind the loops' positions.    *)
THEOREM Invariant == Spec => []IInv
<1>1. Init => IInv
    BY InitOK
<1>2. IInv /\ [Next]_vars => IInv'
    BY StepOK
<1> QED BY <1>1, <1>2, PTL DEF Spec

(* No instance's ID is ever written into an array of the request: what     *)
(* cloneNamespace is for.                                                  *)
THEOREM RequestUntouchedHolds == Spec => []RequestUntouched
<1>1. IInv => RequestUntouched
    BY DEF IInv, HeapOK, RequestUntouched
<1> QED BY <1>1, Invariant, PTL

(* At their end the two loops have given all metrics.                      *)
LEMMA ReturnsAll == IInv => RendersAll
<1> SUFFICES ASSUME IInv, pc = "returned"
             PROVE  /\ Views = RenderAll(batch, service, HostFor(batch, service),
                                         snapshot, listing)
                    /\ Runs(batch, service, snapshot)
    BY DEF RendersAll
<1>1. \A k \in Positions : k \in DOMAIN batch /\ k < i
    <2>1. DOMAIN batch = 1 .. Len(batch) /\ Len(batch) \in Nat
        BY BatchTyped DEF IInv
    <2>2. i \in Nat \ {0} /\ i \notin DOMAIN batch
        BY DEF IInv
    <2> QED BY <2>1, <2>2 DEF Positions, Requested
<1>2. i \notin Positions
    BY DEF IInv, Positions, Requested
<1>3. SoFar = {}
    BY <1>2 DEF SoFar
<1>4. {l \in Positions : l < i} = Requested(batch, service)
    BY <1>1 DEF Positions
<1>5. Before(i) = RenderAll(batch, service, HostFor(batch, service), snapshot, listing)
    BY <1>4 DEF Before, RenderAll
<1>6. Runs(batch, service, snapshot)
    BY <1>1 DEF IInv, Runs, Positions
<1> QED BY <1>3, <1>5, <1>6 DEF IInv

(* The two loops give what Collector's one step takes them to give.        *)
THEOREM RendersAllHolds == Spec => []RendersAll
BY ReturnsAll, Invariant, PTL

-----------------------------------------------------------------------------
(* A slot is a pair of positions, and there are finitely many of them.     *)
LEMMA SlotsTyped ==
    ASSUME InputOK
    PROVE  /\ IsFiniteSet(Slots)
           /\ \A s \in Slots : /\ s = <<s[1], s[2]>>
                              /\ s[1] \in Positions /\ s[1] \in 1 .. Len(batch)
                              /\ s[2] \in Nat \ {0}
<1>1. DOMAIN batch = 1 .. Len(batch) /\ Len(batch) \in Nat
    BY BatchTyped
<1>2. DOMAIN order = 1 .. Len(order) /\ Len(order) \in Nat
    BY InstancesAssumption DEF InputOK, ListingOK
<1>3. Positions \subseteq 1 .. Len(batch)
    BY <1>1 DEF Positions, Requested
<1>4. DOMAIN order \cup {1} \subseteq 1 .. Len(order) + 1
    BY <1>2
<1>5. Slots \subseteq (1 .. Len(batch)) \X (1 .. Len(order) + 1)
    BY <1>3, <1>4 DEF Slots
<1>6. IsFiniteSet((1 .. Len(batch)) \X (1 .. Len(order) + 1))
    <2>1. 1 \in Int /\ Len(batch) \in Int /\ Len(order) + 1 \in Int
        BY <1>1, <1>2
    <2>2. IsFiniteSet(1 .. Len(batch)) /\ IsFiniteSet(1 .. Len(order) + 1)
        BY <2>1, FS_Interval
    <2> QED BY <2>2, FS_Product
<1>7. IsFiniteSet(Slots)
    BY <1>5, <1>6, FS_Subset
<1>8. \A s \in Slots : s[1] \in Positions
    BY DEF Slots
<1> QED BY <1>2, <1>5, <1>7, <1>8

(* The slots depend on the input only. *)
LEMMA SlotsFixed ==
    ASSUME UNCHANGED input
    PROVE  /\ Slots' = Slots
           /\ \A k, n : SlotsBefore(k, n)' = SlotsBefore(k, n)
           /\ \A s : UpTo(s)' = UpTo(s)
           /\ \A s : MetricAt(s)' = MetricAt(s)
<1>1. Slots' = Slots
    BY DEF input, Slots, Positions, HasValue
<1>2. \A k, n : SlotsBefore(k, n)' = SlotsBefore(k, n)
    BY <1>1 DEF SlotsBefore
<1>3. \A s : UpTo(s)' = UpTo(s)
    BY <1>1 DEF UpTo, SlotsBefore
<1>4. \A s : MetricAt(s)' = MetricAt(s)
    BY DEF MetricAt, input
<1> QED BY <1>1, <1>2, <1>3, <1>4

(* A slot that was passed has its metric among those that are there.       *)
LEMMA TurnInRange ==
    ASSUME IInv, NEW S, S = SlotsBefore(i, j), Len(metrics) = Cardinality(S), NEW s \in S
    PROVE  /\ IsFiniteSet(S)
           /\ Cardinality(UpTo(s)) \in DOMAIN metrics
           /\ UpTo(s) \subseteq S
<1>1. IsFiniteSet(Slots) /\ S \subseteq Slots /\ s \in Slots
    BY SlotsTyped DEF SlotsBefore, IInv
<1>2. IsFiniteSet(S)
    BY <1>1, FS_Subset
<1>3. i \in Nat /\ j \in Nat
    BY DEF IInv
<1>4. UpTo(s) \subseteq S
    <2> SUFFICES ASSUME NEW t \in UpTo(s) PROVE t \in S
        OBVIOUS
    <2>1. /\ t \in Slots
          /\ t[1] < s[1] \/ (t[1] = s[1] /\ t[2] < s[2] + 1)
        BY DEF UpTo, SlotsBefore
    <2>2. /\ s[1] \in Nat /\ s[2] \in Nat /\ t[1] \in Nat /\ t[2] \in Nat
        BY <1>1, <2>1, SlotsTyped DEF IInv
    <2>3. s[1] < i \/ (s[1] = i /\ s[2] < j)
        BY DEF SlotsBefore
    <2>4. t[1] < i \/ (t[1] = i /\ t[2] < j)
        BY <1>3, <2>1, <2>2, <2>3
    <2> QED BY <2>1, <2>4 DEF SlotsBefore
<1>5. s \in UpTo(s)
    BY <1>1, SlotsTyped DEF UpTo, SlotsBefore, IInv
<1>6. IsFiniteSet(UpTo(s)) /\ Cardinality(UpTo(s)) <= Cardinality(S)
    BY <1>2, <1>4, FS_Subset
<1>7. Cardinality(UpTo(s)) \in Nat /\ Cardinality(UpTo(s)) # 0
    BY <1>5, <1>6, FS_CardinalityType, FS_EmptySet
<1>8. DOMAIN metrics = 1 .. Len(metrics) /\ Len(metrics) \in Nat
    BY DEF IInv
<1> QED BY <1>2, <1>4, <1>6, <1>7, <1>8

(* A metric that is appended for the next slot is in its turn.             *)
LEMMA TurnAppended ==
    ASSUME TurnInv, NEW m \in Appended, <<i, j>> \in Slots,
           metrics' = Append(metrics, m), \A k \in DOMAIN heap : heap'[k] = heap[k],
           Through(heap', m) = MetricAt(<<i, j>>), UNCHANGED input
    PROVE  LET T == SlotsBefore(i, j) \cup {<<i, j>>}
           IN  /\ Len(metrics') = Cardinality(T)
               /\ \A t \in T : Through(heap', metrics'[Cardinality(UpTo(t))]) = MetricAt(t)
<1> DEFINE S == SlotsBefore(i, j)
           s == <<i, j>>
           last == Len(metrics) + 1
<1>1. /\ IInv /\ InTurn(S) /\ i \in Nat /\ j \in Nat
      /\ metrics \in Seq(Appended) /\ Len(metrics) \in Nat
    BY DEF TurnInv, IInv
<1>2. /\ IsFiniteSet(S) /\ s \notin S
    <2>1. IsFiniteSet(Slots) /\ S \subseteq Slots
        BY <1>1, SlotsTyped DEF SlotsBefore, IInv
    <2>2. s \notin S
        BY <1>1 DEF SlotsBefore
    <2> QED BY <2>1, <2>2, FS_Subset
<1>3. UpTo(s) = S \cup {s}
    <2>1. \A t \in Slots : t = <<t[1], t[2]>> /\ t[1] \in Nat /\ t[2] \in Nat
        BY <1>1, SlotsTyped DEF IInv
    <2>2. \A t \in Slots : t[1] = i /\ t[2] < j + 1 <=> (t[1] = i /\ t[2] < j) \/ t = s
        BY <1>1, <2>1
    <2> QED BY <2>1, <2>2 DEF UpTo, SlotsBefore
<1>4. Cardinality(S \cup {s}) = last
    BY <1>1, <1>2, FS_AddElement DEF InTurn
<1>5. /\ DOMAIN metrics = 1 .. Len(metrics)
      /\ \A n \in DOMAIN metrics : metrics'[n] = metrics[n]
      /\ metrics'[last] = m /\ Len(metrics') = last
    BY <1>1
<1>6. \A n \in DOMAIN metrics : Through(heap', metrics'[n]) = View(metrics[n])
    <2> TAKE n \in DOMAIN metrics
    <2>1. metrics'[n] = metrics[n] /\ heap'[metrics[n].array] = heap[metrics[n].array]
        BY <1>1, <1>5 DEF IInv
    <2> QED BY <2>1 DEF View, Through
<1>7. \A t \in S : Through(heap', metrics'[Cardinality(UpTo(t))]) = MetricAt(t)
    <2> TAKE t \in S
    <2>1. Cardinality(UpTo(t)) \in DOMAIN metrics
        BY <1>1, TurnInRange DEF InTurn
    <2> HIDE DEF S
    <2> QED BY <1>1, <1>6, <2>1 DEF InTurn
<1>8. \A t \in S \cup {s} : Through(heap', metrics'[Cardinality(UpTo(t))]) = MetricAt(t)
    <2>1. Through(heap', metrics'[last]) = MetricAt(s)
        BY <1>5
    <2> HIDE DEF S, s, last
    <2> QED BY <1>3, <1>4, <1>7, <2>1
<1> QED BY <1>4, <1>5, <1>8

(* The slots in front of the new position have their metrics.              *)
LEMMA TurnKept ==
    ASSUME UNCHANGED input, IInv', NEW T, T = SlotsBefore(i', j'),
           Len(metrics') = Cardinality(T),
           \A t \in T : Through(heap', metrics'[Cardinality(UpTo(t))]) = MetricAt(t)
    PROVE  TurnInv'
<1>1. SlotsBefore(i, j)' = T
    BY SlotsFixed DEF SlotsBefore
<1>2. /\ \A t : UpTo(t)' = UpTo(t) /\ MetricAt(t)' = MetricAt(t)
    BY SlotsFixed
<1>3. \A t \in T : (View(metrics[Cardinality(UpTo(t))]) = MetricAt(t))'
    BY <1>2 DEF View
<1>4. InTurn(SlotsBefore(i, j))'
    BY <1>1, <1>3 DEF InTurn
<1> QED BY <1>4 DEF TurnInv

(* Nothing is appended where no slot is passed.                            *)
LEMMA TurnSkipped ==
    ASSUME TurnInv, IInv', UNCHANGED <<input, heap, metrics>>,
           SlotsBefore(i', j') = SlotsBefore(i, j)
    PROVE  TurnInv'
<1>1. \A t \in SlotsBefore(i, j) :
          Through(heap', metrics'[Cardinality(UpTo(t))]) = MetricAt(t)
    BY DEF TurnInv, InTurn, View
<1>2. Len(metrics') = Cardinality(SlotsBefore(i, j))
    BY DEF TurnInv, InTurn
<1> QED BY <1>1, <1>2, TurnKept

LEMMA TurnInit == Init => TurnInv
<1> SUFFICES ASSUME Init PROVE TurnInv
    OBVIOUS
<1>1. IInv /\ InputOK
    BY InitOK DEF IInv
<1>2. SlotsBefore(i, j) = {}
    BY <1>1, SlotsTyped DEF SlotsBefore, Init
<1>3. Len(metrics) = 0 /\ Cardinality({}) = 0
    BY FS_EmptySet DEF Init
<1> QED BY <1>1, <1>2, <1>3 DEF TurnInv, InTurn

LEMMA TurnStep == TurnInv /\ [Next]_vars => TurnInv'
<1> SUFFICES ASSUME TurnInv, [Next]_vars PROVE TurnInv'
    OBVIOUS
<1> DEFINE S == SlotsBefore(i, j)
<1>1. /\ IInv /\ IInv' /\ InputOK
      /\ i \in Nat \ {0} /\ j \in Nat \ {0} /\ j <= Len(order) + 1
      /\ j = 1 \/ (i \in Positions /\ batch[i].namespace.dynamic)
    BY StepOK DEF TurnInv, IInv
<1>2. \A t \in Slots : /\ t = <<t[1], t[2]>> /\ t[1] \in Positions
                       /\ t[1] \in Nat /\ t[2] \in Nat \ {0}
    BY <1>1, SlotsTyped
<1>4. ASSUME OtherService PROVE TurnInv'
    <2>1. UNCHANGED <<input, heap, metrics, j>> /\ i' = i + 1 /\ j = 1 /\ i \notin Positions
        BY <1>1, <1>4 DEF OtherService
    <2>2. SlotsBefore(i', j') = S
        BY <1>1, <1>2, <2>1 DEF SlotsBefore
    <2> QED BY <1>1, <2>1, <2>2, TurnSkipped
<1>5. ASSUME AppendInstance PROVE TurnInv'
    <2> DEFINE m == [array |-> Len(heap) + 1, source |-> HostFor(batch, service),
                     reading |-> listing]
    <2>1. /\ j \in DOMAIN order /\ HasValue(order[j], batch[i].namespace)
          /\ i \in Positions /\ batch[i].namespace.dynamic
          /\ UNCHANGED input /\ i' = i /\ j' = j + 1
        BY <1>5 DEF AppendInstance, Inner
    <2>2. <<i, j>> \in Slots
        BY <2>1 DEF Slots
    <2>3. SlotsBefore(i', j') = S \cup {<<i, j>>}
        BY <1>1, <1>2, <2>1, <2>2 DEF SlotsBefore
    <2>4. /\ m \in Appended /\ metrics' = Append(metrics, m)
          /\ \A k \in DOMAIN heap : heap'[k] = heap[k]
          /\ Through(heap', m) = [namespace |-> batch[i].namespace, instance |-> order[j],
                                  source |-> HostFor(batch, service), reading |-> listing]
        BY <1>1, <1>5, InstanceAppended
    <2>5. Through(heap', m) = MetricAt(<<i, j>>)
        BY <2>1, <2>4 DEF MetricAt
    <2>6. LET T == SlotsBefore(i, j) \cup {<<i, j>>}
          IN  /\ Len(metrics') = Cardinality(T)
              /\ \A t \in T : Through(heap', metrics'[Cardinality(UpTo(t))]) = MetricAt(t)
        <3> HIDE DEF m
        <3> QED BY <2>1, <2>2, <2>4, <2>5, TurnAppended
    <2> QED BY <1>1, <2>1, <2>3, <2>6, TurnKept
<1>6. ASSUME SkipInstance PROVE TurnInv'
    <2>1. /\ j \in DOMAIN order /\ ~ HasValue(order[j], batch[i].namespace)
          /\ batch[i].namespace.dynamic
          /\ UNCHANGED <<input, heap, metrics>> /\ i' = i /\ j' = j + 1
        BY <1>6 DEF SkipInstance, Inner
    <2>2. <<i, j>> \notin Slots
        BY <2>1 DEF Slots
    <2>3. SlotsBefore(i', j') = S
        BY <1>1, <1>2, <2>1, <2>2 DEF SlotsBefore
    <2> QED BY <1>1, <2>1, <2>3, TurnSkipped
<1>7. ASSUME EndInstances PROVE TurnInv'
    <2>1. /\ j \notin DOMAIN order /\ batch[i].namespace.dynamic
          /\ UNCHANGED <<input, heap, metrics>> /\ i' = i + 1 /\ j' = 1
        BY <1>7 DEF EndInstances
    <2>2. DOMAIN order = 1 .. Len(order) /\ Len(order) \in Nat
        BY <1>1, InstancesAssumption DEF InputOK, ListingOK
    <2>3. \A t \in Slots : t[1] = i => t[2] < j
        BY <1>1, <1>2, <2>1, <2>2 DEF Slots
    <2>4. SlotsBefore(i', j') = S
        BY <1>1, <1>2, <2>1, <2>3 DEF SlotsBefore
    <2> QED BY <1>1, <2>1, <2>4, TurnSkipped
<1>8. ASSUME AppendStatic PROVE TurnInv'
    <2> DEFINE m == [array |-> i, source |-> HostFor(batch, service), reading |-> snapshot]
    <2>1. /\ i \in Positions /\ ~ batch[i].namespace.dynamic /\ i \in DOMAIN batch
          /\ UNCHANGED <<input, heap>> /\ i' = i + 1 /\ j' = j /\ j = 1
          /\ metrics' = Append(metrics, m)
        BY <1>1, <1>8 DEF AppendStatic, Metrics, Looping
    <2>2. <<i, j>> \in Slots
        BY <2>1 DEF Slots
    <2>3. \A t \in Slots : t[1] = i => t = <<i, j>>
        BY <1>2, <2>1 DEF Slots
    <2>4. SlotsBefore(i', j') = S \cup {<<i, j>>}
        BY <1>1, <1>2, <2>1, <2>2, <2>3 DEF SlotsBefore
    <2>5. m \in Appended
        BY <1>1, HostTyped DEF Appended, InputOK
    <2>6. Through(heap', m) = MetricAt(<<i, j>>)
        BY <1>1, <2>1, RequestArray DEF Through, MetricAt
    <2>7. LET T == SlotsBefore(i, j) \cup {<<i, j>>}
          IN  /\ Len(metrics') = Cardinality(T)
              /\ \A t \in T : Through(heap', metrics'[Cardinality(UpTo(t))]) = MetricAt(t)
        <3> HIDE DEF m
        <3> QED BY <2>1, <2>2, <2>5, <2>6, TurnAppended
    <2> QED BY <1>1, <2>1, <2>4, <2>7, TurnKept
<1>9. ASSUME Stop \/ Return \/ UNCHANGED vars PROVE TurnInv'
    <2>1. UNCHANGED <<input, heap, i, j, metrics>>
        BY <1>9 DEF Stop, Return, vars
    <2> QED BY <1>1, <2>1, TurnSkipped
<1> QED BY <1>4, <1>5, <1>6, <1>7, <1>8, <1>9 DEF Next

(* For any batch, listing and documents the answer is in order: the n-th   *)
(* metric is that of the n-th slot.                                        *)
THEOREM InOrderHolds == Spec => []InOrder
<1>1. TurnInv => InOrder
    <2> SUFFICES ASSUME TurnInv, pc = "returned" PROVE InTurn(Slots)
        BY DEF InOrder
    <2>1. IInv /\ InputOK /\ i \in Nat \ {0} /\ i \notin DOMAIN batch
        BY DEF TurnInv, IInv
    <2>2. DOMAIN batch = 1 .. Len(batch) /\ Len(batch) \in Nat
        BY <2>1, BatchTyped
    <2>3. \A s \in Slots : s[1] < i
        BY <2>1, <2>2, SlotsTyped
    <2>4. SlotsBefore(i, j) = Slots
        BY <2>3 DEF SlotsBefore
    <2> QED BY <2>4 DEF TurnInv
<1> QED BY <1>1, TurnInit, TurnStep, PTL DEF Spec

-----------------------------------------------------------------------------
(* What RenderStep says of the input is what Rendering says of it.         *)
LEMMA SameRequests ==
    /\ Abstract!Wants(batch, service) <=> Wants(batch, service)
    /\ Abstract!Runs(batch, service, snapshot) <=> Runs(batch, service, snapshot)
    /\ \A k : Abstract!StopsAt(batch, service, snapshot, k)
                  <=> StopsAt(batch, service, snapshot, k)
    /\ \A k : Abstract!OutOfRange(batch[k].namespace) <=> OutOfRange(batch[k].namespace)
    /\ Abstract!RenderAll(batch, service, Abstract!HostFor(batch, service), snapshot, listing)
          = RenderAll(batch, service, HostFor(batch, service), snapshot, listing)
<1>1. /\ \A k : Abstract!OutOfRange(batch[k].namespace) <=> OutOfRange(batch[k].namespace)
      /\ \A k : Abstract!Stops(batch[k].namespace, snapshot)
                    <=> Stops(batch[k].namespace, snapshot)
      /\ Abstract!Requested(batch, service) = Requested(batch, service)
      /\ Abstract!HostFor(batch, service) = HostFor(batch, service)
    BY DEF Abstract!OutOfRange, OutOfRange, Abstract!Stops, Stops, Abstract!NotFound, NotFound,
           Abstract!Requested, Requested, Abstract!HostFor, HostFor,
           Abstract!Configured, Configured, Abstract!BatchConfig, BatchConfig
<1>2. \A k : Abstract!Rendered(batch[k].namespace, HostFor(batch, service), snapshot, listing)
               = Rendered(batch[k].namespace, HostFor(batch, service), snapshot, listing)
    BY DEF Abstract!Rendered, Rendered
<1> QED BY <1>1, <1>2 DEF Abstract!Wants, Wants, Abstract!Runs, Runs,
       Abstract!StopsAt, StopsAt, Abstract!RenderAll, RenderAll

(* For any request, documents and listing the two loops implement the one  *)
(* step: every step inside them is invisible, and the last one is an end   *)
(* that the whole request has.                                             *)
THEOREM IsOneStepHolds == Spec => IsOneStep
<1>1. Init => Abstract!Init
    BY SameRequests DEF Init, ListingOK, Abstract!Init, Abstract!Services, Services
<1>2. ASSUME IInv, RendersAll', [Next]_vars
      PROVE  [Abstract!Next]_<<Abstract!input, pc, IF pc = "returned" THEN Views ELSE {}>>
    <2>1. ASSUME OtherService \/ AppendInstance \/ SkipInstance \/ EndInstances \/ AppendStatic
          PROVE  UNCHANGED <<batch, service, snapshot, listing, pc>> /\ pc = "loop"
        BY <2>1 DEF OtherService, AppendInstance, SkipInstance, EndInstances, AppendStatic,
                    Inner, Looping, input
    <2>2. ASSUME Return PROVE Abstract!Return
        <3>1. /\ pc = "loop" /\ pc' = "returned"
              /\ UNCHANGED <<batch, service, snapshot, listing>>
            BY <2>2 DEF Return, input
        <3>2. /\ Views' = RenderAll(batch, service, HostFor(batch, service), snapshot, listing)
              /\ Runs(batch, service, snapshot)
            <4>1. /\ Views' = RenderAll(batch', service', HostFor(batch', service'),
                                        snapshot', listing')
                  /\ Runs(batch', service', snapshot')
                BY <1>2, <3>1 DEF RendersAll
            <4> QED BY <3>1, <4>1
        <3> QED BY <3>1, <3>2, SameRequests DEF Abstract!Return, Abstract!input
    <2>3. ASSUME Stop PROVE Abstract!Stop
        <3>1. /\ pc = "loop" /\ i \in DOMAIN batch /\ i \in Positions
              /\ Stops(batch[i].namespace, snapshot)
              /\ pc' = IF OutOfRange(batch[i].namespace) THEN "panicked" ELSE "error"
              /\ UNCHANGED <<batch, service, snapshot, listing>>
            BY <2>3 DEF Stop, Looping, input
        <3>2. StopsAt(batch, service, snapshot, i)
            BY <1>2, <3>1 DEF StopsAt, IInv, Positions
        <3> QED BY <3>1, <3>2, SameRequests DEF Abstract!Stop, Abstract!input
    <2>4. ASSUME UNCHANGED vars
          PROVE  UNCHANGED <<batch, service, snapshot, listing, pc, Views>>
        BY <2>4 DEF vars, input, Views, View, Through
    <2> QED BY <1>2, <2>1, <2>2, <2>3, <2>4 DEF Next, Abstract!Next, Abstract!input
<1> QED BY <1>1, <1>2, Invariant, RendersAllHolds, PTL DEF Spec, IsOneStep, Abstract!Spec
=============================================================================
