----------------------- MODULE AgentMetricTypesProofs -----------------------
(***************************************************************************)
(* Theorems about AgentMetricTypes, for any keys, patterns, events and     *)
(* flags that satisfy its assumptions.                                     *)
(***************************************************************************)
EXTENDS AgentMetricTypes, TLAPS

USE DEF Labels

(* The events of the fetched flags, or the one empty name, have a key.     *)
LEMMA PerfEventsKnown ==
    ASSUME TypeOK
    PROVE  PerfEvents \subseteq DOMAIN EventKey
BY EventsAssumption DEF TypeOK, Flags, PerfEvents

(* What is left after each filter depends on the fetched flags only.       *)
LEMMA SameFlags ==
    ASSUME fetched' = fetched
    PROVE  AfterPerf' = AfterPerf /\ AfterDisk' = AfterDisk /\ AfterNet' = AfterNet
<1>1. PerfEvents' = PerfEvents BY DEF PerfEvents
<1>2. AfterPerf' = AfterPerf BY <1>1 DEF AfterPerf
<1>3. AfterDisk' = AfterDisk BY <1>2 DEF AfterDisk
<1>4. AfterNet' = AfterNet BY <1>3 DEF AfterNet
<1> QED BY <1>2, <1>3, <1>4

LEMMA InitOK == Init => IInv
BY DEF Init, IInv, TypeOK

LEMMA StepOK == IInv /\ [Next]_vars => IInv'
<1> SUFFICES ASSUME IInv, [Next]_vars PROVE IInv'
    OBVIOUS
<1> USE DEF IInv, TypeOK
<1>1. CASE GetFlags
    BY <1>1 DEF GetFlags
<1>2. CASE GetFlagsFails
    BY <1>2 DEF GetFlagsFails
<1>3. CASE Perf
    <2>1. fetched' = fetched /\ pc' = "disk" /\ flags' = flags
        BY <1>3 DEF Perf
    <2>2. namespaces' = AfterPerf
        BY <1>3 DEF Perf, AfterPerf, deleteFromSlice
    <2>3. AfterPerf' = AfterPerf
        BY <2>1, SameFlags
    <2>4. AfterPerf \subseteq Keys \cup {EventKey[e] : e \in DOMAIN EventKey}
        BY PerfEventsKnown DEF AfterPerf
    <2> QED BY <2>1, <2>2, <2>3, <2>4
<1>4. CASE DiskStep
    <2>1. fetched' = fetched /\ pc' = "net" /\ flags' = flags
        BY <1>4 DEF DiskStep
    <2>2. namespaces' = AfterDisk
        BY <1>4 DEF DiskStep, AfterDisk, deleteFromSlice
    <2>3. AfterDisk' = AfterDisk
        BY <2>1, SameFlags
    <2>4. namespaces' \subseteq namespaces
        BY <1>4 DEF DiskStep, deleteFromSlice
    <2> QED BY <2>1, <2>2, <2>3, <2>4
<1>5. CASE NetStep
    <2>1. fetched' = fetched /\ pc' = "returned" /\ flags' = flags
        BY <1>5 DEF NetStep
    <2>2. namespaces' = AfterNet
        BY <1>5 DEF NetStep, AfterNet, deleteFromSlice
    <2>3. AfterNet' = AfterNet
        BY <2>1, SameFlags
    <2>4. namespaces' \subseteq namespaces
        BY <1>5 DEF NetStep, deleteFromSlice
    <2> QED BY <2>1, <2>2, <2>3, <2>4
<1>6. CASE Again
    BY <1>6 DEF Again
<1>7. CASE \E f \in Flags : Reconfigure(f)
    <2>1. fetched' = fetched /\ pc' = pc /\ namespaces' = namespaces /\ flags' \in Flags
        BY <1>7 DEF Reconfigure
    <2> QED BY <2>1, SameFlags
<1>8. CASE UNCHANGED vars
    <2>1. fetched' = fetched /\ pc' = pc /\ namespaces' = namespaces /\ flags' = flags
        BY <1>8 DEF vars
    <2> QED BY <2>1, SameFlags
<1> QED BY <1>1, <1>2, <1>3, <1>4, <1>5, <1>6, <1>7, <1>8 DEF Next

(* What each filter leaves is what the fetched flags say, in every         *)
(* execution.                                                              *)
THEOREM Invariant == Spec => []IInv
BY InitOK, StepOK, PTL DEF Spec

-----------------------------------------------------------------------------
(* An event's key is no key of a disk or a network metric. *)
LEMMA EventsSurvive ==
    ASSUME NEW e \in PerfEvents, IInv
    PROVE  EventKey[e] \notin MatchDisk \cup MatchNet
BY PerfEventsKnown, EventsAssumption DEF IInv

LEMMA SuppliedFollows == ASSUME IInv, OneName PROVE SuppliedIsListed
<1> SUFFICES ASSUME pc = "returned", NEW k \in Supplied(fetched) \ PerfSample
             PROVE  k \in AfterNet
    BY DEF SuppliedIsListed, IInv
<1>1. CASE k \in Keys \ MatchPerf
    <2>1. k \in AfterPerf
        BY <1>1 DEF AfterPerf
    <2>2. k \in MatchDisk => "posix/disk" \in fetched.isolation
        BY <1>1, PatternsAssumption, EventsAssumption
        DEF Supplied, OneName, IInv, TypeOK, Flags
    <2>3. k \in MatchNet => "network/port_mapping" \in fetched.isolation
        BY <1>1, PatternsAssumption, EventsAssumption
        DEF Supplied, OneName, IInv, TypeOK, Flags
    <2> QED BY <2>1, <2>2, <2>3 DEF AfterDisk, AfterNet
<1>2. CASE k \notin Keys \ MatchPerf
    <2>1. /\ "cgroups/perf_event" \in fetched.isolation
          /\ \E e \in fetched.perf_events : k = PerfKey[e]
        BY <1>2, PatternsAssumption DEF Supplied
    <2>2. PICK e \in fetched.perf_events : k = PerfKey[e]
        BY <2>1
    <2>3. e \in PerfEvents /\ k = EventKey[e]
        BY <2>2, OneName, EventsAssumption DEF PerfEvents, IInv, TypeOK, Flags, OneName
    <2>4. k \in AfterPerf
        BY <2>1, <2>3 DEF AfterPerf
    <2>5. k \notin MatchDisk \cup MatchNet
        BY <2>3, EventsSurvive
    <2> QED BY <2>4, <2>5 DEF AfterDisk, AfterNet
<1> QED BY <1>1, <1>2

(* If every event has one name, all that the executors may carry with the  *)
(* fetched flags is listed.                                                *)
THEOREM SuppliedIsListedHolds == ASSUME OneName PROVE Spec => []SuppliedIsListed
BY Invariant, SuppliedFollows, PTL
=============================================================================
