--------------------------- MODULE StatisticsProofs ---------------------------
(***************************************************************************)
(* Theorems about Statistics: for the generated structure as it is, any    *)
(* isolators, events and flags and any order of decoding, what is          *)
(* collected of an executor is what its response held.                     *)
(***************************************************************************)
EXTENDS Statistics, AgentMetricTypesProofs, SequenceTheorems

-----------------------------------------------------------------------------
(* The field that was put into a message, and its other fields, as a lookup*)
(* sees them.                                                              *)
LEMMA PutField ==
    ASSUME NEW m, NEW f, NEW x
    PROVE  In({Put(m, f, x)}, f) = {x}
<1> DEFINE n == Put(m, f, x)
<1>1. f \in DOMAIN n /\ n[f] = x
    BY DEF Put, @@, :>
<1> HIDE DEF n
<1>2. In({n}, f) = {x}
    BY <1>1 DEF In
<1> QED BY <1>2 DEF n

LEMMA PutOther ==
    ASSUME NEW m, NEW f, NEW x, NEW g, g # f
    PROVE  In({Put(m, f, x)}, g) = In({m}, g)
<1> DEFINE n == Put(m, f, x)
<1>1. /\ g \in DOMAIN n <=> g \in DOMAIN m
      /\ g \in DOMAIN m => n[g] = m[g]
    BY DEF Put, @@, :>
<1> HIDE DEF n
<1>2. In({n}, g) = In({m}, g)
    BY <1>1 DEF In
<1> QED BY <1>2 DEF n

(* A message that is not there is looked up like an empty one. *)
LEMMA InChild ==
    ASSUME NEW m, NEW f, NEW g
    PROVE  In({Child(m, f)}, g) = In(In({m}, f), g)
<1>1. CASE f \in DOMAIN m
    BY <1>1 DEF In, Child
<1>2. CASE f \notin DOMAIN m
    BY <1>2 DEF In, Child, EmptyMessage
<1> QED BY <1>1, <1>2

(* The paths that may be looked up: a key of the structure ends where no   *)
(* message is; one name more or less is no path.                           *)
One(type, k) == \E f \in Leaves(type) : k = <<f>>
Two(type, k) == \E f \in Branches(type) : \E g :
                    g \notin Branches(Below(type, f)) /\ k = <<f, g>>
Three(type, k) == \E f \in Branches(type) : \E g \in Branches(Below(type, f)) : \E h :
                      k = <<f, g, h>>
IsPath(type, k) == One(type, k) \/ Two(type, k) \/ Three(type, k)

(* A field either ends a path or leads on. *)
LEMMA Disjoint == ASSUME NEW type PROVE Leaves(type) \cap Branches(type) = {}
BY DEF Leaves, Branches

LEMMA KeysArePaths ==
    ASSUME NEW type, NEW k \in FromCompositeObject(type)
    PROVE  IsPath(type, k)
<1>1. \/ \E f \in Leaves(type) : k = <<f>>
      \/ \E f \in Branches(type) : \E g \in Leaves(Below(type, f)) : k = <<f, g>>
      \/ \E f \in Branches(type) : \E g \in Branches(Below(type, f)) :
            \E h \in Leaves(Below(Below(type, f), g)) : k = <<f, g, h>>
    BY DEF FromCompositeObject
<1> QED BY <1>1, Disjoint DEF IsPath, One, Two, Three

(* A lookup goes down one field for each name. *)
LEMMA LookupOne ==
    ASSUME NEW m, NEW f
    PROVE  GetValueByNamespace(m, <<f>>) = In({m}, f)
BY DEF GetValueByNamespace

LEMMA LookupTwo ==
    ASSUME NEW m, NEW f, NEW g
    PROVE  GetValueByNamespace(m, <<f, g>>) = In(In({m}, f), g)
BY DEF GetValueByNamespace

LEMMA LookupThree ==
    ASSUME NEW m, NEW f, NEW g, NEW h
    PROVE  GetValueByNamespace(m, <<f, g, h>>) = In(In(In({m}, f), g), h)
BY DEF GetValueByNamespace

(* A field that is set changes what is found by a path that leads through  *)
(* it, and by no other.                                                    *)
LEMMA LookupElsewhere ==
    ASSUME NEW m, NEW f, NEW x, NEW type, NEW k, IsPath(type, k), k[1] # f
    PROVE  GetValueByNamespace(Put(m, f, x), k) = GetValueByNamespace(m, k)
<1>1. PICK f1, g1, h1 : k \in {<<f1>>, <<f1, g1>>, <<f1, g1, h1>>}
    BY DEF IsPath, One, Two, Three
<1>2. f1 # f
    BY <1>1
<1>3. In({Put(m, f, x)}, f1) = In({m}, f1)
    BY <1>2, PutOther
<1> QED BY <1>1, <1>3, LookupOne, LookupTwo, LookupThree

(* A child that is set: its fields are found behind its name.              *)
LEMMA LookupPut ==
    ASSUME NEW m, NEW f, NEW c
    PROVE  GetValueByNamespace(Put(m, f, c), <<f>>) = {c}
<1> DEFINE n == Put(m, f, c)
<1>1. In({n}, f) = {c}
    BY PutField
<1> HIDE DEF n
<1>2. GetValueByNamespace(n, <<f>>) = {c}
    BY <1>1, LookupOne
<1> QED BY <1>2 DEF n

LEMMA LookupThrough ==
    ASSUME NEW m, NEW f, NEW c, NEW g
    PROVE  GetValueByNamespace(Put(m, f, c), <<f, g>>) = In({c}, g)
<1> DEFINE n == Put(m, f, c)
<1>1. In({n}, f) = {c}
    BY PutField
<1> HIDE DEF n
<1>2. GetValueByNamespace(n, <<f, g>>) = In({c}, g)
    BY <1>1, LookupTwo
<1> QED BY <1>2 DEF n

LEMMA LookupFarther ==
    ASSUME NEW m, NEW f, NEW c, NEW g, NEW h
    PROVE  GetValueByNamespace(Put(m, f, c), <<f, g, h>>) = In(In({c}, g), h)
<1> DEFINE n == Put(m, f, c)
<1>1. In({n}, f) = {c}
    BY PutField
<1> HIDE DEF n
<1>2. GetValueByNamespace(n, <<f, g, h>>) = In(In({c}, g), h)
    BY <1>1, LookupThree
<1> QED BY <1>2 DEF n

(* Decoding a number puts it where its path is looked up, and changes what *)
(* no other path finds.                                                    *)
LEMMA Decoded ==
    ASSUME NEW m, NEW type, NEW p, IsPath(type, p), NEW v, NEW k, IsPath(type, k)
    PROVE  GetValueByNamespace(With(m, p, v), k)
              = IF k = p THEN {v} ELSE GetValueByNamespace(m, k)
<1>1. CASE One(type, p)
    <2>1. PICK f \in Leaves(type) : p = <<f>>
        BY <1>1 DEF One
    <2>2. With(m, p, v) = Put(m, f, v)
        BY <2>1 DEF With
    <2>3. CASE k[1] = f
        <3>1. f \notin Branches(type)
            BY Disjoint
        <3>2. k = <<f>>
            BY <2>3, <3>1 DEF IsPath, One, Two, Three
        <3>3. GetValueByNamespace(Put(m, f, v), <<f>>) = {v}
            BY LookupPut
        <3> QED BY <2>1, <2>2, <3>2, <3>3
    <2>4. CASE k[1] # f
        <3>1. k # p
            BY <2>1, <2>4
        <3> QED BY <2>2, <2>4, <3>1, LookupElsewhere
    <2> QED BY <2>3, <2>4
<1>2. CASE Two(type, p)
    <2>1. PICK f \in Branches(type) : \E g :
              g \notin Branches(Below(type, f)) /\ p = <<f, g>>
        BY <1>2 DEF Two
    <2>2. PICK g : g \notin Branches(Below(type, f)) /\ p = <<f, g>>
        BY <2>1
    <2> DEFINE c == Put(Child(m, f), g, v)
    <2>3. With(m, p, v) = Put(m, f, c)
        BY <2>2 DEF With
    <2>4. In({c}, g) = {v}
        BY PutField
    <2>5. ASSUME NEW g1, g1 # g PROVE In({c}, g1) = In(In({m}, f), g1)
        <3>1. In({c}, g1) = In({Child(m, f)}, g1)
            BY <2>5, PutOther
        <3> QED BY <3>1, InChild
    <2> HIDE DEF c
    <2>6. CASE k[1] = f
        <3>1. ~ One(type, k)
            BY <2>6, Disjoint DEF One
        <3>2. ASSUME NEW g1, k = <<f, g1>>
              PROVE  GetValueByNamespace(Put(m, f, c), k)
                        = IF k = p THEN {v} ELSE GetValueByNamespace(m, k)
            <4>1. GetValueByNamespace(Put(m, f, c), k) = In({c}, g1)
                BY <3>2, LookupThrough
            <4>2. GetValueByNamespace(m, k) = In(In({m}, f), g1)
                BY <3>2, LookupTwo
            <4>3. k = p <=> g1 = g
                BY <2>2, <3>2
            <4> QED BY <2>4, <2>5, <4>1, <4>2, <4>3
        <3>3. ASSUME NEW g1 \in Branches(Below(type, f)), NEW h1, k = <<f, g1, h1>>
              PROVE  GetValueByNamespace(Put(m, f, c), k)
                        = IF k = p THEN {v} ELSE GetValueByNamespace(m, k)
            <4>1. GetValueByNamespace(Put(m, f, c), k) = In(In({c}, g1), h1)
                BY <3>3, LookupFarther
            <4>2. GetValueByNamespace(m, k) = In(In(In({m}, f), g1), h1)
                BY <3>3, LookupThree
            <4>3. g1 # g /\ k # p
                BY <2>2, <3>3
            <4>4. In({c}, g1) = In(In({m}, f), g1)
                BY <2>5, <4>3
            <4> QED BY <4>1, <4>2, <4>3, <4>4
        <3> QED BY <2>3, <2>6, <3>1, <3>2, <3>3 DEF IsPath, Two, Three
    <2>7. CASE k[1] # f
        <3>1. k # p
            BY <2>2, <2>7
        <3> QED BY <2>3, <2>7, <3>1, LookupElsewhere
    <2> QED BY <2>6, <2>7
<1>3. CASE Three(type, p)
    <2>1. PICK f \in Branches(type) : \E g \in Branches(Below(type, f)) : \E h :
              p = <<f, g, h>>
        BY <1>3 DEF Three
    <2>2. PICK g \in Branches(Below(type, f)) : \E h : p = <<f, g, h>>
        BY <2>1
    <2>3. PICK h : p = <<f, g, h>>
        BY <2>2
    <2> DEFINE b == Child(m, f)
               d == Put(Child(b, g), h, v)
               c == Put(b, g, d)
    <2>4. With(m, p, v) = Put(m, f, c)
        BY <2>3 DEF With
    <2>5. \A g1 : In({b}, g1) = In(In({m}, f), g1)
        BY InChild
    <2> HIDE DEF b
    <2>6. In({d}, h) = {v}
        BY PutField
    <2>7. ASSUME NEW h1, h1 # h PROVE In({d}, h1) = In(In(In({m}, f), g), h1)
        <3>1. In({d}, h1) = In({Child(b, g)}, h1)
            BY <2>7, PutOther
        <3>2. In({Child(b, g)}, h1) = In(In({b}, g), h1)
            BY InChild
        <3> QED BY <2>5, <3>1, <3>2
    <2> HIDE DEF d
    <2>8. In({c}, g) = {d}
        BY PutField
    <2>9. ASSUME NEW g1, g1 # g PROVE In({c}, g1) = In(In({m}, f), g1)
        BY <2>5, <2>9, PutOther
    <2> HIDE DEF c
    <2>10. CASE k[1] = f
        <3>1. ~ One(type, k)
            BY <2>10, Disjoint DEF One
        <3>2. ASSUME NEW g1, g1 \notin Branches(Below(type, f)), k = <<f, g1>>
              PROVE  GetValueByNamespace(Put(m, f, c), k)
                        = IF k = p THEN {v} ELSE GetValueByNamespace(m, k)
            <4>1. GetValueByNamespace(Put(m, f, c), k) = In({c}, g1)
                BY <3>2, LookupThrough
            <4>2. GetValueByNamespace(m, k) = In(In({m}, f), g1)
                BY <3>2, LookupTwo
            <4>3. g1 # g /\ k # p
                BY <2>3, <3>2
            <4> QED BY <2>9, <4>1, <4>2, <4>3
        <3>3. ASSUME NEW g1, NEW h1, k = <<f, g1, h1>>
              PROVE  GetValueByNamespace(Put(m, f, c), k)
                        = IF k = p THEN {v} ELSE GetValueByNamespace(m, k)
            <4>1. GetValueByNamespace(Put(m, f, c), k) = In(In({c}, g1), h1)
                BY <3>3, LookupFarther
            <4>2. GetValueByNamespace(m, k) = In(In(In({m}, f), g1), h1)
                BY <3>3, LookupThree
            <4>3. k = p <=> g1 = g /\ h1 = h
                BY <2>3, <3>3
            <4>4. CASE g1 = g
                BY <2>6, <2>7, <2>8, <4>1, <4>2, <4>3, <4>4
            <4>5. CASE g1 # g
                <5>1. In({c}, g1) = In(In({m}, f), g1)
                    BY <2>9, <4>5
                <5> QED BY <4>1, <4>2, <4>3, <4>5, <5>1
            <4> QED BY <4>4, <4>5
        <3> QED BY <2>4, <2>10, <3>1, <3>2, <3>3 DEF IsPath, Two, Three
    <2>11. CASE k[1] # f
        <3>1. k # p
            BY <2>3, <2>11
        <3> QED BY <2>4, <2>11, <3>1, LookupElsewhere
    <2> QED BY <2>10, <2>11
<1> QED BY <1>1, <1>2, <1>3 DEF IsPath

(* An object without data changes what no path finds. *)
LEMMA EmptyObjectAddsNothing ==
    ASSUME NEW m, NEW type, NEW f \in Branches(type), NEW k, IsPath(type, k)
    PROVE  GetValueByNamespace(Put(m, f, Child(m, f)), k) = GetValueByNamespace(m, k)
<1> DEFINE c == Child(m, f)
<1>1. \A g : In({c}, g) = In(In({m}, f), g)
    BY InChild
<1> HIDE DEF c
<1>2. CASE k[1] = f
    <2>1. ~ One(type, k)
        BY <1>2, Disjoint DEF One
    <2>2. PICK g, h : k \in {<<f, g>>, <<f, g, h>>}
        BY <1>2, <2>1 DEF IsPath, Two, Three
    <2>3. CASE k = <<f, g>>
        BY <1>1, <2>3, LookupThrough, LookupTwo DEF c
    <2>4. CASE k = <<f, g, h>>
        BY <1>1, <2>4, LookupFarther, LookupThree DEF c
    <2> QED BY <2>2, <2>3, <2>4
<1>3. CASE k[1] # f
    BY <1>3, LookupElsewhere
<1> QED BY <1>2, <1>3

-----------------------------------------------------------------------------
(* A perf sample holds numbers only: no path goes on below one.            *)
Numeric(F) == \A f \in DOMAIN F : F[f].kind = "number"

LEMMA NumericTogether ==
    ASSUME NEW F, NEW G, Numeric(F), Numeric(G)
    PROVE  Numeric(F @@ G)
BY DEF Numeric, @@

LEMMA NumericFields == ASSUME NEW F PROVE Numeric(Numbers(F))
BY DEF Numeric, Numbers, Number

LEMMA PerfNumeric == Numeric(PerfStatistics.fields)
<1>1. /\ Numeric(SampleTime) /\ Numeric(HardwareEvents) /\ Numeric(SoftwareEvents)
      /\ Numeric(CacheEvents) /\ Numeric(TranslationEvents)
    BY NumericFields
    DEF SampleTime, HardwareEvents, SoftwareEvents, CacheEvents, TranslationEvents
<1> QED BY <1>1, NumericTogether DEF PerfStatistics, Message

(* The list of traffic controls is no part of a path. *)
LEMMA TrafficControlIsAList ==
    "net_traffic_control_statistics" \notin Leaves(ResourceStatistics)
                                             \cup Branches(ResourceStatistics)
<1> DEFINE f == "net_traffic_control_statistics"
<1>1. /\ f \notin DOMAIN Usage /\ f \notin DOMAIN Memory /\ f \notin DOMAIN Disk
      /\ f \notin DOMAIN Interface /\ f \notin DOMAIN Connections
    BY DEF Usage, Memory, Disk, Interface, Connections, Numbers
<1>2. TrafficAndSNMP[f].kind = "list"
    BY DEF TrafficAndSNMP, ListOf, @@, :>
<1>3. f \in DOMAIN TrafficAndSNMP
    BY DEF TrafficAndSNMP, @@, :>
<1>4. ResourceStatistics.fields[f].kind = "list"
    BY <1>1, <1>2, <1>3 DEF ResourceStatistics, Message, @@
<1> QED BY <1>4 DEF Leaves, Branches

LEMMA TrafficControlElsewhere ==
    ASSUME NEW k, IsPath(ResourceStatistics, k)
    PROVE  k[1] # "net_traffic_control_statistics"
BY TrafficControlIsAList DEF IsPath, One, Two, Three

(* Any name below perf may be looked up.                                   *)
LEMMA EventsArePaths == ASSUME NEW x PROVE IsPath(ResourceStatistics, <<"perf", x>>)
<1>1. /\ "perf" \notin DOMAIN Usage /\ "perf" \notin DOMAIN Memory
      /\ "perf" \notin DOMAIN Disk /\ "perf" \notin DOMAIN Interface
      /\ "perf" \notin DOMAIN Connections
    BY DEF Usage, Memory, Disk, Interface, Connections, Numbers
<1>2. "perf" \notin DOMAIN TrafficAndSNMP
    BY DEF TrafficAndSNMP, @@, :>
<1>3. /\ "perf" \in DOMAIN ResourceStatistics.fields
      /\ ResourceStatistics.fields["perf"] = PerfStatistics
    BY <1>1, <1>2 DEF ResourceStatistics, Message, @@, :>
<1>4. "perf" \in Branches(ResourceStatistics)
    BY <1>3 DEF Branches, PerfStatistics, Message
<1>5. Branches(PerfStatistics) = {}
    BY PerfNumeric DEF Branches, Numeric
<1> QED BY <1>3, <1>4, <1>5 DEF IsPath, Two, Below

(* The namespaces that are looked up are paths of the structure.           *)
LEMMA LookedUp ==
    ASSUME IInv, NEW k \in Keys \cup namespaces
    PROVE  IsPath(ResourceStatistics, k)
<1>1. CASE k \in Keys
    BY <1>1, KeysAssumption, KeysArePaths
<1>2. CASE k \notin Keys
    <2>1. PICK e \in DOMAIN EventKey : k = EventKey[e]
        BY <1>2 DEF IInv, TypeOK
    <2>2. k = <<"perf", EventKey[e][2]>>
        BY <2>1, EventNamesAssumption
    <2> QED BY <2>2, EventsArePaths
<1> QED BY <1>1, <1>2

(* Strings()[5:] undoes what the catalog put before a key.                 *)
LEMMA Stripped ==
    ASSUME NEW type, NEW k, IsPath(type, k)
    PROVE  SubSeq(AgentNamespace(k), 6, Len(AgentNamespace(k))) = k
<1>1. PICK f, g, h : k \in {<<f>>, <<f, g>>, <<f, g, h>>}
    BY DEF IsPath, One, Two, Three
<1> DEFINE prefix == <<"intel", "mesos", "agent", "*", "*">>
           S == {f, g, h, "intel", "mesos", "agent", "*"}
           rest == SubSeq(prefix \o k, 6, Len(prefix \o k))
<1>2. k \in Seq(S) /\ Len(k) \in 1 .. 3
    <2>1. CASE k = <<f>>
        BY <2>1
    <2>2. CASE k = <<f, g>>
        BY <2>2
    <2>3. CASE k = <<f, g, h>>
        BY <2>3
    <2> QED BY <1>1, <2>1, <2>2, <2>3
<1>3. prefix \in Seq(S) /\ Len(prefix) = 5
    OBVIOUS
<1> HIDE DEF prefix, S
<1>4. /\ prefix \o k \in Seq(S)
      /\ Len(prefix \o k) = 5 + Len(k)
      /\ \A i \in 6 .. 5 + Len(k) : (prefix \o k)[i] = k[i - 5]
    <2>1. /\ prefix \o k \in Seq(S)
          /\ Len(prefix \o k) = Len(prefix) + Len(k)
          /\ \A i \in 1 .. Len(prefix) + Len(k) :
                (prefix \o k)[i] = IF i <= Len(prefix) THEN prefix[i]
                                   ELSE k[i - Len(prefix)]
        BY <1>2, <1>3, ConcatProperties
    <2> QED BY <1>2, <1>3, <2>1
<1>5. \A i \in 6 .. 5 + Len(k) : (prefix \o k)[i] \in S
    BY <1>2, <1>4
<1>6. /\ rest \in Seq(S)
      /\ Len(rest) = Len(k)
      /\ \A i \in 1 .. Len(k) : rest[i] = (prefix \o k)[5 + i]
    BY <1>2, <1>4, <1>5, SubSeqProperties
<1> HIDE DEF rest
<1>7. \A i \in 1 .. Len(k) : rest[i] = k[i]
    BY <1>2, <1>4, <1>6
<1>8. rest = k
    BY <1>2, <1>6, <1>7, SeqEqual
<1> QED BY <1>8 DEF rest, prefix, AgentNamespace

-----------------------------------------------------------------------------
(* Decoding moves nothing in the agent's catalog: what the catalog's       *)
(* theorems say of Spec holds of StatisticsSpec.                           *)
THEOREM CatalogStays == StatisticsSpec => Spec
<1>1. StatisticsInit => Init
    BY DEF StatisticsInit
<1>2. [StatisticsNext]_<<vars, readings>> => [Next]_vars
    BY DEF StatisticsNext, CatalogMoves, GetMonitoringStatistics, Decode,
           DecodeEmptyObject, DecodeTrafficControl
<1> QED BY <1>1, <1>2, PTL DEF StatisticsSpec, Spec

(* The inductive invariant: every path of the structure, listed or not,    *)
(* finds the number that was sent for it.                                  *)
SentInv ==
    \A k : IsPath(ResourceStatistics, k) =>
        GetValueByNamespace(statistics, k) = In({sent}, k)

LEMMA NothingFound ==
    ASSUME NEW type, NEW k, IsPath(type, k)
    PROVE  GetValueByNamespace(EmptyMessage, k) = {}
<1>1. PICK f, g, h : k \in {<<f>>, <<f, g>>, <<f, g, h>>}
    BY DEF IsPath, One, Two, Three
<1>2. In({EmptyMessage}, f) = {}
    BY DEF In, EmptyMessage
<1>3. In({}, g) = {} /\ In({}, h) = {}
    BY DEF In
<1> QED BY <1>1, <1>2, <1>3, LookupOne, LookupTwo, LookupThree

LEMMA NewIsSent == NewVariable => SentInv'
<1> SUFFICES ASSUME NewVariable, NEW k, IsPath(ResourceStatistics, k)
             PROVE  GetValueByNamespace(statistics', k) = In({sent'}, k)
    BY DEF SentInv
<1>1. GetValueByNamespace(statistics', k) = {}
    BY NothingFound DEF NewVariable, Reset
<1>2. In({sent'}, k) = {}
    BY DEF NewVariable, In
<1> QED BY <1>1, <1>2

LEMMA StatisticsInitOK == StatisticsInit => SentInv
<1> SUFFICES ASSUME StatisticsInit, NEW k, IsPath(ResourceStatistics, k)
             PROVE  GetValueByNamespace(statistics, k) = In({sent}, k)
    BY DEF SentInv
<1>1. GetValueByNamespace(statistics, k) = {}
    BY NothingFound DEF StatisticsInit, Reset
<1>2. In({sent}, k) = {}
    BY DEF StatisticsInit, In
<1> QED BY <1>1, <1>2

LEMMA StatisticsStepOK ==
    SentInv /\ [StatisticsNext]_<<vars, readings>> => SentInv'
<1> SUFFICES ASSUME SentInv, [StatisticsNext]_<<vars, readings>> PROVE SentInv'
    OBVIOUS
<1>1. CASE NewVariable
    BY <1>1, NewIsSent
<1>2. ASSUME NEW path \in Paths, NEW v, Decode(path, v) PROVE SentInv'
    <2> SUFFICES ASSUME NEW k, IsPath(ResourceStatistics, k)
                 PROVE  GetValueByNamespace(statistics', k) = In({sent'}, k)
        BY DEF SentInv
    <2>1. IsPath(ResourceStatistics, path)
        BY PathsAssumption, KeysAssumption, KeysArePaths
    <2>2. GetValueByNamespace(statistics', k)
              = IF k = path THEN {v} ELSE GetValueByNamespace(statistics, k)
        BY <1>2, <2>1, Decoded DEF Decode
    <2>3. sent' = Put(sent, path, v)
        BY <1>2 DEF Decode
    <2>4. CASE k = path
        BY <2>2, <2>3, <2>4, PutField
    <2>5. CASE k # path
        <3>1. In({sent'}, k) = In({sent}, k)
            BY <2>3, <2>5, PutOther
        <3> QED BY <2>2, <2>5, <3>1 DEF SentInv
    <2> QED BY <2>4, <2>5
<1>3. ASSUME NEW f \in Branches(ResourceStatistics), DecodeEmptyObject(f) PROVE SentInv'
    <2> SUFFICES ASSUME NEW k, IsPath(ResourceStatistics, k)
                 PROVE  GetValueByNamespace(statistics', k) = In({sent'}, k)
        BY DEF SentInv
    <2>1. GetValueByNamespace(statistics', k) = GetValueByNamespace(statistics, k)
        BY <1>3, EmptyObjectAddsNothing DEF DecodeEmptyObject
    <2> QED BY <1>3, <2>1 DEF SentInv, DecodeEmptyObject
<1>4. CASE DecodeTrafficControl
    <2> SUFFICES ASSUME NEW k, IsPath(ResourceStatistics, k)
                 PROVE  GetValueByNamespace(statistics', k) = In({sent'}, k)
        BY DEF SentInv
    <2>1. k[1] # "net_traffic_control_statistics"
        BY TrafficControlElsewhere
    <2>2. GetValueByNamespace(statistics', k) = GetValueByNamespace(statistics, k)
        BY <1>4, <2>1, LookupElsewhere DEF DecodeTrafficControl
    <2> QED BY <1>4, <2>2 DEF SentInv, DecodeTrafficControl
<1>5. CASE UNCHANGED <<vars, readings>>
    BY <1>5 DEF SentInv, readings
<1> QED
    BY <1>1, <1>2, <1>3, <1>4, <1>5
    DEF StatisticsNext, CatalogMoves, GetMonitoringStatistics

(* What is collected of an executor is what its response held, in every    *)
(* execution.                                                              *)
THEOREM CollectedIsSentHolds == StatisticsSpec => []CollectedIsSent
<1>1. IInv /\ SentInv => CollectedIsSent
    <2> SUFFICES ASSUME IInv, SentInv, NEW k \in Keys \cup namespaces
                 PROVE  Collected(AgentNamespace(k)) = In({sent}, k)
        BY DEF CollectedIsSent
    <2>1. IsPath(ResourceStatistics, k)
        BY LookedUp
    <2>2. Collected(AgentNamespace(k)) = GetValueByNamespace(statistics, k)
        BY <2>1, Stripped DEF Collected
    <2> QED BY <2>1, <2>2 DEF SentInv
<1>2. StatisticsSpec => []SentInv
    BY StatisticsInitOK, StatisticsStepOK, PTL DEF StatisticsSpec
<1> QED BY <1>1, <1>2, CatalogStays, Invariant, PTL
=============================================================================
