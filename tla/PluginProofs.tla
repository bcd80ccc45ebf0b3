---------------------------- MODULE PluginProofs ----------------------------
(***************************************************************************)
(* Theorems about Plugin: all that CollectorProofs and CollectorRefinement *)
(* say of the calls holds for a plugin that is loaded while hosts change   *)
(* and fail, its catalog is whole, and a call that asks for what a fresh   *)
(* catalog lists has no error for it.                                      *)
(***************************************************************************)
EXTENDS Plugin, CollectorRefinement

-----------------------------------------------------------------------------
(* The calls of a loaded plugin are calls of Collector.                    *)
LEMMA StepCollects == PluginNext => [Next]_vars
<1> SUFFICES ASSUME PluginNext PROVE Next \/ UNCHANGED vars
    OBVIOUS
<1>1. CASE (\E cfg \in Loads : Load(cfg)) \/ LoadStep
    BY <1>1 DEF Load, LoadStep, MasterTypes, AgentTypes, StatisticsTypes, LoadFails
<1>2. CASE \E c \in Calls, b \in Batches : Collect(c, b)
    BY <1>2 DEF Collect, Next
<1>3. CASE CollectorMoves
    BY <1>3 DEF CollectorMoves, Next
<1>4. CASE ClusterMovesOn
    BY <1>4 DEF ClusterMovesOn, Next
<1>5. CASE \E a \in Agents, o \in Offers : Reconfigure(a, o)
    BY <1>5 DEF Reconfigure
<1> QED BY <1>1, <1>2, <1>3, <1>4, <1>5 DEF PluginNext

(* Every theorem about Collector holds of the plugin: the catalog only     *)
(* narrows what it is asked.                                               *)
THEOREM StillCollects == PluginSpec => Spec
<1>1. PluginInit => Init
    BY DEF PluginInit
<1>2. [PluginNext]_pluginVars => [Next]_vars
    BY StepCollects DEF pluginVars
<1> QED BY <1>1, <1>2, PTL DEF PluginSpec, Spec

(* The calls of the plugin keep the promise of Collection.                 *)
THEOREM PluginKeepsPromise == PluginSpec => Promise
BY StillCollects, PromiseKept, PTL

-----------------------------------------------------------------------------
(* An error is excused when it is given, and stays so.                     *)
LEMMA ErrorsStayExcused ==
    ASSUME IInv, IInv', [Next]_vars, ErrorsExcused
    PROVE  ErrorsExcused'
<1> SUFFICES ASSUME NEW c \in Calls, reply'[c] = Error PROVE Excused(c)'
    BY DEF ErrorsExcused
<1>1. Abstract!Next \/ UNCHANGED Abstract!vars
    BY NextImplements
<1>2. Error # NoReply /\ Error # Lost /\ \A M : OK(M) # Error
    BY DEF Error, NoReply, Lost, OK
<1>3. ASSUME UNCHANGED <<batch, troubled, told, held>>, Excused(c)
      PROVE  Excused(c)'
    BY <1>3 DEF Excused
<1>4. reply[c] = Error => Excused(c)
    BY DEF ErrorsExcused
<1>5. CASE UNCHANGED Abstract!vars
    BY <1>3, <1>4, <1>5 DEF Abstract!vars, Abstract!history
<1>6. CASE \E d \in Calls, b \in Batches : Abstract!Invoke(d, b)
    <2>1. PICK d \in Calls, b \in Batches : Abstract!Invoke(d, b)
        BY <1>6
    <2>2. d # c /\ reply'[c] = reply[c]
        BY <1>2, <2>1, SameRequests DEF Abstract!Invoke, IInv, TypeOK, CallsTypeOK
    <2>3. /\ batch'[c] = batch[c] /\ told'[c] = told[c] /\ held'[c] = held[c]
          /\ troubled'[c] = troubled[c]
        BY <2>1, <2>2 DEF Abstract!Invoke, Abstract!Open, IInv, TypeOK, CallsTypeOK
    <2> QED BY <1>4, <2>2, <2>3 DEF Excused
<1>7. CASE \E d \in Calls : Abstract!Answer(d)
    <2>1. PICK d \in Calls : Abstract!Answer(d)
        BY <1>7
    <2>2. UNCHANGED <<batch, troubled, told, held>>
        BY <2>1 DEF Abstract!Answer, Abstract!history
    <2>3. Excused(c)
        <3>1. CASE c = d
            <4>1. Answers(c, Error)
                BY <2>1, <3>1, SameAnswers DEF Abstract!Answer
            <4> QED BY <1>2, <4>1 DEF Answers
        <3>2. CASE c # d
            <4>1. reply'[c] = reply[c]
                BY <2>1, <3>2 DEF Abstract!Answer, IInv, TypeOK, CallsTypeOK
            <4> QED BY <1>4, <4>1
        <3> QED BY <3>1, <3>2
    <2> QED BY <1>3, <2>2, <2>3
<1>8. CASE Abstract!Crash
    <2>1. reply[c] = Error
        BY <1>2, <1>8, SameRequests DEF Abstract!Crash
    <2> QED BY <1>3, <1>4, <1>8, <2>1 DEF Abstract!Crash, Abstract!history
<1>9. CASE Abstract!ClusterMoves
    <2>1. reply[c] = Error /\ batch' = batch
        BY <1>9 DEF Abstract!ClusterMoves, Abstract!Move
    <2>2. /\ told[c] \subseteq told'[c] /\ held[c] \subseteq held'[c]
          /\ troubled[c] => troubled'[c]
        BY <1>9 DEF Abstract!ClusterMoves, Abstract!Move
    <2> QED BY <1>4, <2>1, <2>2 DEF Excused
<1> QED BY <1>1, <1>5, <1>6, <1>7, <1>8, <1>9 DEF Abstract!Next

-----------------------------------------------------------------------------
(* The host of a load's service is a host of that service.                 *)
LEMMA LoadHostTyped ==
    ASSUME PluginTypeOK, NEW s \in Services, LoadHost(s) # Unset
    PROVE  /\ LoadHost(s) \in Hosts
           /\ s = "master" => LoadHost(s) \in Masters
           /\ s = "agent" => LoadHost(s) \in Agents
<1>1. config \in Configs
    BY CatalogAssumption DEF PluginTypeOK
<1> QED BY <1>1 DEF Configs, LoadHost, Configured, Hosts, Services

(* What is made of keys are namespaces of the service.                     *)
LEMMA TypesTyped ==
    ASSUME NEW service \in Services, NEW K \in SUBSET Keys
    PROVE  /\ Static(service, K) \subseteq Namespaces
           /\ Dynamic(service, K) \subseteq Namespaces
           /\ \A ns \in Static(service, K) \cup Dynamic(service, K) : ns.service = service
<1>1. \A ns \in Static(service, K) : ns \in Namespaces /\ ns.service = service
    <2> TAKE ns \in Static(service, K)
    <2> PICK k \in K : ns = [service |-> service, dynamic |-> FALSE, key |-> k]
        BY DEF Static
    <2> QED BY DEF Namespaces
<1>2. \A ns \in Dynamic(service, K) : ns \in Namespaces /\ ns.service = service
    <2> TAKE ns \in Dynamic(service, K)
    <2> PICK k \in K : ns = [service |-> service, dynamic |-> TRUE, key |-> k]
        BY DEF Dynamic
    <2> QED BY DEF Namespaces
<1> QED BY <1>1, <1>2

(* Namespaces of one service do not add to those of another.               *)
LEMMA OfOther ==
    ASSUME NEW M, NEW N, NEW s, \A ns \in N : ns.service # s
    PROVE  {ns \in M \cup N : ns.service = s} = {ns \in M : ns.service = s}
OBVIOUS

LEMMA OfSame ==
    ASSUME NEW M, NEW N, NEW s, \A ns \in N : ns.service = s
    PROVE  {ns \in M \cup N : ns.service = s} = {ns \in M : ns.service = s} \cup N
OBVIOUS

(* What is listed stays so when a host changes, which then counts as       *)
(* changed.                                                                *)
LEMMA ListedKept ==
    ASSUME PluginTypeOK, NEW M, NEW s \in Services, Listed(M, s), config' = config,
           changed \subseteq changed',
           \A h \in Hosts \ changed' :
              document'[h] = document[h] /\ (h \in Agents => offers'[h] = offers[h])
    PROVE  Listed(M, s)'
<1>1. LoadHost(s)' = LoadHost(s)
    BY DEF LoadHost
<1>2. CASE LoadHost(s) # Unset /\ LoadHost(s) \notin changed'
    <2>1. /\ LoadHost(s) \in Hosts /\ LoadHost(s) \notin changed
          /\ s = "agent" => LoadHost(s) \in Agents
        BY <1>2, LoadHostTyped
    <2>2. TypesOf(s, LoadHost(s))' = TypesOf(s, LoadHost(s))
        BY <1>1, <1>2, <2>1 DEF TypesOf, Services
    <2> QED BY <1>1, <2>1, <2>2 DEF Listed
<1> QED BY <1>1, <1>2 DEF Listed

(* The invariant of the load and its catalog.                              *)
CatalogInv == PluginTypeOK /\ WholeCatalog /\ LoadOK

LEMMA CatalogInit == PluginInit => CatalogInv
BY DEF PluginInit, CatalogInv, PluginTypeOK, WholeCatalog, LoadOK, Loading

(* A step that lists nothing, though hosts may change.                     *)
LEMMA CatalogKept ==
    ASSUME CatalogInv, PluginTypeOK', UNCHANGED loadVars,
           changed \subseteq changed',
           \A h \in Hosts \ changed' :
              document'[h] = document[h] /\ (h \in Agents => offers'[h] = offers[h])
    PROVE  CatalogInv'
<1>1. \A M : \A s \in Services : Listed(M, s) => Listed(M, s)'
    BY ListedKept DEF CatalogInv, loadVars
<1>2. WholeCatalog'
    BY <1>1 DEF CatalogInv, WholeCatalog, loadVars
<1>3. "master" \in Services /\ "agent" \in Services
    BY DEF Services
<1>4. \A s : LoadHost(s)' = LoadHost(s)
    BY DEF LoadHost, loadVars
<1>5. load = "flags" /\ LoadHost("agent") \notin changed' =>
          document'[LoadHost("agent")] = document[LoadHost("agent")]
    <2>1. load = "flags" => LoadHost("agent") \in Hosts
        BY <1>3, LoadHostTyped DEF CatalogInv, LoadOK
    <2> QED BY <2>1
<1>6. LoadOK'
    BY <1>1, <1>3, <1>4, <1>5 DEF CatalogInv, LoadOK, loadVars
<1> QED BY <1>2, <1>6 DEF CatalogInv

(* The steps of the load: each adds exactly what its exchange gives.       *)
LEMMA LoadKeeps ==
    ASSUME CatalogInv, IInv, (\E cfg \in Loads : Load(cfg)) \/ LoadStep
    PROVE  CatalogInv'
<1> DEFINE m == LoadHost("master")
           a == LoadHost("agent")
<1>1. "master" \in Services /\ "agent" \in Services /\ "master" # "agent"
    BY DEF Services
<1>2. /\ m # Unset => m \in Masters /\ m \in Hosts
      /\ a # Unset => a \in Agents /\ a \in Hosts
    BY <1>1, LoadHostTyped DEF CatalogInv
<1>3. \A h \in Hosts : document[h].snapshot \in SUBSET Keys
    BY DocumentsAssumption DEF IInv, TypeOK, CallsTypeOK, ClusterTypeOK
<1>4. \A h \in Agents : offers[h] \in SUBSET Keys
    BY CatalogAssumption DEF CatalogInv, PluginTypeOK
<1>5. FrameworkKeys \in SUBSET Keys
    BY CatalogAssumption
<1>6. ASSUME NEW cfg \in Loads, Load(cfg) PROVE CatalogInv'
    <2>1. PluginTypeOK'
        BY <1>6 DEF Load, CatalogInv, PluginTypeOK, Loading
    <2>2. \A s \in Services : LoadHost(s)' = Configured(cfg[s])
        BY <1>6 DEF Load, LoadHost
    <2>3. Hosts \ {LoadHost(s)' : s \in Services} \subseteq changed'
        BY <1>6, <2>2 DEF Load
    <2>4. types' = {} /\ catalog' = {}
        BY <1>6 DEF Load
    <2>5. \A s \in Services : LoadHost(s)' = Unset => Listed(catalog, s)'
        BY <2>4 DEF Listed
    <2>6. /\ load' \in {"unloaded", "master", "agent", "loaded"}
          /\ load' = "master" => m' # Unset
        BY <1>1, <1>6, <2>2 DEF Load
    <2>7. load' = "agent" => m' = Unset /\ a' # Unset
        BY <1>1, <1>6, <2>2 DEF Load
    <2>8. load' = "loaded" => m' = Unset /\ a' = Unset
        BY <1>1, <1>6, <2>2 DEF Load
    <2>9. WholeCatalog'
        BY <2>4, <2>5, <2>8 DEF WholeCatalog, Services
    <2>10. load' = "agent" => Listed(types, "master")'
        BY <2>4, <2>7 DEF Listed
    <2>11. LoadOK'
        BY <2>3, <2>4, <2>6, <2>7, <2>10 DEF LoadOK
    <2> QED BY <2>1, <2>9, <2>11 DEF CatalogInv
<1>7. ASSUME MasterTypes PROVE CatalogInv'
    <2> DEFINE M == Static("master", document[m].snapshot) \cup Dynamic("master", FrameworkKeys)
    <2>1. m # Unset /\ m \in Hosts
        BY <1>2, <1>7 DEF MasterTypes, CatalogInv, LoadOK
    <2>2. M \in SUBSET Namespaces /\ \A ns \in M : ns.service = "master"
        BY <1>1, <1>3, <1>5, <2>1, TypesTyped
    <2>3. UNCHANGED <<vars, config, offers, changed, stale>>
        BY <1>7 DEF MasterTypes
    <2>4. m' = m /\ a' = a /\ document' = document
        BY <2>3 DEF LoadHost, vars, cluster
    <2>5. {ns \in M : ns.service = "master"} = TypesOf("master", m)
        BY <2>2 DEF TypesOf
    <2>6. {ns \in M : ns.service = "agent"} = {}
        BY <1>1, <2>2
    <2>7. CASE a = Unset /\ Loaded(M)
        <3>1. load' = "loaded" /\ types' = {} /\ catalog' = M
            BY <2>7 DEF Loaded
        <3>2. PluginTypeOK'
            BY <2>2, <2>3, <3>1 DEF CatalogInv, PluginTypeOK
        <3>3. Listed(catalog, "master")'
            BY <2>1, <2>3, <2>4, <2>5, <3>1 DEF Listed, TypesOf
        <3>4. Listed(catalog, "agent")'
            BY <2>4, <2>6, <2>7, <3>1 DEF Listed
        <3>5. LoadOK'
            <4>1. \A s : LoadHost(s)' = LoadHost(s)
                BY <2>3 DEF LoadHost
            <4>2. Hosts \ {LoadHost(s)' : s \in Services} \subseteq changed'
                BY <2>3, <4>1 DEF CatalogInv, LoadOK
            <4> QED BY <3>1, <4>2 DEF LoadOK
        <3> QED BY <3>1, <3>2, <3>3, <3>4, <3>5 DEF CatalogInv, WholeCatalog, Services
    <2>8. CASE a # Unset /\ load' = "agent" /\ types' = M /\ UNCHANGED catalog
        <3>1. PluginTypeOK'
            BY <2>2, <2>3, <2>8 DEF CatalogInv, PluginTypeOK, Loading
        <3>2. Listed(types, "master")'
            BY <2>1, <2>3, <2>4, <2>5, <2>8 DEF Listed, TypesOf
        <3>3. LoadOK'
            BY <2>3, <2>4, <2>6, <2>8, <3>2 DEF CatalogInv, LoadOK, LoadHost
        <3>4. WholeCatalog'
            BY <1>7, <2>8 DEF MasterTypes, CatalogInv, WholeCatalog
        <3> QED BY <3>1, <3>3, <3>4 DEF CatalogInv
    <2> QED BY <1>7, <2>7, <2>8 DEF MasterTypes
<1>8. ASSUME AgentTypes PROVE CatalogInv'
    <2> DEFINE N == Static("agent", document[a].snapshot)
    <2>1. a # Unset /\ a \in Hosts /\ Listed(types, "master")
          /\ {ns \in types : ns.service = "agent"} = {}
        BY <1>2, <1>8 DEF AgentTypes, CatalogInv, LoadOK
    <2>2. N \in SUBSET Namespaces /\ \A ns \in N : ns.service = "agent"
        BY <1>1, <1>3, <2>1, TypesTyped
    <2>3. /\ UNCHANGED <<vars, config, catalog, offers, changed, stale>>
          /\ load = "agent" /\ load' = "flags" /\ types' = types \cup N
        BY <1>8 DEF AgentTypes
    <2>4. m' = m /\ a' = a /\ document' = document
        BY <2>3 DEF LoadHost, vars, cluster
    <2>5. PluginTypeOK'
        BY <2>2, <2>3 DEF CatalogInv, PluginTypeOK, Loading
    <2>6. {ns \in types' : ns.service = "master"} = {ns \in types : ns.service = "master"}
        BY <1>1, <2>2, <2>3
    <2>7. {ns \in types' : ns.service = "agent"} = N
        BY <2>1, <2>2, <2>3
    <2>8. Listed(types, "master")'
        BY <2>1, <2>3, <2>4, <2>6 DEF Listed, TypesOf
    <2>9. LoadOK'
        BY <2>1, <2>3, <2>4, <2>7, <2>8 DEF CatalogInv, LoadOK, LoadHost
    <2>10. WholeCatalog'
        BY <2>3 DEF CatalogInv, WholeCatalog
    <2> QED BY <2>5, <2>9, <2>10 DEF CatalogInv
<1>9. ASSUME StatisticsTypes PROVE CatalogInv'
    <2> DEFINE N == Dynamic("agent", offers[a])
    <2>1. /\ a # Unset /\ a \in Agents /\ Listed(types, "master")
          /\ a \in changed \/ {ns \in types : ns.service = "agent"}
                                  = Static("agent", document[a].snapshot)
        BY <1>2, <1>9 DEF StatisticsTypes, CatalogInv, LoadOK
    <2>2. N \in SUBSET Namespaces /\ \A ns \in N : ns.service = "agent"
        BY <1>1, <1>4, <2>1, TypesTyped
    <2>3. /\ UNCHANGED <<vars, config, offers, changed, stale>>
          /\ load' = "loaded" /\ types' = {} /\ catalog' = types \cup N
        BY <1>9 DEF StatisticsTypes, Loaded
    <2>4. m' = m /\ a' = a /\ document' = document
        BY <2>3 DEF LoadHost, vars, cluster
    <2>5. PluginTypeOK'
        BY <2>2, <2>3 DEF CatalogInv, PluginTypeOK
    <2>6. {ns \in catalog' : ns.service = "master"} = {ns \in types : ns.service = "master"}
        BY <1>1, <2>2, <2>3
    <2>7. {ns \in catalog' : ns.service = "agent"}
             = {ns \in types : ns.service = "agent"} \cup N
        BY <2>2, <2>3
    <2>8. Listed(catalog, "master")'
        BY <2>1, <2>3, <2>4, <2>6 DEF Listed, TypesOf
    <2>9. Listed(catalog, "agent")'
        BY <1>1, <2>1, <2>3, <2>4, <2>7 DEF Listed, TypesOf
    <2>10. LoadOK'
        BY <2>3, <2>4 DEF CatalogInv, LoadOK, LoadHost
    <2>11. WholeCatalog'
        BY <2>3, <2>8, <2>9 DEF WholeCatalog, Services
    <2> QED BY <2>5, <2>10, <2>11 DEF CatalogInv
<1>10. ASSUME LoadFails PROVE CatalogInv'
    <2>1. /\ UNCHANGED <<vars, config, catalog, offers, changed, stale>>
          /\ load \in Loading /\ load' = "unloaded" /\ types' = {}
        BY <1>10 DEF LoadFails, LoadHostFails
    <2>2. PluginTypeOK'
        BY <2>1 DEF CatalogInv, PluginTypeOK
    <2>3. WholeCatalog'
        BY <2>1 DEF CatalogInv, WholeCatalog, Loading
    <2>4. LoadOK'
        BY <2>1 DEF CatalogInv, LoadOK, LoadHost
    <2> QED BY <2>2, <2>3, <2>4 DEF CatalogInv
<1> QED BY <1>6, <1>7, <1>8, <1>9, <1>10 DEF LoadStep

(* The other steps list nothing; what they change counts as changed.       *)
LEMMA MovesKeep ==
    ASSUME CatalogInv, IInv, IInv',
           \/ \E c \in Calls, b \in Batches : Collect(c, b)
           \/ CollectorMoves
           \/ ClusterMovesOn
           \/ \E a \in Agents, o \in Offers : Reconfigure(a, o)
           \/ UNCHANGED pluginVars
    PROVE  CatalogInv'
<1>1. ASSUME \/ \E c \in Calls, b \in Batches : Collect(c, b)
             \/ CollectorMoves \/ UNCHANGED pluginVars
      PROVE  CatalogInv'
    <2>1. UNCHANGED <<loadVars, offers, changed, document>> /\ stale' \subseteq stale \cup Calls
        BY <1>1 DEF Collect, CollectorMoves, pluginVars, vars, cluster, Invoke, Open, Step,
                    Exit, Restart
    <2>2. PluginTypeOK'
        BY <2>1 DEF CatalogInv, PluginTypeOK, loadVars
    <2> QED BY <2>1, <2>2, CatalogKept
<1>2. ASSUME ClusterMovesOn PROVE CatalogInv'
    <2>1. UNCHANGED <<loadVars, offers>> /\ changed' = changed \cup Changing
          /\ stale' \subseteq stale \cup Calls
        BY <1>2 DEF ClusterMovesOn, Shows, InFlight
    <2>2. PluginTypeOK'
        BY <2>1 DEF CatalogInv, PluginTypeOK, loadVars, Changing
    <2>3. \A h \in Hosts \ changed' : document'[h] = document[h]
        BY <2>1 DEF Changing
    <2> QED BY <2>1, <2>2, <2>3, CatalogKept
<1>3. ASSUME NEW a \in Agents, NEW o \in Offers, Reconfigure(a, o) PROVE CatalogInv'
    <2>1. /\ UNCHANGED <<loadVars, document>> /\ changed' = changed \cup {a}
          /\ stale' \subseteq stale \cup Calls /\ offers' = [offers EXCEPT ![a] = o]
        BY <1>3 DEF Reconfigure, Shows, InFlight, vars, cluster
    <2>2. PluginTypeOK'
        BY <2>1 DEF CatalogInv, PluginTypeOK, loadVars, Hosts
    <2>3. \A h \in Hosts \ changed' : h \in Agents => offers'[h] = offers[h]
        BY <2>1 DEF CatalogInv, PluginTypeOK
    <2> QED BY <2>1, <2>2, <2>3, CatalogKept
<1> QED BY <1>1, <1>2, <1>3

-----------------------------------------------------------------------------
(* A call that opens on hosts that have not changed finds there what it    *)
(* asks for.                                                               *)
LEMMA CollectFresh ==
    ASSUME CatalogInv, IInv, NEW c \in Calls, NEW b \in Batches, Collect(c, b)
    PROVE  FreshOK(c)'
<1> SUFFICES ASSUME Asked(b) \cap changed = {}, NEW i \in DOMAIN b, NEW r \in Readings(b),
                    r.host = HostFor(b, b[i].namespace.service)
             PROVE  ~ NotFound(b[i].namespace, r.document)
    <2>1. batch'[c] = b /\ held'[c] = Readings(b)
        BY DEF Collect, Invoke, Open, IInv, TypeOK, CallsTypeOK
    <2>2. c \notin stale' => Asked(b) \cap changed = {}
        BY DEF Collect
    <2>3. \A bb, s : HostFor(bb, s)' = HostFor(bb, s)
        BY DEF HostFor
    <2> QED BY <2>1, <2>2 DEF FreshOK, HostFor, BatchConfig, Configured
<1> DEFINE ns == b[i].namespace
           h == HostFor(b, ns.service)
<1>1. ns \in Namespaces /\ ns.service \in Services /\ ns \in catalog
    BY BatchShape DEF Collect, Namespaces
<1>2. h # Unset /\ h \in Asked(b) /\ r.document = document[h] /\ h \notin changed
    BY DEF Readings, Asked
<1>3. load = "loaded" /\ Listed(catalog, ns.service)
    BY <1>1 DEF CatalogInv, WholeCatalog
<1>4. LoadHost(ns.service) = h
    <2>1. h \in Hosts
        BY <1>1, <1>2, HostForService
    <2>2. PICK s \in Services : h = LoadHost(s)
        BY <1>2, <2>1 DEF CatalogInv, LoadOK
    <2>3. s = ns.service
        BY <1>1, <1>2, <2>2, HostForService, LoadHostTyped, HostsAssumption
            DEF CatalogInv, Services
    <2> QED BY <2>2, <2>3
<1>5. ns \in TypesOf(ns.service, h)
    BY <1>1, <1>2, <1>3, <1>4 DEF Listed
<1>6. ~ ns.dynamic => ns.key \in document[h].snapshot
    BY <1>5 DEF TypesOf, Static, Dynamic
<1> QED BY <1>2, <1>6 DEF NotFound

(* What a call that is not stale was shown stays all it has been shown.    *)
LEMMA FreshKept ==
    ASSUME CatalogInv, IInv, NEW c \in Calls, FreshOK(c), PluginNext \/ UNCHANGED pluginVars
    PROVE  FreshOK(c)'
<1>1. ASSUME batch'[c] = batch[c], c \notin stale' => c \notin stale /\ held'[c] = held[c]
      PROVE  FreshOK(c)'
    BY <1>1 DEF FreshOK
<1>2. CASE (\E cfg \in Loads : Load(cfg)) \/ LoadStep \/ CollectorMoves
           \/ UNCHANGED pluginVars
    BY <1>1, <1>2 DEF Load, LoadStep, MasterTypes, AgentTypes, StatisticsTypes, LoadFails,
                      CollectorMoves, Step, Exit, Restart, pluginVars, vars, history
<1>3. ASSUME NEW d \in Calls, NEW b \in Batches, Collect(d, b) PROVE FreshOK(c)'
    <2>1. CASE c = d
        BY <1>3, <2>1, CollectFresh
    <2>2. CASE c # d
        BY <1>1, <1>3, <2>2 DEF Collect, Invoke, Open, IInv, TypeOK, CallsTypeOK
    <2> QED BY <2>1, <2>2
<1>4. CASE ClusterMovesOn
    <2>1. /\ batch' = batch /\ stale \subseteq stale'
          /\ held'[c] = held[c] \cup IF c \in InFlight THEN Readings(batch[c])' ELSE {}
        BY <1>4 DEF ClusterMovesOn, ClusterMoves, Move, Shows
    <2>2. ASSUME c \in InFlight, c \notin stale' PROVE Readings(batch[c])' \subseteq held[c]
        <3>1. batch[c] \in Batches /\ Readings(batch[c]) \subseteq held[c]
            BY <2>2 DEF IInv, HistoryOK, InFlight
        <3>2. Asked(batch[c]) \cap Changing = {}
            BY <1>4, <2>2 DEF ClusterMovesOn, Shows
        <3>3. Asked(batch[c]) \subseteq Hosts
            BY <3>1, HostForService DEF Asked
        <3>4. \A h \in Asked(batch[c]) : document'[h] = document[h]
            BY <3>2, <3>3 DEF Changing
        <3>5. Readings(batch[c])' = Readings(batch[c])
            BY <2>1, <3>4 DEF Readings, Asked, HostFor, BatchConfig, Configured
        <3> QED BY <3>1, <3>5
    <2> QED BY <1>1, <2>1, <2>2
<1>5. CASE \E a \in Agents, o \in Offers : Reconfigure(a, o)
    BY <1>1, <1>5 DEF Reconfigure, Shows, vars, history
<1> QED BY <1>2, <1>3, <1>4, <1>5 DEF PluginNext

(* The inductive invariant of the plugin, beside that of Collector.        *)
THEOREM PluginInvariant == PluginSpec => []PluginIInv
<1>1. PluginInit => PluginIInv
    <2> SUFFICES ASSUME PluginInit PROVE PluginIInv
        OBVIOUS
    <2>1. CatalogInv
        BY CatalogInit
    <2>2. \A c \in Calls : held[c] = {} /\ reply[c] = NoReply
        BY DEF PluginInit, Init, CallsInit
    <2>3. NoReply # Error
        BY DEF NoReply, Error
    <2> QED BY <2>1, <2>2, <2>3 DEF CatalogInv, PluginIInv, ErrorsExcused, FreshOK
<1>2. IInv /\ IInv' /\ PluginIInv /\ [PluginNext]_pluginVars => PluginIInv'
    <2> SUFFICES ASSUME IInv, IInv', PluginIInv, [PluginNext]_pluginVars PROVE PluginIInv'
        OBVIOUS
    <2>1. CatalogInv
        BY DEF PluginIInv, CatalogInv
    <2>2. [Next]_vars
        BY StepCollects DEF pluginVars
    <2>3. ErrorsExcused'
        BY <2>2, ErrorsStayExcused DEF PluginIInv
    <2>4. CatalogInv'
        BY <2>1, LoadKeeps, MovesKeep DEF PluginNext
    <2>5. \A c \in Calls : FreshOK(c)'
        BY <2>1, FreshKept DEF PluginIInv
    <2> QED BY <2>3, <2>4, <2>5 DEF PluginIInv, CatalogInv
<1>3. PluginSpec => []IInv
    BY StillCollects, Invariant, PTL
<1> QED BY <1>1, <1>2, <1>3, PTL DEF PluginSpec

(* GetMetricTypes lists everything its hosts offer, or nothing at all.     *)
THEOREM WholeCatalogHolds == PluginSpec => []WholeCatalog
<1>1. PluginIInv => WholeCatalog
    BY DEF PluginIInv
<1> QED BY <1>1, PluginInvariant, PTL

(* A call for what a fresh catalog lists has no error for it.              *)
THEOREM FreshCollectsHolds == PluginSpec => []FreshCollects
<1>1. PluginIInv => FreshCollects
    BY DEF PluginIInv, FreshCollects, FreshOK, ErrorsExcused, Excused
<1> QED BY <1>1, PluginInvariant, PTL
=============================================================================
