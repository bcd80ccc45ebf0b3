------------------------------- MODULE Plugin -------------------------------
(***************************************************************************)
(* The life of the plugin: Snap loads it, GetMetricTypes (src/mesos/mesos.go)*)
(* asks the hosts of the load's configuration which metrics there are, and *)
(* the calls of CollectMetrics (module Collector) ask for metrics of that  *)
(* catalog.  The catalog is as old as the load: hosts and agents' flags    *)
(* move on, during the load as well.                                       *)
(***************************************************************************)
EXTENDS Collector

CONSTANTS
    FrameworkKeys,      \* what GetFrameworksMetricTypes returns
    Offers,             \* what GetMonitoringStatisticsMetricTypes may return
    Loads               \* the configurations the plugin may be loaded with

ASSUME CatalogAssumption ==
    /\ FrameworkKeys \subseteq Keys
    /\ \A o \in Offers : o \subseteq Keys
    /\ Loads \subseteq Configs

VARIABLES
    load,       \* where the load is
    config,     \* its configuration
    types,      \* metricTypes of GetMetricTypes so far
    catalog,    \* what Snap knows of the plugin's metrics
    offers,     \* the keys each agent's flags allow for
    changed,    \* history: the hosts that are not what they were when the load
                \* began; a host the load did not ask counts as such
    stale       \* history: the calls that asked such a host, or saw one change

loadVars == <<load, config, types, catalog>>
pluginVars == <<vars, loadVars, offers, changed, stale>>

Loading == {"master", "agent", "flags"}

PluginTypeOK ==
    /\ load \in Loading \cup {"unloaded", "loaded"}
    /\ config \in Loads
    /\ types \in SUBSET Namespaces
    /\ catalog \in SUBSET Namespaces
    /\ offers \in [Agents -> Offers]
    /\ changed \in SUBSET Hosts
    /\ stale \in SUBSET Calls

PluginInit ==
    /\ Init
    /\ load = "unloaded"
    /\ config \in Loads
    /\ types = {}
    /\ catalog = {}
    /\ offers \in [Agents -> Offers]
    /\ changed = Hosts
    /\ stale = {}

LoadHost(service) == Configured(config[service])

-----------------------------------------------------------------------------
(* The namespaces that are made of the keys. *)
Static(service, keys) ==
    {[service |-> service, dynamic |-> FALSE, key |-> k] : k \in keys}
Dynamic(service, keys) ==
    {[service |-> service, dynamic |-> TRUE, key |-> k] : k \in keys}

(* Snap loads the plugin, for the first time or again: what it knew of it  *)
(* is gone, and GetMetricTypes starts with getConfig.  Two items that are  *)
(* there but no strings leave nothing to ask: the catalog is empty.        *)
Load(cfg) ==
    LET hosts == {Configured(cfg[s]) : s \in Services} \ {Unset}
    IN  /\ process = "up"
        /\ load \notin Loading
        /\ config' = cfg
        /\ types' = {}
        /\ catalog' = {}
        /\ changed' = Hosts \ hosts
        /\ load' = IF ConfigError(cfg) THEN "unloaded"
                   ELSE IF Configured(cfg.master) # Unset THEN "master"
                   ELSE IF Configured(cfg.agent) # Unset THEN "agent"
                   ELSE "loaded"
        /\ UNCHANGED <<vars, offers, stale>>

(* GetMetricTypes returns M without an error. *)
Loaded(M) ==
    /\ load' = "loaded"
    /\ types' = {}
    /\ catalog' = M

(* The master's snapshot, whether it leads or not, and the frameworks'     *)
(* keys, which are the same everywhere.                                    *)
MasterTypes ==
    LET M == Static("master", document[LoadHost("master")].snapshot)
               \cup Dynamic("master", FrameworkKeys)
    IN  /\ load = "master"
        /\ health[LoadHost("master")] = "up"
        /\ IF LoadHost("agent") = Unset THEN Loaded(M)
           ELSE load' = "agent" /\ types' = M /\ UNCHANGED catalog
        /\ UNCHANGED <<vars, config, offers, changed, stale>>

AgentTypes ==
    /\ load = "agent"
    /\ health[LoadHost("agent")] = "up"
    /\ load' = "flags"
    /\ types' = types \cup Static("agent", document[LoadHost("agent")].snapshot)
    /\ UNCHANGED <<vars, config, catalog, offers, changed, stale>>

(* GetMonitoringStatisticsMetricTypes, by its one exchange: GetFlags.      *)
(* Module AgentMetricTypes has what it makes of the flags.                 *)
StatisticsTypes ==
    /\ load = "flags"
    /\ health[LoadHost("agent")] = "up"
    /\ Loaded(types \cup Dynamic("agent", offers[LoadHost("agent")]))
    /\ UNCHANGED <<vars, config, offers, changed, stale>>

(* The host that the load waits for does not give what it is asked for.    *)
LoadHostFails ==
    LET h == LoadHost(IF load = "master" THEN "master" ELSE "agent")
    IN  load \in Loading /\ health[h] \in {"failing", "down"}

(* Slip: the error logged, and what was listed before it returned.         *)
LoadFailsPartially ==
    /\ LoadHostFails
    /\ Loaded(types)
    /\ UNCHANGED <<vars, config, offers, changed, stale>>

(* Any error is one of the load, and nothing is listed.                    *)
LoadFails ==
    /\ LoadHostFails
    /\ load' = "unloaded"
    /\ types' = {}
    /\ UNCHANGED <<vars, config, catalog, offers, changed, stale>>

LoadStep == MasterTypes \/ AgentTypes \/ StatisticsTypes \/ LoadFails

-----------------------------------------------------------------------------
(* Snap asks for metrics that it knows of. *)
Collect(c, b) ==
    /\ \A i \in DOMAIN b : b[i].namespace \in catalog
    /\ Invoke(c, b)
    /\ stale' = IF Asked(b) \cap changed = {} THEN stale \ {c} ELSE stale \cup {c}
    /\ UNCHANGED <<loadVars, offers, changed>>

(* The hosts that a step of the cluster changes: what they serve, not      *)
(* whether they answer or who leads.                                       *)
Changing == {h \in Hosts : document'[h] # document[h]}

Shows(H) ==
    /\ changed' = changed \cup H
    /\ stale' = stale \cup {c \in InFlight : Asked(batch[c]) \cap H # {}}

ClusterMovesOn ==
    /\ ClusterMoves
    /\ Shows(Changing)
    /\ UNCHANGED <<loadVars, offers>>

(* External: an agent is restarted with other flags. *)
Reconfigure(a, o) ==
    /\ o # offers[a]
    /\ offers' = [offers EXCEPT ![a] = o]
    /\ Shows({a})
    /\ UNCHANGED <<vars, loadVars>>

(* What the calls in flight and the process do (Collector). *)
CollectorMoves ==
    /\ \/ \E c \in Calls : Step(c)
       \/ Exit
       \/ Restart
    /\ UNCHANGED <<loadVars, offers, changed, stale>>

PluginNext ==
    \/ \E cfg \in Loads : Load(cfg)
    \/ LoadStep
    \/ \E c \in Calls, b \in Batches : Collect(c, b)
    \/ CollectorMoves
    \/ ClusterMovesOn
    \/ \E a \in Agents, o \in Offers : Reconfigure(a, o)

PluginSpec == PluginInit /\ [][PluginNext]_pluginVars

-----------------------------------------------------------------------------
(* What a host has to be asked for. *)
TypesOf(service, h) ==
    Static(service, document[h].snapshot)
    \cup Dynamic(service, IF service = "master" THEN FrameworkKeys ELSE offers[h])

(* M lists exactly what the load's host of the service offers, if it has   *)
(* not changed since the load began.                                       *)
Listed(M, service) ==
    LET ofService == {ns \in M : ns.service = service}
        h == LoadHost(service)
    IN  IF h = Unset THEN ofService = {}
        ELSE h \in changed \/ ofService = TypesOf(service, h)

(* The catalog is all or nothing: it holds nothing at all, or every metric *)
(* of both configured hosts and no other, though it was put together from  *)
(* exchanges with hosts that may have failed at any of them.               *)
WholeCatalog ==
    IF load = "loaded" THEN \A s \in Services : Listed(catalog, s) ELSE catalog = {}

(* A call that asks hosts that are what the catalog says has no error for  *)
(* what it asks: if it has one, its own configuration has no host, or a    *)
(* host it asked was in trouble or knew no leader during the call.         *)
FreshCollects ==
    \A c \in Calls \ stale :
        reply[c] = Error =>
            \/ ConfigError(BatchConfig(batch[c]))
            \/ troubled[c]
            \/ Nowhere \in told[c]

-----------------------------------------------------------------------------
(* The inductive invariant of the proofs: what is listed at each exchange, *)
(* and, of a call that is not stale, that its hosts hold every static key  *)
(* it asks for in all they showed it.                                      *)
LoadOK ==
    LET listed == {ns \in types : ns.service = "agent"}
        agent == LoadHost("agent")
    IN  /\ load = "master" => types = {} /\ LoadHost("master") # Unset
        /\ load \in {"agent", "flags"} => Listed(types, "master") /\ agent # Unset
        /\ load = "agent" => listed = {}
        /\ load = "flags" =>
              agent \in changed \/ listed = Static("agent", document[agent].snapshot)
        /\ Hosts \ {LoadHost(s) : s \in Services} \subseteq changed

FreshOK(c) ==
    c \notin stale =>
        \A i \in DOMAIN batch[c], r \in held[c] :
            r.host = HostFor(batch[c], batch[c][i].namespace.service)
               => ~ NotFound(batch[c][i].namespace, r.document)

ErrorsExcused == \A c \in Calls : reply[c] = Error => Excused(c)

PluginIInv ==
    /\ PluginTypeOK
    /\ WholeCatalog
    /\ LoadOK
    /\ ErrorsExcused
    /\ \A c \in Calls : FreshOK(c)
=============================================================================
