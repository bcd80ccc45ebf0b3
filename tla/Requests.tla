------------------------------ MODULE Requests ------------------------------
(***************************************************************************)
(* What Snap hands to CollectMetrics and what it gets back                 *)
(* (src/mesos/mesos.go).                                                   *)
(*                                                                         *)
(* Strings are abstracted to what the code tells apart.  A namespace       *)
(* /intel/mesos/<service>/[*/[*/]]<key> is a record of its third element,  *)
(* whether it holds dynamic elements, and the rest of the path.  A host    *)
(* stands for the "host:port" string of the configuration.  A document is  *)
(* what a host's endpoints serve at one moment: the keys of its            *)
(* /metrics/snapshot, and which keys each framework (of a master) or       *)
(* executor (of an agent) carries in its listing.                          *)
(***************************************************************************)
EXTENDS Naturals, Sequences

CONSTANTS
    Masters, Agents,        \* host:port of the configured masters and agents
    Keys,                   \* metric keys, e.g. "master/cpus_total"
    OneSegment,             \* the keys that hold no "/"
    Instances,              \* framework IDs, and <framework, executor> IDs
    Documents,              \* what a host may serve
    Batches,                \* the argument lists Snap calls CollectMetrics with
    Leaders,                \* the hosts a redirect may name
    Contains,               \* <<l, m>>: the name of l contains the name of m
    Missing,                \* a configuration item that is not there
    NotString,              \* one that is not a string, or is empty
    Unset,                  \* "" in the map getConfig returns
    NoInstance,             \* a static metric belongs to no instance
    NoDocument              \* nothing fetched yet

Hosts == Masters \cup Agents
Services == {"master", "agent"}

Namespaces == [service : Services, dynamic : BOOLEAN, key : Keys]

Configs == [master : Masters \cup {Missing, NotString},
            agent  : Agents \cup {Missing, NotString}]

ASSUME HostsAssumption ==
    /\ Masters \cap Agents = {}
    /\ {Missing, NotString, Unset} \cap Hosts = {}
    /\ Missing # NotString

ASSUME KeysAssumption ==
    /\ OneSegment \subseteq Keys
    /\ NoInstance \notin Instances
    /\ NoDocument \notin Documents

(* A name contains itself; two different names may overlap.               *)
ASSUME ContainsAssumption ==
    /\ Masters \subseteq Leaders
    /\ Contains \subseteq Leaders \X Masters
    /\ \A m \in Masters : <<m, m>> \in Contains

ASSUME DocumentsAssumption ==
    \A d \in Documents : /\ d.snapshot \subseteq Keys
                         /\ d.listing \subseteq Instances \X Keys

(* Snap never calls CollectMetrics with an empty list.                     *)
ASSUME BatchesAssumption ==
    \A b \in Batches : /\ b \in Seq([namespace : Namespaces, config : Configs])
                       /\ b # << >>

-----------------------------------------------------------------------------
(* getConfig: a lookup of its own for each item; what is not a string      *)
(* leaves "" in the map, and only two absent items are an error.           *)
Configured(item) == IF item \in {Missing, NotString} THEN Unset ELSE item

ConfigError(config) == config.master = Missing /\ config.agent = Missing

(* Only the configuration of the first metric is ever looked at.           *)
BatchConfig(batch) == batch[1].config

HostFor(batch, service) == Configured(BatchConfig(batch)[service])

(* requestedMaster and requestedAgent, as positions of the batch: the      *)
(* partition keeps the order of the batch.                                 *)
Requested(batch, service) ==
    {i \in DOMAIN batch : batch[i].namespace.service = service}

Wants(batch, service) ==
    /\ HostFor(batch, service) # Unset
    /\ Requested(batch, service) # {}

-----------------------------------------------------------------------------
(* One returned metric.  Its value is known by the document it was read    *)
(* from: two readings of a key are the same when their documents are.      *)
Metric == [namespace : Namespaces, instance : Instances \cup {NoInstance},
           source : Hosts, reading : Documents]

(* Slip: the source tag left empty. *)
RenderedUntagged(ns, host, snapshot, listing) ==
    IF ns.dynamic
    THEN {[namespace |-> ns, instance |-> x, source |-> Unset, reading |-> listing] :
             x \in {y \in Instances : <<y, ns.key>> \in listing.listing}}
    ELSE {[namespace |-> ns, instance |-> NoInstance,
           source |-> Unset, reading |-> snapshot]}

(* The metrics the body of a render loop appends for one requested         *)
(* namespace: one for each instance that carries the key (the others are   *)
(* skipped with a warning), or the one value of the snapshot.              *)
Rendered(ns, host, snapshot, listing) ==
    IF ns.dynamic
    THEN {[namespace |-> ns, instance |-> x, source |-> host, reading |-> listing] :
             x \in {y \in Instances : <<y, ns.key>> \in listing.listing}}
    ELSE {[namespace |-> ns, instance |-> NoInstance,
           source |-> host, reading |-> snapshot]}

(* Slip: a return inside the loop. *)
RenderFirst(batch, service, host, snapshot, listing) ==
    UNION {Rendered(batch[i].namespace, host, snapshot, listing) :
              i \in {j \in Requested(batch, service) :
                        \A k \in Requested(batch, service) : j <= k}}

(* All of a render loop, when no requested namespace stops it.             *)
RenderAll(batch, service, host, snapshot, listing) ==
    UNION {Rendered(batch[i].namespace, host, snapshot, listing) :
              i \in Requested(batch, service)}

(* Slip: any key looked up in the snapshot, a dynamic metric's as well.    *)
NotFoundAny(ns, snapshot) == ns.key \notin snapshot.snapshot

(* A static metric that the snapshot does not hold.                        *)
NotFound(ns, snapshot) == ~ ns.dynamic /\ ns.key \notin snapshot.snapshot

(* requested.Strings()[5:] of a namespace of four elements: the slice      *)
(* expression of the agent's loop, evaluated before the loop knows whether *)
(* the namespace is dynamic.                                               *)
OutOfRange(ns) ==
    /\ ns.service = "agent"
    /\ ~ ns.dynamic
    /\ ns.key \in OneSegment

Stops(ns, snapshot) == OutOfRange(ns) \/ NotFound(ns, snapshot)

(* i is where the render loop of the service stops early, or it never does.*)
StopsAt(batch, service, snapshot, i) ==
    /\ i \in Requested(batch, service)
    /\ Stops(batch[i].namespace, snapshot)
    /\ \A j \in Requested(batch, service) :
          j < i => ~ Stops(batch[j].namespace, snapshot)

Runs(batch, service, snapshot) ==
    \A i \in Requested(batch, service) : ~ Stops(batch[i].namespace, snapshot)

-----------------------------------------------------------------------------
(* What a call gave Snap. *)
NoReply == [status |-> "none",  metrics |-> {}]
Error   == [status |-> "error", metrics |-> {}]
Lost    == [status |-> "lost",  metrics |-> {}]
OK(M)   == [status |-> "ok",    metrics |-> M]

Replies == [status : {"none", "error", "lost", "ok"}, metrics : SUBSET Metric]
=============================================================================
