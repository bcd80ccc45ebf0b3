----------------------------- MODULE Statistics -----------------------------
(***************************************************************************)
(* The agent's dynamic metrics from the response to the value: each call   *)
(* of GetMonitoringStatistics declares its variable, json.Unmarshal fills  *)
(* in the "statistics" of an executor, field by field in the order they    *)
(* come, and CollectMetrics looks the values up by the namespaces of the   *)
(* catalog (AgentMetricTypes).  One executor of the listing stands for     *)
(* all of them.                                                            *)
(***************************************************************************)
EXTENDS AgentMetricTypes, Structures

CONSTANTS
    Paths,      \* the paths of numbers that may be filled in
    Values      \* the numbers, 0 among them

ASSUME KeysAssumption == Keys = FromCompositeObject(ResourceStatistics)
ASSUME PathsAssumption == Paths \subseteq Keys
ASSUME ValuesAssumption == Values \subseteq Nat
ASSUME EventNamesAssumption ==
    \A e \in DOMAIN EventKey : EventKey[e] = <<"perf", EventKey[e][2]>>

VARIABLES
    statistics,     \* of the executor, as far as the response is decoded
    sent            \* history: the numbers in that part of the response, by path

readings == <<statistics, sent>>

(* A field set in a message; a message in one, empty if it is not there.   *)
Put(m, f, x) == (f :> x) @@ m
Child(m, f) == IF f \in DOMAIN m THEN m[f] ELSE EmptyMessage

(* The message m once the number at the path is decoded.                   *)
With(m, path, v) ==
    CASE Len(path) = 1 -> Put(m, path[1], v)
      [] Len(path) = 2 -> Put(m, path[1], Put(Child(m, path[1]), path[2], v))
      [] Len(path) = 3 ->
            LET child == Child(m, path[1])
            IN  Put(m, path[1], Put(child, path[2], Put(Child(child, path[2]), path[3], v)))

(* A message that was just allocated, or Reset().  A lookup does not tell  *)
(* it from a nil one.                                                      *)
Reset == EmptyMessage

NewVariable == statistics' = Reset /\ sent' = << >>

StatisticsInit == Init /\ statistics = Reset /\ sent = << >>

(* Slip: the variable outlives the call: json.Unmarshal leaves the fields  *)
(* that the next response lacks as they are.                               *)
GetMonitoringStatisticsKept ==
    /\ sent' = << >>
    /\ UNCHANGED <<vars, statistics>>

(* Another call, for another response.                                     *)
GetMonitoringStatistics == NewVariable /\ UNCHANGED vars

(* An executor carries what the agent's flags allow for. *)
Decode(path, v) ==
    /\ pc = "returned"
    /\ path \in Supplied(flags)
    /\ statistics' = With(statistics, path, v)
    /\ sent' = Put(sent, path, v)
    /\ UNCHANGED vars

(* An object without data, like the "perf" of README.md:294-296.           *)
DecodeEmptyObject(f) ==
    /\ pc = "returned"
    /\ statistics' = Put(statistics, f, Child(statistics, f))
    /\ UNCHANGED <<vars, sent>>

(* The network isolator's list of traffic controls, which has no metrics.  *)
DecodeTrafficControl ==
    /\ pc = "returned"
    /\ "network/port_mapping" \in flags.isolation
    /\ statistics' = Put(statistics, "net_traffic_control_statistics", <<"bytes" :> 1>>)
    /\ UNCHANGED <<vars, sent>>

(* Another load, or an agent that is restarted: the next response is new.  *)
CatalogMoves == Next /\ NewVariable

StatisticsNext ==
    \/ CatalogMoves
    \/ GetMonitoringStatistics
    \/ \E path \in Paths, v \in Values : Decode(path, v)
    \/ \E f \in Branches(ResourceStatistics) : DecodeEmptyObject(f)
    \/ DecodeTrafficControl

StatisticsSpec == StatisticsInit /\ [][StatisticsNext]_<<vars, readings>>

-----------------------------------------------------------------------------
(* The namespace of a key in the catalog.                                  *)
AgentNamespace(k) == <<"intel", "mesos", "agent", "*", "*">> \o k

(* The accessors of the path's fields, each called on what the one before  *)
(* it gave.                                                                *)
Accessed(m, type, path) ==
    LET first == Get(m, type, path[1])
        second == Get(first, Below(type, path[1]), path[2])
        third == Get(second, Below(Below(type, path[1]), path[2]), path[3])
    IN  CASE Len(path) = 1 -> first
          [] Len(path) = 2 -> second
          [] Len(path) = 3 -> third

(* Slip: the generated accessors in place of the lookup, which is never    *)
(* nil then.                                                               *)
CollectedByAccessors(namespace) ==
    {Accessed(statistics, ResourceStatistics, SubSeq(namespace, 6, Len(namespace)))}

(* The value that the loop over the executors gives a requested metric of  *)
(* this one: of the namespace after Strings()[5:], unless it is nil.       *)
Collected(namespace) ==
    GetValueByNamespace(statistics, SubSeq(namespace, 6, Len(namespace)))

(* What is collected of an executor is what its response held: a metric of *)
(* any key has a value if and only if this response gave one, be it zero,  *)
(* and that value; none is left of an earlier response, none is made up    *)
(* below an object without data, and a listed key that no executor carries *)
(* (agent.go:133) is passed over.                                          *)
CollectedIsSent ==
    \A k \in Keys \cup namespaces : Collected(AgentNamespace(k)) = In({sent}, k)
=============================================================================
