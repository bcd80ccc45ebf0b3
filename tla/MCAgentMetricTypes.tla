------------------------- MODULE MCAgentMetricTypes -------------------------
(***************************************************************************)
(* Instances of AgentMetricTypes and Statistics for TLC over the keys of   *)
(* the real structure; the patterns are matched against their names.       *)
(***************************************************************************)
EXTENDS Statistics

MCKeys == FromCompositeObject(ResourceStatistics)
MCPerf == Matching(MCKeys, "perf")
MCDisk == Matching(MCKeys, "disk_")
MCNet == Matching(MCKeys, "net_")

MCPressure == {<<f>> : f \in {"mem_low_pressure_counter",
                              "mem_medium_pressure_counter",
                              "mem_critical_pressure_counter"}}
MCSwap == {<<"mem_total_memsw_bytes">>, <<"mem_swap_bytes">>}
MCSample == {<<"perf", "timestamp">>, <<"perf", "duration">>}
MCEventKey == [e \in Events \cup {NoEvent} |-> <<"perf", normalizePerfEventName[e]>>]

(* A number at each depth, each for an isolator of its own.                *)
MCPaths == {<<"disk_used_bytes">>, <<"perf", "page_faults">>,
            <<"net_snmp_statistics", "udp_stats", "NoPorts">>}

(* The three isolators that the filters look for in every combination, with*)
(* the memory cgroup's, and an agent without any.                          *)
FilterIsolators == {"cgroups/perf_event", "posix/disk", "network/port_mapping"}
MCIsolations == {I \cup {"cgroups/mem"} : I \in SUBSET FilterIsolators} \cup {{}}
MCEventLists == SUBSET Events

(* An agent that samples cpu-cycles and has no memory cgroup.              *)
MCNoMemory == {I \cup {"cgroups/perf_event"} : I \in SUBSET {"posix/disk"}}
MCCycles == {L \cup {"cpu-cycles"} : L \in SUBSET {"page-faults"}}

(* Events that have one name: perf reports them under the name they have.  *)
MCPerfKey == [e \in Events |-> <<"perf", normalizePerfEventName[e]>>]

(* mesos_pb2.go:3549-3551: of the names of one event, perf reports one.    *)
MCAlternate == [e \in Events |-> IF e = "cpu-cycles" THEN <<"perf", "cycles">>
                                 ELSE MCPerfKey[e]]

(* The patterns pick the fields that the isolators fill in, and no others. *)
ASSUME FamiliesAssumption ==
    /\ MatchPerf = {k \in Keys : k[1] = "perf"}
    /\ MatchDisk = {k \in Keys : k[1] \in DOMAIN Disk}
    /\ MatchNet = {k \in Keys : k[1] \in DOMAIN (Interface @@ Connections @@ TrafficAndSNMP)}
    /\ Keys \ (MatchPerf \cup MatchDisk \cup MatchNet)
          = {<<f>> : f \in DOMAIN (Usage @@ Memory)}
    /\ \A e \in Events : PerfKey[e] \in Keys
=============================================================================
