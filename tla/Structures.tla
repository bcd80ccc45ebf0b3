----------------------------- MODULE Structures -----------------------------
(***************************************************************************)
(* The structures the plugin decodes JSON into: those of master.go and     *)
(* agent.go, and the part of src/mesos/mesos_pb2/mesos_pb2.go that is      *)
(* reached from agent.Executor.  Names are the JSON names of the fields.   *)
(*                                                                         *)
(* A type is a kind with its fields.  A family of accessors is written as  *)
(* the fields they read: every accessor of the generated code is Get of    *)
(* its field.  A decoded message is a function from the fields that are    *)
(* present to their values: the empty message has none of them, and a nil  *)
(* message is no message at all.                                           *)
(***************************************************************************)
EXTENDS Integers, Sequences

CONSTANT Nil    \* a nil pointer

(* As in module TLC, whose own are not read by the prover: the function of *)
(* one pair, and two functions put together, the first one winning.        *)
f :> x == [y \in {f} |-> x]
f @@ g == [x \in DOMAIN f \cup DOMAIN g |-> IF x \in DOMAIN f THEN f[x] ELSE g[x]]

Text    == [kind |-> "text",   fields |-> << >>]
Number  == [kind |-> "number", fields |-> << >>]
Message(F) == [kind |-> "message", fields |-> F]
ListOf(M)  == [kind |-> "list", fields |-> M.fields]

Numbers(F) == [f \in F |-> Number]

-----------------------------------------------------------------------------
(* Network, below net_traffic_control_statistics and net_snmp_statistics.  *)
TrafficControlStatistics == Message("id" :> Text @@ Numbers(
    {"backlog", "bytes", "drops", "overlimits", "packets", "qlen", "ratebps",
     "ratepps", "requeues"}))

IpIn == Numbers({"Forwarding", "DefaultTTL", "InReceives", "InHdrErrors",
    "InAddrErrors", "ForwDatagrams", "InUnknownProtos", "InDiscards", "InDelivers"})
IpOut == Numbers({"OutRequests", "OutDiscards", "OutNoRoutes", "ReasmTimeout",
    "ReasmReqds", "ReasmOKs", "ReasmFails", "FragOKs", "FragFails", "FragCreates"})
IpStatistics == Message(IpIn @@ IpOut)

IcmpIn == Numbers({"InMsgs", "InErrors", "InCsumErrors", "InDestUnreachs",
    "InTimeExcds", "InParmProbs", "InSrcQuenchs", "InRedirects", "InEchos",
    "InEchoReps", "InTimestamps", "InTimestampReps", "InAddrMasks", "InAddrMaskReps"})
IcmpOut == Numbers({"OutMsgs", "OutErrors", "OutDestUnreachs", "OutTimeExcds",
    "OutParmProbs", "OutSrcQuenchs", "OutRedirects", "OutEchos", "OutEchoReps",
    "OutTimestamps", "OutTimestampReps", "OutAddrMasks", "OutAddrMaskReps"})
IcmpStatistics == Message(IcmpIn @@ IcmpOut)

TcpStatistics == Message(Numbers({"RtoAlgorithm", "RtoMin", "RtoMax", "MaxConn",
    "ActiveOpens", "PassiveOpens", "AttemptFails", "EstabResets", "CurrEstab",
    "InSegs", "OutSegs", "RetransSegs", "InErrs", "OutRsts", "InCsumErrors"}))

UdpStatistics == Message(Numbers({"InDatagrams", "NoPorts", "InErrors",
    "OutDatagrams", "RcvbufErrors", "SndbufErrors", "InCsumErrors", "IgnoredMulti"}))

SNMPStatistics == Message(
    "ip_stats"  :> IpStatistics  @@ "icmp_stats" :> IcmpStatistics @@
    "tcp_stats" :> TcpStatistics @@ "udp_stats"  :> UdpStatistics)

-----------------------------------------------------------------------------
(* PerfStatistics: a field for each perf event Mesos knows.                *)
SampleTime == Numbers({"timestamp", "duration"})
HardwareEvents == Numbers({"cycles", "stalled_cycles_frontend",
    "stalled_cycles_backend", "instructions", "cache_references", "cache_misses",
    "branches", "branch_misses", "bus_cycles", "ref_cycles"})
SoftwareEvents == Numbers({"cpu_clock", "task_clock", "page_faults", "minor_faults",
    "major_faults", "context_switches", "cpu_migrations", "alignment_faults",
    "emulation_faults"})
CacheEvents == Numbers({"l1_dcache_loads", "l1_dcache_load_misses",
    "l1_dcache_stores", "l1_dcache_store_misses", "l1_dcache_prefetches",
    "l1_dcache_prefetch_misses", "l1_icache_loads", "l1_icache_load_misses",
    "l1_icache_prefetches", "l1_icache_prefetch_misses", "llc_loads",
    "llc_load_misses", "llc_stores", "llc_store_misses", "llc_prefetches",
    "llc_prefetch_misses"})
TranslationEvents == Numbers({"dtlb_loads", "dtlb_load_misses", "dtlb_stores",
    "dtlb_store_misses", "dtlb_prefetches", "dtlb_prefetch_misses", "itlb_loads",
    "itlb_load_misses", "branch_loads", "branch_load_misses", "node_loads",
    "node_load_misses", "node_stores", "node_store_misses", "node_prefetches",
    "node_prefetch_misses"})
PerfStatistics == Message(SampleTime @@ HardwareEvents @@ SoftwareEvents @@
                          CacheEvents @@ TranslationEvents)

-----------------------------------------------------------------------------
(* ResourceStatistics, by the part of Mesos that fills the fields in.      *)
Usage == Numbers({"timestamp", "processes", "threads", "cpus_user_time_secs",
    "cpus_system_time_secs", "cpus_limit", "cpus_nr_periods", "cpus_nr_throttled",
    "cpus_throttled_time_secs"})
Memory == Numbers({"mem_total_bytes", "mem_total_memsw_bytes", "mem_limit_bytes",
    "mem_soft_limit_bytes", "mem_file_bytes", "mem_anon_bytes", "mem_cache_bytes",
    "mem_rss_bytes", "mem_mapped_file_bytes", "mem_swap_bytes",
    "mem_unevictable_bytes", "mem_low_pressure_counter",
    "mem_medium_pressure_counter", "mem_critical_pressure_counter"})
Disk == Numbers({"disk_limit_bytes", "disk_used_bytes"})
Interface == Numbers({"net_rx_packets", "net_rx_bytes", "net_rx_errors",
    "net_rx_dropped", "net_tx_packets", "net_tx_bytes", "net_tx_errors",
    "net_tx_dropped"})
Connections == Numbers({"net_tcp_rtt_microsecs_p50", "net_tcp_rtt_microsecs_p90",
    "net_tcp_rtt_microsecs_p95", "net_tcp_rtt_microsecs_p99",
    "net_tcp_active_connections", "net_tcp_time_wait_connections"})
TrafficAndSNMP ==
    "net_traffic_control_statistics" :> ListOf(TrafficControlStatistics) @@
    "net_snmp_statistics" :> SNMPStatistics
ResourceStatistics == Message(Usage @@ Memory @@ Disk @@ Interface @@ Connections @@
                              TrafficAndSNMP @@ "perf" :> PerfStatistics)

(* An element of /monitor/statistics.                                      *)
Executor == Message("executor_id" :> Text @@ "executor_name" :> Text @@
                    "source" :> Text @@ "framework_id" :> Text @@
                    "statistics" :> ResourceStatistics)

(* An element of /master/frameworks. *)
Resources == Message(Numbers({"cpus", "disk", "mem"}))
Framework == Message("id" :> Text @@ "offered_resources" :> Resources @@
                     "resources" :> Resources @@ "used_resources" :> Resources)

-----------------------------------------------------------------------------
(* A message without fields.                                               *)
EmptyMessage == << >>

(* What an accessor gives when the message or its field is nil. *)
Zero(type) == CASE type.kind = "number" -> 0
                [] type.kind = "text"   -> ""
                [] OTHER                -> Nil

(* An accessor of the generated code: GetX of field f, of any message or   *)
(* of none.                                                                *)
Get(m, type, f) ==
    IF m # Nil /\ f \in DOMAIN m THEN m[f] ELSE Zero(type.fields[f])

(* Messages are nested three deep at most, and so are paths one to three   *)
(* names long.  Leaves are the fields that end one; below a list none does.*)
Leaves(type) == {f \in DOMAIN type.fields : type.fields[f].kind \in {"number", "text"}}
Branches(type) == {f \in DOMAIN type.fields : type.fields[f].kind = "message"}
Below(type, f) == type.fields[f]

(* ns.FromCompositeObject: the paths below a type, as the library lists    *)
(* them for an empty object: it goes down into nil messages, and a list    *)
(* that is empty adds nothing (InspectEmptyContainers(AlwaysFalse)).       *)
FromCompositeObject(type) ==
    LET Two(f) == {<<f, g>> : g \in Leaves(Below(type, f))}
        Three(f, g) == {<<f, g, h>> : h \in Leaves(Below(Below(type, f), g))}
        AllThree(f) == UNION {Three(f, g) : g \in Branches(Below(type, f))}
    IN  {<<f>> : f \in Leaves(type)}
        \cup (UNION {Two(f) \cup AllThree(f) : f \in Branches(type)})

(* The values of a field in each message of a set that has it.             *)
In(S, f) == {m[f] : m \in {n \in S : f \in DOMAIN n}}

(* ns.GetValueByNamespace: the value at a path, as a set that is empty     *)
(* where the library returns nil.                                          *)
GetValueByNamespace(m, path) ==
    CASE Len(path) = 1 -> In({m}, path[1])
      [] Len(path) = 2 -> In(In({m}, path[1]), path[2])
      [] Len(path) = 3 -> In(In(In({m}, path[1]), path[2]), path[3])

(* GetFrameworksMetricTypes: the loop drops the one entry "id".            *)
GetFrameworksMetricTypes == FromCompositeObject(Framework) \ {<<"id">>}

(* normalizePerfEventName, on the names the instances use: lower case, and *)
(* every hyphen an underscore.                                             *)
normalizePerfEventName ==
    "cycles" :> "cycles" @@ "page-faults" :> "page_faults" @@
    "L1-dcache-load-misses" :> "l1_dcache_load_misses" @@
    "cpu-cycles" :> "cpu_cycles" @@ "" :> ""

(* deleteFromSlice's pattern "^" prefix ".*", on a path's first name.      *)
Matching(keys, prefix) ==
    {k \in keys : Len(k[1]) >= Len(prefix) /\ SubSeq(k[1], 1, Len(prefix)) = prefix}
=============================================================================
