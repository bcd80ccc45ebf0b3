-------------------------- MODULE AgentMetricTypes --------------------------
(***************************************************************************)
(* GetMonitoringStatisticsMetricTypes (src/mesos/agent/agent.go): the keys *)
(* of one agent's dynamic metrics, as its flags allow.  All keys are       *)
(* listed first, then the agent's flags are fetched, and what the agent    *)
(* cannot supply is taken out, isolator by isolator.  The agent may be     *)
(* restarted with other flags at any time.                                 *)
(***************************************************************************)
EXTENDS FiniteSets

CONSTANTS
    Keys,               \* what ns.FromCompositeObject lists
    Isolations,         \* the sets of isolators that --isolation may hold
    Events,             \* the names of perf events
    EventLists,         \* the sets of them that --perf_events may hold
    NoEvent,            \* the one element of strings.Split("", ",")
    EventKey,           \* "perf/" and the normalized name of each event
    MatchPerf,          \* the keys "^perf/.*" matches, and so does "^perf.*"
    MatchDisk,          \* the keys "^disk_.*" matches
    MatchNet,           \* the keys "^net_.*" matches
    Pressure,           \* external: the keys that the memory cgroup reports
    Swap,               \* external: the keys that are set if swap is enabled
    SwapEnabled,        \* external: whether it is, on the agent's machine
    PerfSample,         \* external: the time and duration of a sample
    PerfKey             \* external: the key under which perf reports an event

ASSUME PatternsAssumption ==
    /\ MatchPerf \cup MatchDisk \cup MatchNet \subseteq Keys
    /\ PerfSample \subseteq MatchPerf
    /\ MatchPerf \cap (MatchDisk \cup MatchNet) = {}
    /\ MatchDisk \cap MatchNet = {}
    /\ Pressure \cup Swap \subseteq Keys \ (MatchPerf \cup MatchDisk \cup MatchNet)

ASSUME EventsAssumption ==
    /\ NoEvent \notin Events
    /\ EventLists \subseteq SUBSET Events
    /\ DOMAIN EventKey = Events \cup {NoEvent}
    /\ DOMAIN PerfKey = Events
    /\ \A e \in DOMAIN EventKey : EventKey[e] \notin MatchDisk \cup MatchNet

Flags == [isolation : Isolations, perf_events : EventLists]

VARIABLES
    flags,          \* the flags the agent runs with
    fetched,        \* the flags GetFlags returned
    pc,             \* where the function is
    namespaces      \* the slice it builds; at "returned", its result

vars == <<flags, fetched, pc, namespaces>>

Labels == {"flags", "perf", "disk", "net", "returned", "failed"}

TypeOK ==
    /\ flags \in Flags
    /\ fetched \in Flags
    /\ pc \in Labels
    /\ namespaces \subseteq Keys \cup {EventKey[e] : e \in DOMAIN EventKey}

Init ==
    /\ flags \in Flags
    /\ fetched = flags
    /\ pc = "flags"
    /\ namespaces = Keys

-----------------------------------------------------------------------------
(* What deleteFromSlice returns: DeleteFromSlice shows the loop does.      *)
deleteFromSlice(a, matching) == a \ matching

(* GetFlags: the answer holds the flags as they are then.                  *)
GetFlags ==
    /\ pc = "flags"
    /\ fetched' = flags
    /\ pc' = "perf"
    /\ UNCHANGED <<flags, namespaces>>

(* GetFlags returns an error, and so does the function.                    *)
GetFlagsFails ==
    /\ pc = "flags"
    /\ pc' = "failed"
    /\ namespaces' = {}
    /\ UNCHANGED <<flags, fetched>>

(* strings.Split of the flag "perf_events". *)
PerfEvents == IF fetched.perf_events = {} THEN {NoEvent} ELSE fetched.perf_events

(* Slip: the perf events of the flag left out. *)
PerfDropped ==
    /\ pc = "perf"
    /\ namespaces' = deleteFromSlice(namespaces, MatchPerf)
    /\ pc' = "disk"
    /\ UNCHANGED <<flags, fetched>>

(* With cgroups/perf_event the events of the flag take the place of the    *)
(* perf keys; without it there are none.                                   *)
Perf ==
    /\ pc = "perf"
    /\ namespaces' = deleteFromSlice(namespaces, MatchPerf) \cup
                       IF "cgroups/perf_event" \in fetched.isolation
                       THEN {EventKey[e] : e \in PerfEvents} ELSE {}
    /\ pc' = "disk"
    /\ UNCHANGED <<flags, fetched>>

DiskStep ==
    /\ pc = "disk"
    /\ namespaces' = IF "posix/disk" \in fetched.isolation THEN namespaces
                     ELSE deleteFromSlice(namespaces, MatchDisk)
    /\ pc' = "net"
    /\ UNCHANGED <<flags, fetched>>

(* The last of the three, and the return.                                  *)
NetStep ==
    /\ pc = "net"
    /\ namespaces' = IF "network/port_mapping" \in fetched.isolation THEN namespaces
                     ELSE deleteFromSlice(namespaces, MatchNet)
    /\ pc' = "returned"
    /\ UNCHANGED <<flags, fetched>>

(* The next load of the plugin calls the function again.                   *)
Again ==
    /\ pc \in {"returned", "failed"}
    /\ pc' = "flags"
    /\ namespaces' = Keys
    /\ UNCHANGED <<flags, fetched>>

(* External: the agent is restarted with other flags.                      *)
Reconfigure(f) ==
    /\ f # flags
    /\ flags' = f
    /\ UNCHANGED <<fetched, pc, namespaces>>

Next ==
    \/ GetFlags \/ GetFlagsFails \/ Perf \/ DiskStep \/ NetStep \/ Again
    \/ \E f \in Flags : Reconfigure(f)

Spec == Init /\ [][Next]_vars

-----------------------------------------------------------------------------
(* External: what the executors of an agent with these flags may carry, by *)
(* what mesos_pb2.go says of the fields: those of memory pressure are the  *)
(* memory cgroup's, those of swap are only set if swap is enabled.  Where  *)
(* it says nothing, as of processor time, any agent may fill a field in.   *)
Supplied(f) ==
    (Keys \ (MatchPerf \cup MatchDisk \cup MatchNet \cup Pressure \cup Swap))
    \cup (IF "cgroups/mem" \in f.isolation THEN Pressure ELSE {})
    \cup (IF SwapEnabled THEN Swap ELSE {})
    \cup (IF "posix/disk" \in f.isolation THEN MatchDisk ELSE {})
    \cup (IF "network/port_mapping" \in f.isolation THEN MatchNet ELSE {})
    \cup (IF "cgroups/perf_event" \in f.isolation
          THEN PerfSample \cup {PerfKey[e] : e \in f.perf_events} ELSE {})

(* What is left after each step, for the flags that were fetched: the      *)
(* inductive invariant of the proofs.                                      *)
AfterPerf == (Keys \ MatchPerf) \cup
                IF "cgroups/perf_event" \in fetched.isolation
                THEN {EventKey[e] : e \in PerfEvents} ELSE {}
AfterDisk == IF "posix/disk" \in fetched.isolation THEN AfterPerf
             ELSE AfterPerf \ MatchDisk
AfterNet == IF "network/port_mapping" \in fetched.isolation THEN AfterDisk
            ELSE AfterDisk \ MatchNet

IInv ==
    /\ TypeOK
    /\ pc \in {"flags", "perf"} => namespaces = Keys
    /\ pc = "disk" => namespaces = AfterPerf
    /\ pc = "net" => namespaces = AfterDisk
    /\ pc = "returned" => namespaces = AfterNet

(* Every event has one name, under which perf reports it.                  *)
OneName == \A e \in Events : EventKey[e] = PerfKey[e]

(* What the executors may carry with the flags that were fetched is listed,*)
(* but for the time and duration of a perf sample: one answer of GetFlags  *)
(* decides all three filters, whatever the agent is restarted with         *)
(* meanwhile, and no filter takes away what another one put in.            *)
SuppliedIsListed ==
    pc = "returned" => Supplied(fetched) \ PerfSample \subseteq namespaces

(* agent.go:116: "Avoid returning a metric type that is impossible to      *)
(* collect on this system": nothing is listed that the agent's executors   *)
(* cannot carry.                                                           *)
ListedIsSupplied == pc = "returned" => namespaces \subseteq Supplied(fetched)
=============================================================================
