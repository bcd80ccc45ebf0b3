----------------------------- MODULE Collector -----------------------------
(***************************************************************************)
(* Mesos.CollectMetrics (src/mesos/mesos.go) with the calls it makes:      *)
(* getConfig, master.IsLeader, the four fetches over client.Fetch, and the *)
(* two render loops.  Every HTTP exchange is a step of its own: between    *)
(* two of them the cluster, and the other calls, may move.                 *)
(***************************************************************************)
EXTENDS Answers

VARIABLES
    pc,         \* the exchange each call waits for
    snapshot,   \* the snapshot of the phase a call is in
    metrics,    \* the metrics a call has collected so far
    process     \* the plugin process: "up", or "dead" after a panic

vars == <<cluster, history, batch, reply, pc, snapshot, metrics, process>>

Labels == {"idle", "start", "redirect", "masterSnapshot", "frameworks",
           "agentSnapshot", "statistics", "panicked"}

TypeOK ==
    /\ CallsTypeOK
    /\ pc \in [Calls -> Labels]
    /\ snapshot \in [Calls -> Documents \cup {NoDocument}]
    /\ metrics \in [Calls -> SUBSET Metric]
    /\ process \in {"up", "dead"}

Init ==
    /\ CallsInit
    /\ pc = [c \in Calls |-> "idle"]
    /\ snapshot = [c \in Calls |-> NoDocument]
    /\ metrics = [c \in Calls |-> {}]
    /\ process = "up"

InFlight == {c \in Calls : pc[c] # "idle"}

Master(c) == HostFor(batch[c], "master")
Agent(c) == HostFor(batch[c], "agent")

-----------------------------------------------------------------------------
(* Snap calls CollectMetrics; a goroutine starts.                          *)
Invoke(c, b) ==
    /\ process = "up"
    /\ pc[c] = "idle"
    /\ Open(c, b)
    /\ pc' = [pc EXCEPT ![c] = "start"]
    /\ reply' = [reply EXCEPT ![c] = NoReply]
    /\ UNCHANGED <<snapshot, metrics, process>>

(* The call returns r to Snap and its local variables are gone.            *)
Return(c, r) ==
    /\ reply' = [reply EXCEPT ![c] = r]
    /\ pc' = [pc EXCEPT ![c] = "idle"]
    /\ snapshot' = [snapshot EXCEPT ![c] = NoDocument]
    /\ metrics' = [metrics EXCEPT ![c] = {}]
    /\ UNCHANGED process

(* A panic in one goroutine ends the process, and every call in it, at     *)
(* once or after the others went on for a while.                           *)
Exit ==
    /\ \E c \in Calls : pc[c] = "panicked"
    /\ reply' = [c \in Calls |-> IF c \in InFlight THEN Lost ELSE reply[c]]
    /\ pc' = [c \in Calls |-> "idle"]
    /\ snapshot' = [c \in Calls |-> NoDocument]
    /\ metrics' = [c \in Calls |-> {}]
    /\ process' = "dead"
    /\ UNCHANGED <<cluster, history, batch>>

(* Slip: the metrics in a field of the plugin, not in a local variable.    *)
GoToShared(c, label, got, M) ==
    /\ pc' = [pc EXCEPT ![c] = label]
    /\ snapshot' = [snapshot EXCEPT ![c] = got]
    /\ metrics' = [d \in Calls |-> IF d = c \/ pc[d] # "idle" THEN M ELSE metrics[d]]
    /\ UNCHANGED <<reply, process>>

(* The call goes on to its next exchange with what it has collected.       *)
GoTo(c, label, got, M) ==
    /\ pc' = [pc EXCEPT ![c] = label]
    /\ snapshot' = [snapshot EXCEPT ![c] = got]
    /\ metrics' = [metrics EXCEPT ![c] = M]
    /\ UNCHANGED <<reply, process>>

Panic(c) == GoTo(c, "panicked", NoDocument, {})

(* The master phase is over, with metrics M: the agent phase, or the end.  *)
AgentPhase(c, M) ==
    \/ /\ Wants(batch[c], "agent")
       /\ GoTo(c, "agentSnapshot", NoDocument, M)
    \/ /\ ~ Wants(batch[c], "agent")
       /\ Return(c, OK(M))

(* Slip: one call at a time, by a lock around the body.                    *)
StartLocked(c) ==
    /\ pc[c] = "start"
    /\ \A d \in Calls \ {c} : pc[d] \in {"idle", "start"}
    /\ IF ConfigError(BatchConfig(batch[c])) THEN Return(c, Error)
       ELSE IF Wants(batch[c], "master") THEN GoTo(c, "redirect", NoDocument, {})
       ELSE AgentPhase(c, {})

(* getConfig, the partition of the batch, and the choice of the phase.     *)
Start(c) ==
    /\ pc[c] = "start"
    /\ IF ConfigError(BatchConfig(batch[c])) THEN Return(c, Error)
       ELSE IF Wants(batch[c], "master") THEN GoTo(c, "redirect", NoDocument, {})
       ELSE AgentPhase(c, {})

-----------------------------------------------------------------------------
(* Slip: any redirect is taken for a leader's. *)
LeadsAlways(m) == location[m] # Nowhere

(* strings.Contains(location.Host, host). *)
Leads(m) == <<location[m], m>> \in Contains

(* Slip: the two branches on isLeader swapped. *)
IsLeaderSwapped(c) ==
    /\ pc[c] = "redirect"
    /\ health[Master(c)] = "up"
    /\ location[Master(c)] # Nowhere
    /\ IF Leads(Master(c)) THEN AgentPhase(c, {})
       ELSE GoTo(c, "masterSnapshot", NoDocument, {})

(* IsLeader: the master's redirect names a leader.                         *)
IsLeader(c) ==
    /\ pc[c] = "redirect"
    /\ health[Master(c)] = "up"
    /\ location[Master(c)] # Nowhere
    /\ IF Leads(Master(c)) THEN GoTo(c, "masterSnapshot", NoDocument, {})
       ELSE AgentPhase(c, {})

(* Slip: without a Location the master is taken for a follower.            *)
NoLocationSkips(c) ==
    /\ pc[c] = "redirect"
    /\ \/ health[Master(c)] = "failing"
       \/ health[Master(c)] = "up" /\ location[Master(c)] = Nowhere
    /\ AgentPhase(c, {})

(* IsLeader: a response without a Location.  A host that no URL can be made*)
(* of has the same outcome, and is one that is always failing.             *)
NoLocation(c) ==
    /\ pc[c] = "redirect"
    /\ \/ health[Master(c)] = "failing"
       \/ health[Master(c)] = "up" /\ location[Master(c)] = Nowhere
    /\ Return(c, Error)

(* IsLeader: RoundTrip returns an error and no response, whose StatusCode  *)
(* the error branch then reads.                                            *)
NoResponse(c) ==
    /\ pc[c] = "redirect"
    /\ health[Master(c)] = "down"
    /\ Panic(c)

(* client.Fetch gives up on the host a call waits for.  There is no time   *)
(* limit: http.Get uses the default client, so a hung host is waited for.  *)
FetchFails(c) ==
    /\ \/ /\ pc[c] \in {"masterSnapshot", "frameworks"}
          /\ health[Master(c)] \in {"failing", "down"}
       \/ /\ pc[c] \in {"agentSnapshot", "statistics"}
          /\ health[Agent(c)] \in {"failing", "down"}
    /\ Return(c, Error)

MasterSnapshot(c) ==
    /\ pc[c] = "masterSnapshot"
    /\ health[Master(c)] = "up"
    /\ GoTo(c, "frameworks", document[Master(c)], {})

(* What GetFrameworks decodes, read at the moment the master answers.      *)
GetFrameworks(c) == document[Master(c)]

(* GetFrameworks, then the render loop over requestedMaster.               *)
Frameworks(c) ==
    LET b == batch[c]
        h == Master(c)
    IN  /\ pc[c] = "frameworks"
        /\ health[h] = "up"
        /\ \/ /\ Runs(b, "master", snapshot[c])
              /\ AgentPhase(c, RenderAll(b, "master", h, snapshot[c], GetFrameworks(c)))
           \/ /\ ~ Runs(b, "master", snapshot[c])
              /\ Return(c, Error)

AgentSnapshot(c) ==
    /\ pc[c] = "agentSnapshot"
    /\ health[Agent(c)] = "up"
    /\ GoTo(c, "statistics", document[Agent(c)], metrics[c])

(* What GetMonitoringStatistics decodes. *)
GetMonitoringStatistics(c) == document[Agent(c)]

(* Slip: the agent's metrics under the tags of the master phase.           *)
StatisticsMistagged(c) ==
    LET b == batch[c]
    IN  /\ pc[c] = "statistics"
        /\ health[Agent(c)] = "up"
        /\ \/ /\ Runs(b, "agent", snapshot[c])
              /\ Return(c, OK(metrics[c] \cup
                     RenderAll(b, "agent", IF Master(c) = Unset THEN Agent(c) ELSE Master(c),
                               snapshot[c], GetMonitoringStatistics(c))))
           \/ /\ ~ Runs(b, "agent", snapshot[c])
              /\ Return(c, Error)

(* GetMonitoringStatistics, then the render loop over requestedAgent.      *)
Statistics(c) ==
    LET b == batch[c]
        h == Agent(c)
    IN  /\ pc[c] = "statistics"
        /\ health[h] = "up"
        /\ \/ /\ Runs(b, "agent", snapshot[c])
              /\ Return(c, OK(metrics[c] \cup
                              RenderAll(b, "agent", h, snapshot[c],
                                        GetMonitoringStatistics(c))))
           \/ \E i \in DOMAIN b :
                 /\ StopsAt(b, "agent", snapshot[c], i)
                 /\ IF OutOfRange(b[i].namespace) THEN Panic(c) ELSE Return(c, Error)

-----------------------------------------------------------------------------
(* What a call in flight does by itself. *)
Step(c) ==
    /\ \/ Start(c)
       \/ IsLeader(c)
       \/ NoLocation(c)
       \/ NoResponse(c)
       \/ FetchFails(c)
       \/ MasterSnapshot(c)
       \/ Frameworks(c)
       \/ AgentSnapshot(c)
       \/ Statistics(c)
    /\ UNCHANGED <<cluster, history, batch>>

(* Snap loads a dead plugin again. *)
Restart ==
    /\ process = "dead"
    /\ process' = "up"
    /\ UNCHANGED <<cluster, history, batch, reply, pc, snapshot, metrics>>

ClusterMoves ==
    /\ Move(InFlight)
    /\ UNCHANGED <<pc, snapshot, metrics, process>>

Next ==
    \/ \E c \in Calls, b \in Batches : Invoke(c, b)
    \/ \E c \in Calls : Step(c)
    \/ Exit
    \/ Restart
    \/ ClusterMoves

Spec == Init /\ [][Next]_vars

(* The scheduler runs every goroutine, a host that stays up answers, and a *)
(* panic does end the process.                                             *)
FairSpec == Spec /\ WF_vars(Exit) /\ \A c \in Calls : WF_vars(Step(c))

-----------------------------------------------------------------------------
Collects(c) == reply[c].status = "ok"

(* The inductive invariant of the proofs.  The history of a call in flight *)
(* holds what the cluster shows now; the phases carry what the branches    *)
(* before them decided, and what the call has collected is already a       *)
(* rightful answer for the master; an answer given stays one.              *)
HistoryOK(c) ==
    pc[c] # "idle" =>
        /\ batch[c] \in Batches
        /\ Locations(batch[c]) \subseteq told[c]
        /\ Readings(batch[c]) \subseteq held[c]
        /\ Trouble(batch[c]) => troubled[c]

PhaseAt(c, label, got, M) ==
    /\ label \in {"redirect", "masterSnapshot", "frameworks"} =>
          Wants(batch[c], "master")
    /\ label \in {"masterSnapshot", "frameworks"} => ToldLeader(c)
    /\ label = "frameworks" =>
          [host |-> Master(c), document |-> got] \in held[c]
    /\ label \in {"agentSnapshot", "statistics"} =>
          /\ Wants(batch[c], "agent")
          /\ \A m \in M : m.namespace.service = "master"
          /\ Explained(c, "master", M)
    /\ label = "statistics" =>
          [host |-> Agent(c), document |-> got] \in held[c]
    /\ label = "panicked" => Fatal(c)

PhaseOK(c) == PhaseAt(c, pc[c], snapshot[c], metrics[c])

ReplyOK(c) ==
    Collects(c) =>
        /\ batch[c] \in Batches
        /\ \A s \in Services :
              Explained(c, s, Of(reply[c].metrics, s))

IInv ==
    /\ TypeOK
    /\ \A c \in Calls : HistoryOK(c) /\ PhaseOK(c) /\ ReplyOK(c)

(* Master metrics are returned only by a call whose configured master      *)
(* named itself in its redirect at some time of the call (IsLeader, and    *)
(* the branch of CollectMetrics it opens).                                 *)
LeaderGate ==
    \A c \in Calls : Collects(c) =>
        \A m \in reply[c].metrics :
            m.namespace.service = "master" => Master(c) \in told[c]

(* All static metrics of a host in one answer are from one reading of its  *)
(* snapshot, all dynamic ones from one reading of its listing, the host    *)
(* served both during the call, and the source tag names it: the scratch   *)
(* of one phase or of one call never shows up in another's.                *)
OneReading ==
    \A c \in Calls : Collects(c) =>
        \A m, n \in reply[c].metrics :
            /\ [host |-> m.source, document |-> m.reading] \in held[c]
            /\ m.namespace.service = "master" <=> m.source \in Masters
            /\ m.source = n.source /\ m.namespace.dynamic = n.namespace.dynamic
                  => m.reading = n.reading

(* An answer without an error leaves out nothing that was asked for and    *)
(* was there for the whole call, unless the master's redirect named        *)
(* another host meanwhile: neither a static metric, nor the metric of a    *)
(* framework or executor that carried it from the first to the last moment.*)
NothingDropped ==
    \A c \in Calls : Collects(c) =>
        \A i \in DOMAIN batch[c] :
            LET ns == batch[c][i].namespace
                host == HostFor(batch[c], ns.service)
                was == {r.document : r \in {q \in held[c] : q.host = host}}
                got == {m.instance : m \in {n \in reply[c].metrics : n.namespace = ns}}
                skipped == /\ ns.service = "master"
                           /\ \E l \in told[c] : l # Nowhere /\ <<l, host>> \notin Contains
            IN  \/ host = Unset
                \/ skipped
                \/ ~ ns.dynamic /\ NoInstance \in got
                \/ /\ ns.dynamic
                   /\ {x \in Instances : \A d \in was : <<x, ns.key>> \in d.listing}
                         \subseteq got

(* Collection is the abstract view: a call is in flight or it is not. *)
Abstract == INSTANCE Collection WITH active <- [c \in Calls |-> pc[c] # "idle"]

(* The implementation relation: every behaviour of the collector is one of *)
(* the abstract collection.                                                *)
Promise == Abstract!Spec

(* A call whose own hosts keep answering returns, whatever the hosts of    *)
(* the other calls do: no call waits for another one.                      *)
Answering(c) ==
    pc[c] # "idle" => \A h \in Asked(batch[c]) : health[h] # "hung"

IndependentProgress ==
    \A c \in Calls :
        (pc[c] # "idle" /\ []Answering(c)) ~> pc[c] = "idle"

-----------------------------------------------------------------------------
(* What documents and code of the repository say, and the code does not do.*)

(* README.md:104-106: the master's snapshot is fetched only from the       *)
(* leader.                                                                 *)
NoCollectionOffLeader ==
    [][\A c \in Calls :
         pc[c] = "masterSnapshot" /\ pc'[c] = "frameworks"
            => location[Master(c)] = Master(c)]_vars

(* master.go:118-122: a request that fails is an error of IsLeader, and    *)
(* the plugin lives on.                                                    *)
FailedRequestIsAnError ==
    [][\A c \in Calls :
         pc[c] = "redirect" /\ health[Master(c)] = "down" /\ pc'[c] # "redirect"
            => reply'[c] = Error]_vars

(* client.go:41: the client is built with a timeout: a call returns even   *)
(* if a host it asks hangs.                                                *)
EveryCallReturns == \A c \in Calls : pc[c] # "idle" ~> pc[c] = "idle"
=============================================================================
