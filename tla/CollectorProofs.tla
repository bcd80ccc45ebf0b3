-------------------------- MODULE CollectorProofs --------------------------
(***************************************************************************)
(* Proofs about Collector, for any hosts, keys, instances, documents,      *)
(* batches and number of concurrent calls.                                 *)
(***************************************************************************)
EXTENDS Collector, TLAPS

(* A batch is a non-empty sequence, so its first configuration exists.     *)
LEMMA BatchShape ==
    ASSUME NEW b \in Batches
    PROVE  /\ b \in Seq([namespace : Namespaces, config : Configs])
           /\ 1 \in DOMAIN b
           /\ BatchConfig(b) \in Configs
           /\ \A i \in DOMAIN b : b[i].namespace \in Namespaces
           /\ DOMAIN b \subseteq Nat
<1> DEFINE S == [namespace : Namespaces, config : Configs]
<1>1. b \in Seq(S) /\ b # << >>
  BY BatchesAssumption
<1>2. 1 \in DOMAIN b /\ DOMAIN b \subseteq Nat /\ \A i \in DOMAIN b : b[i] \in S
  <2> HIDE DEF S
  <2>1. QED
    BY <1>1
<1>3. QED
  BY <1>1, <1>2 DEF BatchConfig

(* A configured host of a service is a host of that service.               *)
LEMMA HostForService ==
    ASSUME NEW b \in Batches, NEW s \in Services, HostFor(b, s) # Unset
    PROVE  /\ s = "master" => HostFor(b, s) \in Masters
           /\ s = "agent" => HostFor(b, s) \in Agents
           /\ HostFor(b, s) \in Hosts
<1>1. BatchConfig(b) \in Configs
  BY BatchShape
<1>2. CASE s = "master"
  <2>1. BatchConfig(b)[s] \in Masters \cup {Missing, NotString}
    BY <1>1, <1>2 DEF Configs
  <2>2. QED
    BY <2>1, <1>2 DEF HostFor, Configured, Hosts
<1>3. CASE s = "agent"
  <2>1. BatchConfig(b)[s] \in Agents \cup {Missing, NotString}
    BY <1>1, <1>3 DEF Configs
  <2>2. QED
    BY <2>1, <1>3 DEF HostFor, Configured, Hosts
<1>4. QED
  BY <1>2, <1>3 DEF Services

(* What a render loop appends is well formed and of its own service.       *)
LEMMA RenderedTyped ==
    ASSUME NEW b \in Batches, NEW s \in Services, NEW h \in Hosts,
           NEW snap \in Documents, NEW list \in Documents
    PROVE  /\ RenderAll(b, s, h, snap, list) \subseteq Metric
           /\ \A m \in RenderAll(b, s, h, snap, list) : m.namespace.service = s
<1>1. SUFFICES ASSUME NEW i \in Requested(b, s),
                      NEW m \in Rendered(b[i].namespace, h, snap, list)
               PROVE  m \in Metric /\ m.namespace.service = s
  BY DEF RenderAll
<1>2. b[i].namespace \in Namespaces /\ b[i].namespace.service = s
  BY <1>1, BatchShape DEF Requested
<1> DEFINE ns == b[i].namespace
<1>3. CASE ns.dynamic
  <2>1. PICK x \in Instances : m = [namespace |-> ns, instance |-> x,
                                    source |-> h, reading |-> list]
    BY <1>1, <1>3 DEF Rendered
  <2>2. QED
    BY <2>1, <1>2 DEF Metric
<1>4. CASE ~ ns.dynamic
  <2>1. m = [namespace |-> ns, instance |-> NoInstance,
             source |-> h, reading |-> snap]
    BY <1>1, <1>4 DEF Rendered
  <2>2. QED
    BY <2>1, <1>2 DEF Metric
<1>5. QED
  BY <1>3, <1>4

(* A render loop that runs to its end collects all that was asked of its   *)
(* service, and nothing else.                                              *)
LEMMA RenderedCollected ==
    ASSUME NEW b \in Batches, NEW s \in Services,
           NEW snap \in Documents, NEW list \in Documents,
           Runs(b, s, snap)
    PROVE  Collected(RenderAll(b, s, HostFor(b, s), snap, list),
                              b, s, snap, list)
<1> DEFINE P == RenderAll(b, s, HostFor(b, s), snap, list)
           asked == {b[i].namespace : i \in Requested(b, s)}
<1>1. \A i \in Requested(b, s) :
         b[i].namespace \in Namespaces /\ ~ NotFound(b[i].namespace, snap)
  BY BatchShape DEF Requested, Runs, Stops
<1>2. ASSUME NEW m \in P
      PROVE  /\ m.namespace \in asked
             /\ m.source = HostFor(b, s)
             /\ IF m.namespace.dynamic
                THEN /\ m.reading = list
                     /\ <<m.instance, m.namespace.key>> \in list.listing
                ELSE /\ m.reading = snap
                     /\ m.instance = NoInstance
                     /\ m.namespace.key \in snap.snapshot
  <2>1. PICK i \in Requested(b, s) :
           m \in Rendered(b[i].namespace, HostFor(b, s), snap, list)
    BY <1>2 DEF RenderAll
  <2> DEFINE ns == b[i].namespace
  <2>2. ns \in asked
    OBVIOUS
  <2>3. CASE ns.dynamic
    <3>1. PICK x \in Instances :
             /\ <<x, ns.key>> \in list.listing
             /\ m = [namespace |-> ns, instance |-> x,
                     source |-> HostFor(b, s), reading |-> list]
      BY <2>1, <2>3 DEF Rendered
    <3>2. QED
      BY <3>1, <2>2, <2>3
  <2>4. CASE ~ ns.dynamic
    <3>1. m = [namespace |-> ns, instance |-> NoInstance,
               source |-> HostFor(b, s), reading |-> snap]
      BY <2>1, <2>4 DEF Rendered
    <3>2. QED
      BY <3>1, <2>2, <2>4, <1>1 DEF NotFound
  <2>5. QED
    BY <2>3, <2>4
<1>3. ASSUME NEW ns \in asked, ns.dynamic,
             NEW x \in Instances, <<x, ns.key>> \in list.listing
      PROVE  \E m \in P : m.namespace = ns /\ m.instance = x
  <2>1. [namespace |-> ns, instance |-> x, source |-> HostFor(b, s),
         reading |-> list] \in Rendered(ns, HostFor(b, s), snap, list)
    BY <1>3 DEF Rendered
  <2>2. QED
    BY <2>1, <1>3 DEF RenderAll
<1>4. ASSUME NEW ns \in asked, ~ ns.dynamic
      PROVE  \E m \in P : m.namespace = ns
  <2>1. [namespace |-> ns, instance |-> NoInstance, source |-> HostFor(b, s),
         reading |-> snap] \in Rendered(ns, HostFor(b, s), snap, list)
    BY <1>4 DEF Rendered
  <2>2. QED
    BY <2>1, <1>4 DEF RenderAll
<1> HIDE DEF P
<1>5. QED
  BY <1>2, <1>3, <1>4 DEF P, Collected

-----------------------------------------------------------------------------
(* A rightful answer stays one when the history only grows.                *)
LEMMA ExplainedGrows ==
    ASSUME NEW c, NEW s, NEW P,
           batch'[c] = batch[c],
           told[c] \subseteq told'[c],
           held[c] \subseteq held'[c],
           troubled[c] => troubled'[c]
    PROVE  /\ ToldLeader(c) => ToldLeader(c)'
           /\ Fatal(c) => Fatal(c)'
           /\ Explained(c, s, P) => Explained(c, s, P)'
<1>1. ToldLeader(c) => ToldLeader(c)'
  BY DEF ToldLeader
<1>2. ToldFollower(c) => ToldFollower(c)'
  BY DEF ToldFollower
<1>3. Explained(c, s, P) => Explained(c, s, P)'
  BY <1>1, <1>2 DEF Explained
<1>4. Fatal(c) => Fatal(c)'
  BY DEF Fatal
<1>5. QED
  BY <1>1, <1>3, <1>4

(* The parts of IInv that concern a call whose state and history a step    *)
(* leaves alone.                                                           *)
CallOK(c) == HistoryOK(c) /\ PhaseOK(c) /\ ReplyOK(c)

(* A call none of whose variables changes keeps its part of the invariant. *)
LEMMA CallUntouched ==
    ASSUME NEW c \in Calls, CallOK(c),
           UNCHANGED <<cluster, history>>,
           batch'[c] = batch[c], reply'[c] = reply[c],
           pc'[c] = pc[c], snapshot'[c] = snapshot[c], metrics'[c] = metrics[c]
    PROVE  CallOK(c)'
<1>1. HistoryOK(c)'
  BY DEF CallOK, HistoryOK, cluster, history, Locations, Readings, Trouble
<1>2. /\ ToldLeader(c) => ToldLeader(c)'
      /\ Fatal(c) => Fatal(c)'
      /\ \A s, P : Explained(c, s, P) => Explained(c, s, P)'
  BY ExplainedGrows DEF history
<1>3. PhaseOK(c)'
  BY <1>2 DEF CallOK, PhaseOK, PhaseAt, Master, Agent, history
<1>4. ReplyOK(c)'
  BY <1>2 DEF CallOK, ReplyOK, Collects
<1>5. QED
  BY <1>1, <1>3, <1>4 DEF CallOK

(* A call in flight returns r: a rightful answer, or an error.             *)
LEMMA ReturnKeeps ==
    ASSUME IInv, NEW c \in Calls, pc[c] # "idle",
           NEW r \in Replies,
           r.status = "ok" => \A s \in Services : Explained(c, s, Of(r.metrics, s)),
           Return(c, r), UNCHANGED <<cluster, history, batch>>
    PROVE  IInv'
<1>1. TypeOK'
  BY DEF IInv, TypeOK, CallsTypeOK, ClusterTypeOK, Return, cluster, history, Labels
<1>2. ASSUME NEW d \in Calls, d # c
      PROVE  CallOK(d)'
  <2>1. CallOK(d)
    BY DEF IInv, CallOK
  <2>2. /\ reply'[d] = reply[d] /\ pc'[d] = pc[d]
        /\ snapshot'[d] = snapshot[d] /\ metrics'[d] = metrics[d]
    BY <1>2 DEF Return, IInv, TypeOK, CallsTypeOK
  <2>3. QED
    BY <2>1, <2>2, CallUntouched
<1>3. CallOK(c)'
  <2>1. /\ pc'[c] = "idle" /\ reply'[c] = r
        /\ batch'[c] = batch[c] /\ batch[c] \in Batches
        /\ UNCHANGED history
    BY DEF Return, IInv, TypeOK, CallsTypeOK, HistoryOK
  <2>2. HistoryOK(c)' /\ PhaseOK(c)'
    BY <2>1 DEF HistoryOK, PhaseOK, PhaseAt
  <2>3. \A s, P : Explained(c, s, P) => Explained(c, s, P)'
    BY <2>1, ExplainedGrows DEF history
  <2>4. ReplyOK(c)'
    BY <2>1, <2>3 DEF ReplyOK, Collects
  <2>5. QED
    BY <2>2, <2>4 DEF CallOK
<1>4. QED
  BY <1>1, <1>2, <1>3 DEF IInv, CallOK

(* A call in flight goes on to an exchange whose conditions hold.          *)
LEMMA GoToKeeps ==
    ASSUME IInv, NEW c \in Calls, pc[c] # "idle",
           NEW label \in Labels, NEW got \in Documents \cup {NoDocument},
           NEW M \in SUBSET Metric,
           PhaseAt(c, label, got, M),
           GoTo(c, label, got, M), UNCHANGED <<cluster, history, batch>>
    PROVE  IInv'
<1>1. TypeOK'
  BY DEF IInv, TypeOK, CallsTypeOK, ClusterTypeOK, GoTo, cluster, history
<1>2. ASSUME NEW d \in Calls, d # c
      PROVE  CallOK(d)'
  <2>1. CallOK(d)
    BY DEF IInv, CallOK
  <2>2. /\ reply'[d] = reply[d] /\ pc'[d] = pc[d]
        /\ snapshot'[d] = snapshot[d] /\ metrics'[d] = metrics[d]
    BY <1>2 DEF GoTo, IInv, TypeOK, CallsTypeOK
  <2>3. QED
    BY <2>1, <2>2, CallUntouched
<1>3. CallOK(c)'
  <2>1. /\ pc'[c] = label /\ snapshot'[c] = got /\ metrics'[c] = M
        /\ reply'[c] = reply[c] /\ batch'[c] = batch[c]
        /\ UNCHANGED history
    BY DEF GoTo, IInv, TypeOK, CallsTypeOK
  <2>2. HistoryOK(c)'
    BY <2>1 DEF IInv, HistoryOK, Locations, Readings, Trouble, cluster, history
  <2>3. /\ ToldLeader(c) => ToldLeader(c)'
        /\ Fatal(c) => Fatal(c)'
        /\ \A s, P : Explained(c, s, P) => Explained(c, s, P)'
    BY <2>1, ExplainedGrows DEF history
  <2>4. PhaseOK(c)'
    BY <2>1, <2>3 DEF PhaseOK, PhaseAt, Master, Agent, history
  <2>5. ReplyOK(c)'
    BY <2>1, <2>3 DEF IInv, ReplyOK, Collects
  <2>6. QED
    BY <2>2, <2>4, <2>5 DEF CallOK
<1>4. QED
  BY <1>1, <1>2, <1>3 DEF IInv, CallOK

(* The end of the process answers nobody. *)
LEMMA ExitKeeps ==
    ASSUME IInv, Exit
    PROVE  IInv'
<1>1. Lost \in Replies
  BY DEF Lost, Replies
<1>2. TypeOK'
  BY <1>1 DEF IInv, TypeOK, CallsTypeOK, ClusterTypeOK, Exit, cluster, history, Labels
<1>3. ASSUME NEW c \in Calls
      PROVE  CallOK(c)'
  <2>1. HistoryOK(c)' /\ PhaseOK(c)'
    BY DEF Exit, HistoryOK, PhaseOK, PhaseAt
  <2>2. \A s, P : Explained(c, s, P) => Explained(c, s, P)'
    BY ExplainedGrows DEF Exit, history
  <2>3. /\ reply'[c] = Lost \/ reply'[c] = reply[c]
        /\ batch'[c] = batch[c]
    BY DEF Exit
  <2>4. ReplyOK(c)'
    BY <2>2, <2>3 DEF IInv, ReplyOK, Collects, Lost
  <2>5. QED
    BY <2>1, <2>4 DEF CallOK
<1>4. QED
  BY <1>2, <1>3 DEF IInv, CallOK

-----------------------------------------------------------------------------
(* A new call starts with a history of the present.                        *)
LEMMA InvokeKeeps ==
    ASSUME IInv, NEW c \in Calls, NEW b \in Batches, Invoke(c, b)
    PROVE  IInv'
<1>1. /\ Locations(b) \subseteq Leaders \cup {Nowhere}
      /\ Readings(b) \subseteq [host : Hosts, document : Documents]
      /\ Trouble(b) \in BOOLEAN
  <2>1. Asked(b) \subseteq Hosts
    BY HostForService DEF Asked
  <2>2. Asked(b) \cap Masters \subseteq Masters
    OBVIOUS
  <2>3. QED
    BY <2>1, <2>2 DEF IInv, TypeOK, CallsTypeOK, ClusterTypeOK,
                      Locations, Readings, Trouble
<1>2. NoReply \in Replies /\ NoReply.status # "ok"
  BY DEF NoReply, Replies
<1>3. TypeOK'
  BY <1>1, <1>2 DEF IInv, TypeOK, CallsTypeOK, ClusterTypeOK, Invoke, Open,
                    cluster, Labels
<1>4. ASSUME NEW d \in Calls, d # c
      PROVE  CallOK(d)'
  <2>1. /\ batch'[d] = batch[d] /\ reply'[d] = reply[d] /\ pc'[d] = pc[d]
        /\ told'[d] = told[d] /\ held'[d] = held[d] /\ troubled'[d] = troubled[d]
        /\ snapshot'[d] = snapshot[d] /\ metrics'[d] = metrics[d]
    BY <1>4 DEF Invoke, Open, IInv, TypeOK, CallsTypeOK
  <2>2. HistoryOK(d)'
    BY <2>1 DEF IInv, HistoryOK, Invoke, Open, cluster,
                Locations, Readings, Trouble
  <2>3. /\ ToldLeader(d) => ToldLeader(d)'
        /\ Fatal(d) => Fatal(d)'
        /\ \A s, P : Explained(d, s, P) => Explained(d, s, P)'
    BY <2>1, ExplainedGrows
  <2>4. PhaseOK(d)'
    BY <2>1, <2>3 DEF IInv, PhaseOK, PhaseAt, Master, Agent
  <2>5. ReplyOK(d)'
    BY <2>1, <2>3 DEF IInv, ReplyOK, Collects
  <2>6. QED
    BY <2>2, <2>4, <2>5 DEF CallOK
<1>5. CallOK(c)'
  <2>1. /\ batch'[c] = b /\ pc'[c] = "start" /\ reply'[c] = NoReply
        /\ told'[c] = Locations(b) /\ held'[c] = Readings(b)
        /\ troubled'[c] = Trouble(b) /\ UNCHANGED cluster
    BY DEF Invoke, Open, IInv, TypeOK, CallsTypeOK
  <2>2. HistoryOK(c)'
    BY <2>1 DEF HistoryOK, cluster, Locations, Readings, Trouble
  <2>3. PhaseOK(c)'
    BY <2>1 DEF PhaseOK, PhaseAt
  <2>4. ReplyOK(c)'
    BY <2>1, <1>2 DEF ReplyOK, Collects
  <2>5. QED
    BY <2>2, <2>3, <2>4 DEF CallOK
<1>6. QED
  BY <1>3, <1>4, <1>5 DEF IInv, CallOK

(* The cluster moves, and the histories of the calls in flight follow.     *)
LEMMA ClusterMovesKeeps ==
    ASSUME IInv, ClusterMoves
    PROVE  IInv'
<1>1. ClusterTypeOK'
  BY DEF IInv, TypeOK, CallsTypeOK, ClusterTypeOK, ClusterMoves, Move,
         ClusterStep, Redirect, Refresh, Change
<1>2. ASSUME NEW c \in Calls, c \in InFlight
      PROVE  /\ Locations(batch[c])' \subseteq Leaders \cup {Nowhere}
             /\ Readings(batch[c])' \subseteq [host : Hosts, document : Documents]
  <2>1. batch'[c] \in Batches
    BY <1>2 DEF IInv, HistoryOK, InFlight, ClusterMoves, Move
  <2>2. Asked(batch'[c]) \subseteq Hosts
    BY <2>1, HostForService DEF Asked
  <2>3. QED
    BY <1>1, <2>2 DEF ClusterTypeOK, Locations, Readings
<1>3. TypeOK'
  BY <1>1, <1>2 DEF IInv, TypeOK, CallsTypeOK, ClusterMoves, Move
<1>4. ASSUME NEW c \in Calls
      PROVE  CallOK(c)'
  <2>1. /\ batch'[c] = batch[c] /\ reply'[c] = reply[c] /\ pc'[c] = pc[c]
        /\ snapshot'[c] = snapshot[c] /\ metrics'[c] = metrics[c]
        /\ told[c] \subseteq told'[c] /\ held[c] \subseteq held'[c]
        /\ troubled[c] => troubled'[c]
    BY DEF ClusterMoves, Move
  <2>2. HistoryOK(c)'
    BY <2>1 DEF IInv, HistoryOK, ClusterMoves, Move, InFlight
  <2>3. /\ ToldLeader(c) => ToldLeader(c)'
        /\ Fatal(c) => Fatal(c)'
        /\ \A s, P : Explained(c, s, P) => Explained(c, s, P)'
    BY <2>1, ExplainedGrows
  <2>4. PhaseOK(c)'
    BY <2>1, <2>3 DEF IInv, PhaseOK, PhaseAt, Master, Agent
  <2>5. ReplyOK(c)'
    BY <2>1, <2>3 DEF IInv, ReplyOK, Collects
  <2>6. QED
    BY <2>2, <2>4, <2>5 DEF CallOK
<1>5. QED
  BY <1>3, <1>4 DEF IInv, CallOK

-----------------------------------------------------------------------------
(* The render loop that ran to its end explains its service's part.        *)
LEMMA RenderedExplained ==
    ASSUME IInv, NEW c \in Calls, pc[c] # "idle",
           NEW s \in Services, Wants(batch[c], s),
           s = "master" => ToldLeader(c),
           NEW snap \in Documents,
           [host |-> HostFor(batch[c], s), document |-> snap] \in held[c],
           Runs(batch[c], s, snap)
    PROVE  LET h == HostFor(batch[c], s)
               P == RenderAll(batch[c], s, h, snap, document[h])
           IN  /\ P \subseteq Metric
               /\ \A m \in P : m.namespace.service = s
               /\ Explained(c, s, P)
<1> DEFINE h == HostFor(batch[c], s)
           P == RenderAll(batch[c], s, h, snap, document[h])
<1>1. batch[c] \in Batches /\ Readings(batch[c]) \subseteq held[c]
  BY DEF IInv, HistoryOK
<1>2. h # Unset /\ h \in Hosts
  BY <1>1, HostForService DEF Wants
<1>3. document[h] \in Documents
  BY <1>2 DEF IInv, TypeOK, CallsTypeOK, ClusterTypeOK
<1>4. [host |-> h, document |-> document[h]] \in held[c]
  BY <1>1, <1>2 DEF Readings, Asked
<1>5. Collected(P, batch[c], s, snap, document[h])
  BY <1>1, <1>3, RenderedCollected
<1>6. P \subseteq Metric /\ \A m \in P : m.namespace.service = s
  BY <1>1, <1>2, <1>3, RenderedTyped
<1> DEFINE r1 == [host |-> h, document |-> snap]
           r2 == [host |-> h, document |-> document[h]]
           mine == {r \in held[c] : r.host = HostFor(batch[c], s)}
<1>7. Explained(c, s, P)
  <2>1. r1 \in mine /\ r2 \in mine
    BY <1>4
  <2>2. r1.document = snap /\ r2.document = document[h]
    OBVIOUS
  <2> HIDE DEF P, r1, r2, mine
  <2>3. \E q, r \in mine : Collected(P, batch[c], s, q.document, r.document)
    BY <1>5, <2>1, <2>2
  <2>4. QED
    BY <2>3 DEF Explained, mine
<1>8. QED
  BY <1>6, <1>7

(* A call that leaves the master phase with M, a rightful answer for the   *)
(* master, goes on or returns it.                                          *)
LEMMA AgentPhaseKeeps ==
    ASSUME IInv, NEW c \in Calls, pc[c] # "idle",
           NEW M \in SUBSET Metric,
           \A m \in M : m.namespace.service = "master",
           Explained(c, "master", M),
           AgentPhase(c, M), UNCHANGED <<cluster, history, batch>>
    PROVE  IInv'
<1>1. CASE /\ Wants(batch[c], "agent")
           /\ GoTo(c, "agentSnapshot", NoDocument, M)
  <2>1. PhaseAt(c, "agentSnapshot", NoDocument, M)
    BY <1>1 DEF PhaseAt
  <2>2. "agentSnapshot" \in Labels
    BY DEF Labels
  <2>3. QED
    BY <1>1, <2>1, <2>2, GoToKeeps
<1>2. CASE ~ Wants(batch[c], "agent") /\ Return(c, OK(M))
  <2>1. OK(M) \in Replies /\ OK(M).metrics = M
    BY DEF OK, Replies
  <2>2. Of(M, "master") = M /\ Of(M, "agent") = {}
    BY DEF Of
  <2>3. Explained(c, "agent", {})
    BY <1>2 DEF Explained
  <2>4. \A s \in Services : Explained(c, s, Of(M, s))
    BY <2>2, <2>3 DEF Services
  <2>5. QED
    BY <1>2, <2>1, <2>4, ReturnKeeps
<1>3. QED
  BY <1>1, <1>2 DEF AgentPhase

(* A call that returns an error keeps the invariant.                      *)
LEMMA ErrorKeeps ==
    ASSUME IInv, NEW c \in Calls, pc[c] # "idle",
           Return(c, Error), UNCHANGED <<cluster, history, batch>>
    PROVE  IInv'
<1>1. Error \in Replies /\ Error.status # "ok"
  BY DEF Error, Replies
<1>2. QED
  BY <1>1, ReturnKeeps

(* A call that panics for a fatal reason keeps the invariant.             *)
LEMMA PanicKeeps ==
    ASSUME IInv, NEW c \in Calls, pc[c] # "idle", Fatal(c),
           Panic(c), UNCHANGED <<cluster, history, batch>>
    PROVE  IInv'
<1>1. PhaseAt(c, "panicked", NoDocument, {}) /\ "panicked" \in Labels
  BY DEF PhaseAt, Labels
<1>2. QED
  BY <1>1, GoToKeeps DEF Panic

(* Each action of a call preserves the invariant. *)
LEMMA StepKeeps ==
    ASSUME IInv, NEW c \in Calls, Step(c)
    PROVE  IInv'
<1> USE DEF Step
<1>0. /\ pc[c] # "idle" => batch[c] \in Batches
      /\ PhaseAt(c, pc[c], snapshot[c], metrics[c])
  BY DEF IInv, HistoryOK, PhaseOK
<1>1. CASE Start(c)
  <2>1. CASE ConfigError(BatchConfig(batch[c]))
    BY <1>1, <2>1, ErrorKeeps DEF Start
  <2>2. CASE ~ ConfigError(BatchConfig(batch[c])) /\ Wants(batch[c], "master")
    <3>1. PhaseAt(c, "redirect", NoDocument, {})
      BY <2>2 DEF PhaseAt
    <3>2. "redirect" \in Labels
      BY DEF Labels
    <3>3. QED
      BY <1>1, <2>2, <3>1, <3>2, GoToKeeps DEF Start
  <2>3. CASE ~ ConfigError(BatchConfig(batch[c])) /\ ~ Wants(batch[c], "master")
    <3>1. Explained(c, "master", {})
      BY <2>3 DEF Explained
    <3>2. QED
      BY <1>1, <2>3, <3>1, AgentPhaseKeeps DEF Start
  <2>4. QED
    BY <2>1, <2>2, <2>3
<1>2. CASE IsLeader(c)
  <2>1. /\ pc[c] = "redirect" /\ Wants(batch[c], "master")
        /\ Master(c) # Unset /\ Master(c) \in Masters
    BY <1>0, <1>2, HostForService DEF IsLeader, PhaseAt, Wants, Master, Services
  <2>2. location[Master(c)] \in told[c] /\ location[Master(c)] \in Leaders
    BY <1>2, <2>1 DEF IInv, TypeOK, CallsTypeOK, ClusterTypeOK, IsLeader,
                      HistoryOK, Locations, Asked, Master, Services
  <2>3. CASE Leads(Master(c))
    <3>1. PhaseAt(c, "masterSnapshot", NoDocument, {})
      BY <2>1, <2>2, <2>3 DEF PhaseAt, ToldLeader, Leads, Master
    <3>2. "masterSnapshot" \in Labels
      BY DEF Labels
    <3>3. QED
      BY <1>2, <2>3, <3>1, <3>2, GoToKeeps DEF IsLeader
  <2>4. CASE ~ Leads(Master(c))
    <3>1. Explained(c, "master", {})
      BY <2>2, <2>4 DEF Explained, ToldFollower, Leads, Master
    <3>2. QED
      BY <1>2, <2>4, <3>1, AgentPhaseKeeps DEF IsLeader
  <2>5. QED
    BY <2>3, <2>4
<1>3. CASE NoLocation(c)
  BY <1>3, ErrorKeeps DEF NoLocation
<1>4. CASE NoResponse(c)
  <2>1. /\ pc[c] = "redirect" /\ Wants(batch[c], "master")
        /\ Master(c) # Unset /\ health[Master(c)] # "up"
    BY <1>0, <1>4 DEF NoResponse, PhaseAt, Wants, Master
  <2>2. Fatal(c)
    BY <2>1 DEF IInv, HistoryOK, Trouble, Asked, Services, Fatal, Master
  <2>3. QED
    BY <1>4, <2>1, <2>2, PanicKeeps DEF NoResponse
<1>5. CASE FetchFails(c)
  BY <1>5, ErrorKeeps DEF FetchFails
<1>6. CASE MasterSnapshot(c)
  <2>1. /\ pc[c] = "masterSnapshot" /\ Wants(batch[c], "master")
        /\ Master(c) # Unset /\ Master(c) \in Hosts
    BY <1>0, <1>6, HostForService DEF MasterSnapshot, PhaseAt, Wants, Master, Services
  <2>2. /\ document[Master(c)] \in Documents
        /\ [host |-> Master(c), document |-> document[Master(c)]] \in held[c]
    BY <2>1 DEF IInv, TypeOK, CallsTypeOK, ClusterTypeOK,
                HistoryOK, Readings, Asked, Master, Services
  <2>3. PhaseAt(c, "frameworks", document[Master(c)], {})
    BY <1>0, <2>1, <2>2 DEF PhaseAt
  <2>4. "frameworks" \in Labels
    BY DEF Labels
  <2>5. QED
    BY <1>6, <2>1, <2>2, <2>3, <2>4, GoToKeeps DEF MasterSnapshot
<1>7. CASE Frameworks(c)
  <2>1. /\ pc[c] = "frameworks" /\ Wants(batch[c], "master") /\ ToldLeader(c)
        /\ [host |-> Master(c), document |-> snapshot[c]] \in held[c]
        /\ snapshot[c] \in Documents
    BY <1>0, <1>7 DEF Frameworks, PhaseAt, IInv, TypeOK, CallsTypeOK
  <2>2. CASE Runs(batch[c], "master", snapshot[c])
    <3> DEFINE P == RenderAll(batch[c], "master", Master(c), snapshot[c],
                              document[Master(c)])
    <3>1. /\ P \subseteq Metric
          /\ \A m \in P : m.namespace.service = "master"
          /\ Explained(c, "master", P)
      BY <2>1, <2>2, RenderedExplained DEF Master, Services
    <3>2. AgentPhase(c, P)
      BY <1>7, <2>2 DEF Frameworks, GetFrameworks
    <3> HIDE DEF P
    <3>3. QED
      BY <2>1, <3>1, <3>2, AgentPhaseKeeps
  <2>3. CASE ~ Runs(batch[c], "master", snapshot[c])
    BY <1>7, <2>1, <2>3, ErrorKeeps DEF Frameworks
  <2>4. QED
    BY <2>2, <2>3
<1>8. CASE AgentSnapshot(c)
  <2>1. /\ pc[c] = "agentSnapshot" /\ Wants(batch[c], "agent")
        /\ Agent(c) # Unset /\ Agent(c) \in Hosts
    BY <1>0, <1>8, HostForService DEF AgentSnapshot, PhaseAt, Wants, Agent, Services
  <2>2. /\ document[Agent(c)] \in Documents
        /\ [host |-> Agent(c), document |-> document[Agent(c)]] \in held[c]
    BY <2>1 DEF IInv, TypeOK, CallsTypeOK, ClusterTypeOK,
                HistoryOK, Readings, Asked, Agent, Services
  <2>3. PhaseAt(c, "statistics", document[Agent(c)], metrics[c])
    BY <1>0, <2>1, <2>2 DEF PhaseAt
  <2>4. "statistics" \in Labels /\ metrics[c] \in SUBSET Metric
    BY DEF Labels, IInv, TypeOK
  <2>5. QED
    BY <1>8, <2>1, <2>2, <2>3, <2>4, GoToKeeps DEF AgentSnapshot
<1>9. CASE Statistics(c)
  <2>1. /\ pc[c] = "statistics" /\ Wants(batch[c], "agent")
        /\ \A m \in metrics[c] : m.namespace.service = "master"
        /\ Explained(c, "master", metrics[c])
        /\ [host |-> Agent(c), document |-> snapshot[c]] \in held[c]
        /\ snapshot[c] \in Documents /\ metrics[c] \subseteq Metric
    BY <1>0, <1>9 DEF Statistics, PhaseAt, IInv, TypeOK, CallsTypeOK
  <2> DEFINE P == RenderAll(batch[c], "agent", Agent(c), snapshot[c],
                            document[Agent(c)])
             M == metrics[c] \cup P
  <2>2. CASE Runs(batch[c], "agent", snapshot[c]) /\ Return(c, OK(M))
    <3>1. /\ P \subseteq Metric
          /\ \A m \in P : m.namespace.service = "agent"
          /\ Explained(c, "agent", P)
      BY <2>1, <2>2, RenderedExplained DEF Agent, Services
    <3> HIDE DEF P
    <3>2. Of(M, "master") = metrics[c] /\ Of(M, "agent") = P
      BY <2>1, <3>1 DEF Of
    <3>3. \A s \in Services : Explained(c, s, Of(M, s))
      BY <2>1, <3>1, <3>2 DEF Services
    <3>4. OK(M) \in Replies /\ OK(M).metrics = M
      BY <2>1, <3>1 DEF OK, Replies
    <3> HIDE DEF M
    <3>5. QED
      BY <1>9, <2>1, <2>2, <3>3, <3>4, ReturnKeeps
  <2>3. CASE \E j \in DOMAIN batch[c] : OutOfRange(batch[c][j].namespace) /\ Panic(c)
    <3>1. Fatal(c)
      BY <2>3 DEF Fatal
    <3>2. QED
      BY <2>1, <2>3, <3>1, PanicKeeps
  <2>4. CASE Return(c, Error)
    BY <2>1, <2>4, ErrorKeeps
  <2>5. QED
    BY <1>9, <2>2, <2>3, <2>4 DEF Statistics, GetMonitoringStatistics
<1>10. QED
  BY <1>1, <1>2, <1>3, <1>4, <1>5, <1>6, <1>7, <1>8, <1>9

(* The invariant holds when the plugin is loaded.                         *)
LEMMA InitHolds == Init => IInv
<1> SUFFICES ASSUME Init PROVE IInv
  OBVIOUS
<1>1. NoReply \in Replies /\ NoReply.status # "ok"
  BY DEF NoReply, Replies
<1>2. TypeOK
  BY <1>1, ClusterAssumption DEF Init, CallsInit, ClusterInit, TypeOK, CallsTypeOK, ClusterTypeOK, Labels
<1>3. \A c \in Calls : HistoryOK(c) /\ PhaseOK(c) /\ ReplyOK(c)
  BY <1>1 DEF Init, CallsInit, HistoryOK, PhaseOK, PhaseAt, ReplyOK, Collects
<1>4. QED
  BY <1>2, <1>3 DEF IInv

(* Every step keeps the invariant.                                        *)
LEMMA NextKeeps == IInv /\ [Next]_vars => IInv'
<1> SUFFICES ASSUME IInv, [Next]_vars PROVE IInv'
  OBVIOUS
<1>1. CASE \E c \in Calls, b \in Batches : Invoke(c, b)
  BY <1>1, InvokeKeeps
<1>2. CASE \E c \in Calls : Step(c)
  BY <1>2, StepKeeps
<1>3. CASE Restart \/ UNCHANGED vars
  <2>1. UNCHANGED <<cluster, history, batch, reply, pc, snapshot, metrics>>
    BY <1>3 DEF Restart, vars
  <2>2. TypeOK'
    BY <1>3, <2>1 DEF IInv, TypeOK, CallsTypeOK, ClusterTypeOK, Restart, vars,
                      cluster, history
  <2>3. \A c \in Calls : CallOK(c)'
    BY <2>1, CallUntouched DEF IInv, CallOK
  <2>4. QED
    BY <2>2, <2>3 DEF IInv, CallOK
<1>4. CASE ClusterMoves
  BY <1>4, ClusterMovesKeeps
<1>5. CASE Exit
  BY <1>5, ExitKeeps
<1>6. QED
  BY <1>1, <1>2, <1>3, <1>4, <1>5 DEF Next

(* The inductive invariant holds in every state of every execution.        *)
THEOREM Invariant == Spec => []IInv
<1>1. QED
  BY InitHolds, NextKeeps, PTL DEF Spec

(* Every variable keeps its type: what a call stores and returns is well   *)
(* formed, whatever the configuration and whatever the hosts answer.       *)
THEOREM TypeCorrect == Spec => []TypeOK
<1>1. IInv => TypeOK
  BY DEF IInv
<1>2. QED
  BY <1>1, Invariant, PTL

-----------------------------------------------------------------------------
(* If no name of a leader contains the name of another master, a call that *)
(* returns master metrics was told by its own master that it leads.        *)
THEOREM LeaderGateHolds ==
    ASSUME \A l \in Leaders, m \in Masters : <<l, m>> \in Contains => l = m
    PROVE  Spec => []LeaderGate
<1>1. IInv => LeaderGate
  <2> SUFFICES ASSUME IInv, NEW c \in Calls, Collects(c),
                      NEW m \in reply[c].metrics, m.namespace.service = "master"
               PROVE  Master(c) \in told[c]
    BY DEF LeaderGate
  <2>1. m \in Of(reply[c].metrics, "master")
    BY DEF Of
  <2>2. Wants(batch[c], "master") /\ ToldLeader(c) /\ batch[c] \in Batches
    BY <2>1 DEF IInv, ReplyOK, Explained, Services
  <2>3. Master(c) \in Masters
    BY <2>2, HostForService DEF Wants, Master, Services
  <2>4. PICK l \in told[c] : <<l, Master(c)>> \in Contains
    BY <2>2 DEF ToldLeader, Master
  <2>5. l \in Leaders
    BY <2>4, ContainsAssumption
  <2>6. QED
    BY <2>3, <2>4, <2>5
<1>2. QED
  BY <1>1, Invariant, PTL

(* The metrics of one answer are of one reading for each host and endpoint,*)
(* a reading of the call's own time, under the source tag of its host.     *)
THEOREM OneReadingHolds == Spec => []OneReading
<1>1. IInv => OneReading
  <2> SUFFICES ASSUME IInv, NEW c \in Calls, Collects(c)
               PROVE  \A m, n \in reply[c].metrics :
                /\ [host |-> m.source, document |-> m.reading] \in held[c]
                /\ m.namespace.service = "master" <=> m.source \in Masters
                /\ m.source = n.source /\ m.namespace.dynamic = n.namespace.dynamic
                      => m.reading = n.reading
    BY DEF OneReading
  <2> DEFINE Part(s) == Of(reply[c].metrics, s)
             Mine(s) == {r \in held[c] : r.host = HostFor(batch[c], s)}
  <2>1. batch[c] \in Batches /\ reply[c].metrics \subseteq Metric
    BY DEF IInv, ReplyOK, TypeOK, CallsTypeOK, Replies
  <2>2. \A r \in held[c] : r = [host |-> r.host, document |-> r.document]
    BY DEF IInv, TypeOK, CallsTypeOK
  <2>3. ASSUME NEW s \in Services, Part(s) # {}
        PROVE  \E q, r \in Mine(s) :
                 /\ HostFor(batch[c], s) # Unset
                 /\ \A m \in Part(s) :
                      /\ m.source = HostFor(batch[c], s)
                      /\ m.reading = IF m.namespace.dynamic
                                     THEN r.document ELSE q.document
    <3>1. PICK q, r \in Mine(s) :
             Collected(Part(s), batch[c], s, q.document, r.document)
      BY <2>3 DEF IInv, ReplyOK, Explained
    <3>2. Wants(batch[c], s)
      BY <2>3 DEF IInv, ReplyOK, Explained
    <3>3. QED
      BY <3>1, <3>2 DEF Collected, Wants
  <2>4. ASSUME NEW m \in reply[c].metrics
        PROVE  \E s \in Services : m.namespace.service = s /\ m \in Part(s)
    BY <2>1 DEF Metric, Namespaces, Of
  <2>5. ASSUME NEW s \in Services, NEW m \in Part(s)
        PROVE  /\ [host |-> m.source, document |-> m.reading] \in held[c]
               /\ m.source = HostFor(batch[c], s)
               /\ s = "master" <=> m.source \in Masters
    <3>1. PICK q, r \in Mine(s) :
             /\ HostFor(batch[c], s) # Unset
             /\ m.source = HostFor(batch[c], s)
             /\ m.reading = IF m.namespace.dynamic THEN r.document ELSE q.document
      BY <2>3, <2>5
    <3>2. [host |-> m.source, document |-> m.reading] \in held[c]
      BY <2>2, <3>1
    <3>3. s = "master" <=> m.source \in Masters
      BY <2>1, <3>1, HostForService, HostsAssumption DEF Services
    <3>4. QED
      BY <3>1, <3>2, <3>3
  <2>6. ASSUME NEW m \in reply[c].metrics, NEW n \in reply[c].metrics,
               m.source = n.source, m.namespace.dynamic = n.namespace.dynamic
        PROVE  m.reading = n.reading
    <3>1. PICK s \in Services : m \in Part(s)
      BY <2>4
    <3>2. PICK t \in Services : n \in Part(t)
      BY <2>4
    <3>3. s = t
      <4>1. (s = "master" <=> m.source \in Masters)
            /\ (t = "master" <=> n.source \in Masters)
        BY <2>5, <3>1, <3>2
      <4>2. QED
        BY <2>6, <4>1 DEF Services
    <3>4. QED
      BY <2>3, <2>6, <3>1, <3>2, <3>3
  <2>7. QED
    BY <2>4, <2>5, <2>6 DEF Of
<1>2. QED
  BY <1>1, Invariant, PTL

(* An answer leaves out nothing that was asked for and was there all along,*)
(* but for a master that was told of another leader.                       *)
THEOREM NothingDroppedHolds == Spec => []NothingDropped
<1>1. IInv => NothingDropped
  <2> SUFFICES ASSUME IInv, NEW c \in Calls, Collects(c),
                      NEW i \in DOMAIN batch[c]
               PROVE
            LET ns == batch[c][i].namespace
                host == HostFor(batch[c], ns.service)
                was == {r.document : r \in {q \in held[c] : q.host = host}}
                got == {m.instance : m \in {n \in reply[c].metrics : n.namespace = ns}}
                skipped == /\ ns.service = "master"
                           /\ \E l \in told[c] : l # Nowhere /\ <<l, host>> \notin Contains
            IN  \/ host = Unset
                \/ skipped
                \/ ~ ns.dynamic /\ NoInstance \in got
                \/ /\ ns.dynamic
                   /\ {x \in Instances : \A d \in was : <<x, ns.key>> \in d.listing}
                         \subseteq got
    BY DEF NothingDropped
  <2> DEFINE ns == batch[c][i].namespace
             s == ns.service
             host == HostFor(batch[c], s)
             mine == {q \in held[c] : q.host = host}
             P == Of(reply[c].metrics, s)
  <2>1. batch[c] \in Batches /\ ns \in Namespaces /\ s \in Services
    <3>1. batch[c] \in Batches
      BY DEF IInv, ReplyOK
    <3>2. QED
      BY <3>1, BatchShape DEF Namespaces
  <2>2. i \in Requested(batch[c], s)
    BY DEF Requested
  <2>3. Explained(c, s, P)
    BY <2>1 DEF IInv, ReplyOK
  <2>4. CASE ~ Wants(batch[c], s)
    BY <2>2, <2>4 DEF Wants
  <2>5. CASE s = "master" /\ ToldFollower(c)
    BY <2>5, ClusterAssumption DEF ToldFollower
  <2>6. CASE \E q, r \in mine : Collected(P, batch[c], s, q.document, r.document)
    <3>1. PICK q, r \in mine : Collected(P, batch[c], s, q.document, r.document)
      BY <2>6
    <3>2. ns \in {batch[c][j].namespace : j \in Requested(batch[c], s)}
      BY <2>2
    <3>3. CASE ~ ns.dynamic
      <4>1. PICK m \in P : m.namespace = ns
        BY <3>1, <3>2, <3>3 DEF Collected
      <4>2. m.instance = NoInstance
        BY <3>1, <3>3, <4>1 DEF Collected
      <4>3. m \in reply[c].metrics
        BY <4>1 DEF Of
      <4>4. QED
        BY <3>3, <4>1, <4>2, <4>3
    <3>4. CASE ns.dynamic
      <4>1. ASSUME NEW x \in Instances,
                   \A d \in {z.document : z \in mine} : <<x, ns.key>> \in d.listing
            PROVE  \E m \in reply[c].metrics : m.namespace = ns /\ m.instance = x
        <5>1. <<x, ns.key>> \in r.document.listing
          BY <3>1, <4>1
        <5>2. \E m \in P : m.namespace = ns /\ m.instance = x
          BY <3>1, <3>2, <3>4, <5>1 DEF Collected
        <5>3. QED
          BY <5>2 DEF Of
      <4>2. QED
        BY <3>4, <4>1
    <3>5. QED
      BY <3>3, <3>4
  <2>7. QED
    BY <2>3, <2>4, <2>5, <2>6 DEF Explained
<1>2. QED
  BY <1>1, Invariant, PTL
=============================================================================
