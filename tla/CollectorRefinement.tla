------------------------ MODULE CollectorRefinement ------------------------
(***************************************************************************)
(* Proof that Collector implements Collection: the calls in flight are the *)
(* active ones, an exchange is a stutter, and every return is an answer    *)
(* the call's history explains.                                            *)
(***************************************************************************)
EXTENDS CollectorProofs

active == [c \in Calls |-> pc[c] # "idle"]

(* The definitions Collection shares with Collector mean the same there:   *)
(* none of them mentions active.                                           *)
LEMMA SameRequests ==
    /\ Abstract!Hosts = Hosts
    /\ Abstract!Services = Services
    /\ Abstract!Metric = Metric
    /\ Abstract!NoReply = NoReply
    /\ Abstract!Error = Error
    /\ Abstract!Lost = Lost
    /\ \A M : Abstract!OK(M) = OK(M)
    /\ \A b, s : Abstract!HostFor(b, s) = HostFor(b, s)
    /\ \A b, s : Abstract!Requested(b, s) = Requested(b, s)
    /\ \A b, s : Abstract!Wants(b, s) <=> Wants(b, s)
    /\ \A b : Abstract!ConfigError(Abstract!BatchConfig(b))
                 <=> ConfigError(BatchConfig(b))
    /\ \A ns, d : Abstract!NotFound(ns, d) <=> NotFound(ns, d)
    /\ \A ns : Abstract!OutOfRange(ns) <=> OutOfRange(ns)
<1>1. Abstract!Hosts = Hosts /\ Abstract!Services = Services
  BY DEF Abstract!Hosts, Hosts, Abstract!Services, Services
<1>2. Abstract!Metric = Metric
  BY <1>1 DEF Abstract!Metric, Metric, Abstract!Namespaces, Namespaces
<1>3. /\ Abstract!NoReply = NoReply /\ Abstract!Error = Error
      /\ Abstract!Lost = Lost /\ \A M : Abstract!OK(M) = OK(M)
  BY DEF Abstract!NoReply, NoReply, Abstract!Error, Error, Abstract!Lost, Lost,
         Abstract!OK, OK
<1>4. \A b, s : Abstract!HostFor(b, s) = HostFor(b, s)
  BY DEF Abstract!HostFor, HostFor, Abstract!BatchConfig, BatchConfig,
         Abstract!Configured, Configured
<1>5. \A b, s : Abstract!Requested(b, s) = Requested(b, s)
  BY DEF Abstract!Requested, Requested
<1>6. \A b, s : Abstract!Wants(b, s) <=> Wants(b, s)
  BY <1>4, <1>5 DEF Abstract!Wants, Wants
<1>7. \A b : Abstract!ConfigError(Abstract!BatchConfig(b))
                <=> ConfigError(BatchConfig(b))
  BY DEF Abstract!ConfigError, ConfigError, Abstract!BatchConfig, BatchConfig
<1>8. /\ \A ns, d : Abstract!NotFound(ns, d) <=> NotFound(ns, d)
      /\ \A ns : Abstract!OutOfRange(ns) <=> OutOfRange(ns)
  BY DEF Abstract!NotFound, NotFound, Abstract!OutOfRange, OutOfRange
<1>9. QED
  BY <1>1, <1>2, <1>3, <1>4, <1>5, <1>6, <1>7, <1>8

(* Collection judges answers as Collector does.                           *)
LEMMA SameAnswers ==
    /\ \A c, s, P : Abstract!Explained(c, s, P) <=> Explained(c, s, P)
    /\ \A c, r : Abstract!Answers(c, r) <=> Answers(c, r)
    /\ \A c : Abstract!Fatal(c) <=> Fatal(c)
<1>1. \A P, b, s, d, l : Abstract!Collected(P, b, s, d, l) <=> Collected(P, b, s, d, l)
  BY SameRequests DEF Abstract!Collected, Collected
<1>2. \A c : /\ Abstract!ToldLeader(c) <=> ToldLeader(c)
             /\ Abstract!ToldFollower(c) <=> ToldFollower(c)
  BY SameRequests DEF Abstract!ToldLeader, ToldLeader,
                      Abstract!ToldFollower, ToldFollower
<1>3. \A c, s, P : Abstract!Explained(c, s, P) <=> Explained(c, s, P)
  BY <1>1, <1>2, SameRequests DEF Abstract!Explained, Explained
<1>4. \A c : Abstract!Excused(c) <=> Excused(c)
  BY SameRequests DEF Abstract!Excused, Excused
<1>5. \A M, s : Abstract!Of(M, s) = Of(M, s)
  BY DEF Abstract!Of, Of
<1>6. \A c, r : Abstract!Answers(c, r) <=> Answers(c, r)
  BY <1>3, <1>4, <1>5, SameRequests DEF Abstract!Answers, Answers
<1>7. \A c : Abstract!Fatal(c) <=> Fatal(c)
  BY SameRequests DEF Abstract!Fatal, Fatal
<1>8. QED
  BY <1>3, <1>6, <1>7

(* Collection opens calls and moves the cluster as Collector does.        *)
LEMMA SameCalls ==
    /\ Abstract!CallsInit <=> CallsInit
    /\ \A c, b : Abstract!Open(c, b) <=> Open(c, b)
    /\ \A S : Abstract!Move(S) <=> Move(S)
    /\ Abstract!cluster = cluster /\ Abstract!history = history
<1>1. Abstract!cluster = cluster /\ Abstract!history = history
  BY DEF Abstract!cluster, cluster, Abstract!history, history
<1>2. Abstract!CallsInit <=> CallsInit
  BY SameRequests DEF Abstract!CallsInit, CallsInit, Abstract!ClusterInit,
     ClusterInit, Abstract!NoBatch, NoBatch
<1>3. \A b : /\ Abstract!Locations(b) = Locations(b)
             /\ Abstract!Readings(b) = Readings(b)
             /\ Abstract!Trouble(b) = Trouble(b)
  BY SameRequests DEF Abstract!Locations, Locations, Abstract!Readings, Readings,
     Abstract!Trouble, Trouble, Abstract!Asked, Asked
<1>4. \A c, b : Abstract!Open(c, b) <=> Open(c, b)
  BY <1>3 DEF Abstract!Open, Open, Abstract!cluster, cluster
<1>5. Abstract!ClusterStep <=> ClusterStep
  BY SameRequests DEF Abstract!ClusterStep, ClusterStep, Abstract!Redirect, Redirect,
     Abstract!Refresh, Refresh, Abstract!Change, Change
<1>6. \A S : Abstract!Move(S) <=> Move(S)
  BY <1>5, SameRequests DEF Abstract!Move, Move, Abstract!Locations, Locations,
     Abstract!Readings, Readings, Abstract!Trouble, Trouble, Abstract!Asked, Asked
<1>7. QED
  BY <1>1, <1>2, <1>4, <1>6

-----------------------------------------------------------------------------
(* A step of a call maps to a stutter, an answer or the crash. *)

(* The call goes on: nothing an observer sees changes. *)
LEMMA GoToStutters ==
    ASSUME IInv, NEW c \in Calls, pc[c] # "idle",
           NEW label, label # "idle", NEW got, NEW M,
           GoTo(c, label, got, M), UNCHANGED <<cluster, history, batch>>
    PROVE  UNCHANGED Abstract!vars
<1>1. active' = active
  BY DEF active, GoTo, IInv, TypeOK
<1>2. QED
  BY <1>1 DEF GoTo, Abstract!vars, Abstract!cluster, Abstract!history,
              cluster, history, active

(* A call that returns a rightful answer, or an error with an excuse.      *)
LEMMA ReturnAnswers ==
    ASSUME IInv, IInv', NEW c \in Calls, pc[c] # "idle", NEW r,
           r = Error => Excused(c),
           r # Error => \E M : r = OK(M),
           Return(c, r), UNCHANGED <<cluster, history, batch>>
    PROVE  Abstract!Next
<1>1. active' = [active EXCEPT ![c] = FALSE] /\ active[c]
  BY DEF active, Return, IInv, TypeOK
<1>2. reply'[c] = r /\ reply' = [reply EXCEPT ![c] = reply'[c]]
  BY DEF Return, IInv, TypeOK, CallsTypeOK
<1>3. Answers(c, r)
  <2>1. CASE r = Error
    BY <2>1 DEF Answers
  <2>2. CASE r # Error
    <3>1. PICK M : r = OK(M)
      BY <2>2
    <3>2. r = OK(r.metrics) /\ r.status = "ok"
      BY <3>1 DEF OK
    <3>3. r.metrics \subseteq Metric
      BY <1>2 DEF IInv, TypeOK, CallsTypeOK, Replies
    <3>4. ASSUME NEW s \in Services
          PROVE  Explained(c, s, Of(r.metrics, s))
      <4>1. Explained(c, s, Of(r.metrics, s))'
        BY <1>2, <3>2 DEF IInv, ReplyOK, Collects
      <4>2. QED
        BY <4>1 DEF Explained, ToldLeader, ToldFollower, Of, history
    <3>5. QED
      BY <3>2, <3>3, <3>4 DEF Answers
  <2>3. QED
    BY <2>1, <2>2
<1>4. Abstract!Answers(c, reply'[c])
  BY <1>2, <1>3, SameAnswers
<1>5. Abstract!Answer(c)
  BY <1>1, <1>2, <1>4 DEF Abstract!Answer, active, Abstract!cluster,
     Abstract!history, cluster, history
<1>6. QED
  BY <1>5 DEF Abstract!Next

(* A panic is not seen yet. *)
LEMMA PanicStutters ==
    ASSUME IInv, NEW c \in Calls, pc[c] # "idle",
           Panic(c), UNCHANGED <<cluster, history, batch>>
    PROVE  UNCHANGED Abstract!vars
BY GoToStutters DEF Panic

(* The end of the process is the crash of the abstract view. *)
LEMMA ExitCrashes ==
    ASSUME IInv, Exit
    PROVE  Abstract!Next
<1>0. PICK c \in Calls : pc[c] = "panicked" /\ Fatal(c)
  BY DEF Exit, IInv, PhaseOK, PhaseAt
<1>1. active' = [d \in Calls |-> FALSE] /\ \A d \in Calls : active[d] <=> d \in InFlight
  BY DEF active, Exit, InFlight
<1>2. c \in Abstract!InFlight /\ Abstract!Fatal(c)
  BY <1>0, SameAnswers DEF Abstract!InFlight, InFlight, active
<1>3. reply' = [d \in Calls |-> IF active[d] THEN Abstract!Lost ELSE reply[d]]
  BY <1>1, SameRequests DEF Exit
<1>4. Abstract!Crash
  BY <1>1, <1>2, <1>3 DEF Abstract!Crash, active, Abstract!cluster,
     Abstract!history, cluster, history, Exit
<1>5. QED
  BY <1>4 DEF Abstract!Next

(* A host of a call in flight that is not up now excuses an error.         *)
LEMMA TroubleExcuses ==
    ASSUME IInv, NEW c \in Calls, pc[c] # "idle",
           NEW h \in Asked(batch[c]), health[h] # "up"
    PROVE  Excused(c)
BY DEF IInv, HistoryOK, Trouble, Excused

(* The host of a service a call wants is one it asks. *)
LEMMA WantedIsAsked ==
    ASSUME IInv, NEW c \in Calls, pc[c] # "idle",
           NEW s \in Services, Wants(batch[c], s)
    PROVE  HostFor(batch[c], s) \in Asked(batch[c])
BY DEF Wants, Asked

(* The end of the master phase answers, or changes nothing in Collection. *)
LEMMA AgentPhaseImplements ==
    ASSUME IInv, IInv', NEW c \in Calls, pc[c] # "idle", NEW M,
           AgentPhase(c, M), UNCHANGED <<cluster, history, batch>>
    PROVE  Abstract!Next \/ UNCHANGED Abstract!vars
<1>1. CASE GoTo(c, "agentSnapshot", NoDocument, M)
  BY <1>1, GoToStutters
<1>2. CASE Return(c, OK(M))
  <2>1. OK(M) # Error
    BY DEF OK, Error
  <2>2. QED
    BY <1>2, <2>1, ReturnAnswers
<1>3. QED
  BY <1>1, <1>2 DEF AgentPhase

(* A render loop that stops early does so at a key that the snapshot it    *)
(* read did not hold, or at a namespace that is too short.                 *)
LEMMA StopExcuses ==
    ASSUME IInv, NEW c \in Calls, pc[c] # "idle",
           NEW s \in Services, NEW i \in Requested(batch[c], s),
           Stops(batch[c][i].namespace, snapshot[c]),
           [host |-> HostFor(batch[c], s), document |-> snapshot[c]] \in held[c]
    PROVE  \/ OutOfRange(batch[c][i].namespace) /\ s = "agent"
           \/ Excused(c)
<1>1. i \in DOMAIN batch[c] /\ batch[c][i].namespace.service = s
  BY DEF Requested
<1>2. OutOfRange(batch[c][i].namespace) => s = "agent"
  BY <1>1 DEF OutOfRange
<1>3. ASSUME ~ OutOfRange(batch[c][i].namespace)
      PROVE  Excused(c)
  <2> DEFINE r == [host |-> HostFor(batch[c], s), document |-> snapshot[c]]
  <2>1. NotFound(batch[c][i].namespace, r.document)
    BY <1>3 DEF Stops
  <2>2. r.host = HostFor(batch[c], batch[c][i].namespace.service)
    BY <1>1
  <2>3. r \in held[c]
    OBVIOUS
  <2> HIDE DEF r
  <2>4. QED
    BY <1>1, <2>1, <2>2, <2>3 DEF Excused
<1>4. QED
  BY <1>2, <1>3

(* An excused error is an answer of Collection.                           *)
LEMMA ErrorImplements ==
    ASSUME IInv, IInv', NEW c \in Calls, pc[c] # "idle", Excused(c),
           Return(c, Error), UNCHANGED <<cluster, history, batch>>
    PROVE  Abstract!Next
BY ReturnAnswers

(* A step of a call in flight is an answer of Collection, or a stutter.   *)
LEMMA StepImplements ==
    ASSUME IInv, IInv', NEW c \in Calls, Step(c)
    PROVE  Abstract!Next \/ UNCHANGED Abstract!vars
<1>1. UNCHANGED <<cluster, history, batch>>
  BY DEF Step
<1>2. /\ pc[c] # "idle" => batch[c] \in Batches
      /\ PhaseAt(c, pc[c], snapshot[c], metrics[c])
      /\ "master" \in Services /\ "agent" \in Services
  BY DEF IInv, HistoryOK, PhaseOK, Services
<1>3. CASE Start(c)
  <2>1. pc[c] # "idle"
    BY <1>3 DEF Start
  <2>2. CASE ConfigError(BatchConfig(batch[c])) /\ Return(c, Error)
    <3>1. Excused(c)
      BY <2>2 DEF Excused
    <3>2. QED
      BY <1>1, <2>1, <2>2, <3>1, ErrorImplements
  <2>3. CASE GoTo(c, "redirect", NoDocument, {})
    BY <1>1, <2>1, <2>3, GoToStutters
  <2>4. CASE AgentPhase(c, {})
    BY <1>1, <2>1, <2>4, AgentPhaseImplements
  <2>5. QED
    BY <1>3, <2>2, <2>3, <2>4 DEF Start
<1>4. CASE IsLeader(c)
  <2>1. CASE GoTo(c, "masterSnapshot", NoDocument, {})
    BY <1>1, <1>4, <2>1, GoToStutters DEF IsLeader
  <2>2. CASE AgentPhase(c, {})
    BY <1>1, <1>4, <2>2, AgentPhaseImplements DEF IsLeader
  <2>3. QED
    BY <1>4, <2>1, <2>2 DEF IsLeader
<1>5. CASE NoLocation(c) \/ NoResponse(c)
  <2>1. pc[c] = "redirect" /\ Wants(batch[c], "master")
    BY <1>2, <1>5 DEF NoLocation, NoResponse, PhaseAt
  <2>2. Master(c) \in Asked(batch[c]) /\ Master(c) \in Masters
    BY <1>2, <2>1, WantedIsAsked, HostForService DEF Master, Wants
  <2>3. CASE NoLocation(c)
    <3>1. CASE health[Master(c)] # "up"
      <4>1. Excused(c)
        BY <2>1, <2>2, <3>1, TroubleExcuses
      <4>2. QED
        BY <1>1, <2>1, <2>3, <4>1, ErrorImplements DEF NoLocation
    <3>2. CASE location[Master(c)] = Nowhere
      <4>1. Nowhere \in told[c]
        BY <2>1, <2>2, <3>2 DEF IInv, HistoryOK, Locations
      <4>2. Excused(c)
        BY <4>1 DEF Excused
      <4>3. QED
        BY <1>1, <2>1, <2>3, <4>2, ErrorImplements DEF NoLocation
    <3>3. QED
      BY <2>3, <3>1, <3>2 DEF NoLocation
  <2>4. CASE NoResponse(c)
    BY <1>1, <2>1, <2>4, PanicStutters DEF NoResponse
  <2>5. QED
    BY <1>5, <2>3, <2>4
<1>6. CASE FetchFails(c)
  <2>1. pc[c] # "idle" /\ Return(c, Error)
    BY <1>6 DEF FetchFails
  <2>2. \E h \in Asked(batch[c]) : health[h] # "up"
    <3>1. CASE /\ pc[c] \in {"masterSnapshot", "frameworks"}
               /\ health[Master(c)] \in {"failing", "down"}
      BY <1>2, <3>1, WantedIsAsked DEF PhaseAt, Master
    <3>2. CASE /\ pc[c] \in {"agentSnapshot", "statistics"}
               /\ health[Agent(c)] \in {"failing", "down"}
      BY <1>2, <3>2, WantedIsAsked DEF PhaseAt, Agent
    <3>3. QED
      BY <1>6, <3>1, <3>2 DEF FetchFails
  <2>3. Excused(c)
    BY <2>1, <2>2, TroubleExcuses
  <2>4. QED
    BY <1>1, <2>1, <2>3, ErrorImplements
<1>7. CASE MasterSnapshot(c) \/ AgentSnapshot(c)
  BY <1>1, <1>7, GoToStutters DEF MasterSnapshot, AgentSnapshot
<1>8. CASE Frameworks(c)
  <2>1. /\ pc[c] = "frameworks"
        /\ [host |-> HostFor(batch[c], "master"), document |-> snapshot[c]] \in held[c]
    BY <1>2, <1>8 DEF Frameworks, PhaseAt, Master
  <2>2. CASE \E M : AgentPhase(c, M)
    BY <1>1, <2>1, <2>2, AgentPhaseImplements
  <2>3. CASE ~ Runs(batch[c], "master", snapshot[c]) /\ Return(c, Error)
    <3>1. PICK i \in Requested(batch[c], "master") :
             Stops(batch[c][i].namespace, snapshot[c])
      BY <2>3 DEF Runs
    <3>2. Excused(c)
      BY <1>2, <2>1, <3>1, StopExcuses
    <3>3. QED
      BY <1>1, <2>1, <2>3, <3>2, ErrorImplements
  <2>4. QED
    BY <1>8, <2>2, <2>3 DEF Frameworks
<1>9. CASE Statistics(c)
  <2>1. /\ pc[c] = "statistics"
        /\ [host |-> HostFor(batch[c], "agent"), document |-> snapshot[c]] \in held[c]
    BY <1>2, <1>9 DEF Statistics, PhaseAt, Agent
  <2>2. CASE \E M : Return(c, OK(M))
    <3>1. \A M : OK(M) # Error
      BY DEF OK, Error
    <3>2. QED
      BY <1>1, <2>1, <2>2, <3>1, ReturnAnswers
  <2>3. CASE \E i \in DOMAIN batch[c] :
                /\ StopsAt(batch[c], "agent", snapshot[c], i)
                /\ IF OutOfRange(batch[c][i].namespace) THEN Panic(c) ELSE Return(c, Error)
    <3>1. PICK i \in Requested(batch[c], "agent") :
             /\ Stops(batch[c][i].namespace, snapshot[c])
             /\ IF OutOfRange(batch[c][i].namespace) THEN Panic(c) ELSE Return(c, Error)
      BY <2>3 DEF StopsAt
    <3>2. CASE OutOfRange(batch[c][i].namespace)
      BY <1>1, <2>1, <3>1, <3>2, PanicStutters
    <3>3. CASE ~ OutOfRange(batch[c][i].namespace)
      <4>1. Excused(c)
        BY <1>2, <2>1, <3>1, <3>3, StopExcuses
      <4>2. QED
        BY <1>1, <2>1, <3>1, <3>3, <4>1, ErrorImplements
    <3>4. QED
      BY <3>2, <3>3
  <2>4. QED
    BY <1>9, <2>2, <2>3 DEF Statistics
<1>10. QED
  BY <1>3, <1>4, <1>5, <1>6, <1>7, <1>8, <1>9 DEF Step

(* A call that opens opens in Collection.                                 *)
LEMMA InvokeImplements ==
    ASSUME IInv, NEW c \in Calls, NEW b \in Batches, Invoke(c, b)
    PROVE  Abstract!Next
<1>1. ~ active[c] /\ active' = [active EXCEPT ![c] = TRUE]
  BY DEF Invoke, active, IInv, TypeOK
<1>2. Abstract!Open(c, b) /\ reply' = [reply EXCEPT ![c] = Abstract!NoReply]
  BY SameCalls, SameRequests DEF Invoke
<1>3. Abstract!Invoke(c, b)
  BY <1>1, <1>2 DEF Abstract!Invoke, active
<1>4. QED
  BY <1>3 DEF Abstract!Next

(* A move of the cluster is one in Collection.                            *)
LEMMA ClusterMovesImplements ==
    ASSUME IInv, ClusterMoves
    PROVE  Abstract!Next
<1>1. Abstract!InFlight = InFlight
  BY DEF Abstract!InFlight, InFlight
<1>2. Abstract!Move(Abstract!InFlight)
  BY <1>1, SameCalls DEF ClusterMoves
<1>3. Abstract!ClusterMoves
  BY <1>2 DEF Abstract!ClusterMoves, ClusterMoves
<1>4. QED
  BY <1>3 DEF Abstract!Next

(* Every step is one of Collection or changes nothing in it.               *)
LEMMA NextImplements ==
    IInv /\ IInv' /\ [Next]_vars => [Abstract!Next]_(Abstract!vars)
<1> SUFFICES ASSUME IInv, IInv', [Next]_vars
             PROVE  Abstract!Next \/ UNCHANGED Abstract!vars
  OBVIOUS
<1>1. CASE \E c \in Calls, b \in Batches : Invoke(c, b)
  BY <1>1, InvokeImplements
<1>2. CASE \E c \in Calls : Step(c)
  BY <1>2, StepImplements
<1>3. CASE Restart \/ UNCHANGED vars
  BY <1>3 DEF Restart, vars, Abstract!vars, Abstract!cluster, Abstract!history,
              cluster, history
<1>4. CASE ClusterMoves
  BY <1>4, ClusterMovesImplements
<1>5. CASE Exit
  BY <1>5, ExitCrashes
<1>6. QED
  BY <1>1, <1>2, <1>3, <1>4, <1>5 DEF Next

(* CollectMetrics keeps its promise: every answer it ever gives is         *)
(* explained by the configuration and by what the hosts of the call showed *)
(* while it was in flight, for any number of calls and any cluster.        *)
THEOREM PromiseKept == Spec => Promise
<1>1. Init => Abstract!Init
  BY SameCalls DEF Init, Abstract!Init
<1>2. QED
  BY <1>1, NextImplements, Invariant, PTL DEF Spec, Promise, Abstract!Spec
=============================================================================
