-------------------------- MODULE HttpClientProofs --------------------------
(***************************************************************************)
(* Theorems about HttpClient: it implements Fetching, for any number of    *)
(* fetches and any documents, and closes what it opened.                   *)
(***************************************************************************)
EXTENDS HttpClient, TLAPS

LEMMA InitOK == Init => IInv
BY DEF Init, IInv, TypeOK, Clients, NewClient, Targets, Endpoints, Responses, Empty,
       Response

(* Return leaves a fetch idle, with no open body. *)
LEMMA ReturnOK ==
    ASSUME IInv, NEW f \in Fetches, NEW a, Return(f, a), pc[f] # "idle",
           target' \in [Fetches -> Targets],
           \A g \in Fetches \ {f} : target'[g] = target[g]
    PROVE  IInv'
<1>1. TypeOK'
    BY DEF IInv, TypeOK, Return
<1>2. ASSUME NEW g \in Fetches, g # f
      PROVE  /\ pc'[g] = pc[g] /\ body'[g] = body[g] /\ target'[g] = target[g]
             /\ asked' = asked
    BY <1>2 DEF IInv, TypeOK, Return
<1>3. pc'[f] = "idle" /\ body'[f] # "open"
    BY DEF IInv, TypeOK, Return
<1> QED BY <1>1, <1>2, <1>3 DEF IInv, Response

(* A step to the next exchange. *)
LEMMA GoToOK ==
    ASSUME IInv, NEW f \in Fetches, NEW label \in {"status", "read", "unmarshal"},
           GoTo(f, label), pc[f] # "idle",
           body' = [body EXCEPT ![f] = "open"],
           Response(f).kind = "answer",
           label \in {"read", "unmarshal"} => Response(f).ok,
           label = "unmarshal" => Response(f).body.kind # "cut"
    PROVE  IInv'
<1>1. TypeOK'
    BY DEF IInv, TypeOK, GoTo
<1>2. ASSUME NEW g \in Fetches, g # f
      PROVE  pc'[g] = pc[g] /\ body'[g] = body[g]
    BY <1>2 DEF IInv, TypeOK, GoTo
<1>3. pc'[f] = label /\ body'[f] = "open" /\ asked' = asked /\ target' = target
    BY DEF IInv, TypeOK, GoTo
<1> QED BY <1>1, <1>2, <1>3 DEF IInv, Response

LEMMA UnmarshalledTyped ==
    ASSUME IInv, NEW f \in Fetches, Response(f).kind = "answer"
    PROVE  Unmarshalled(f) \in Targets
<1>1. Response(f).body \in Abstract!Bodies
    BY DEF IInv, TypeOK, Responses, Response, Abstract!Responses
<1>2. target[f] \in Targets
    BY DEF IInv, TypeOK
<1> QED BY <1>1, <1>2 DEF Unmarshalled, Targets, Abstract!Bodies

(* The four steps of Fetch are returns or steps to the next exchange.      *)
LEMMA StepOK == IInv /\ [Next]_vars => IInv'
<1> SUFFICES ASSUME IInv, [Next]_vars PROVE IInv'
    OBVIOUS
<1>1. ASSUME NEW f \in Fetches, NEW h \in Hosts, NEW e \in Endpoints,
             NEW r \in Responses, Ask(f, h, e, r)
      PROVE  IInv'
    <2>1. TypeOK'
        BY <1>1 DEF IInv, TypeOK, Ask, Clients, NewClient, Targets, Empty
    <2>2. ASSUME NEW g \in Fetches, g # f
          PROVE  /\ pc'[g] = pc[g] /\ body'[g] = body[g] /\ target'[g] = target[g]
                 /\ asked'[g] = asked[g]
        BY <1>1, <2>2 DEF IInv, TypeOK, Ask
    <2>3. pc'[f] = "get" /\ body'[f] = "none" /\ target'[f] = Empty
        BY <1>1 DEF IInv, TypeOK, Ask
    <2> QED BY <2>1, <2>2, <2>3 DEF IInv, Response
<1>2. ASSUME NEW f \in Fetches, Get(f) PROVE IInv'
    <2>1. CASE Response(f).kind = "refused"
        BY <1>2, <2>1, ReturnOK DEF Get, IInv, TypeOK
    <2>2. CASE Response(f).kind = "answer"
        BY <1>2, <2>2, GoToOK DEF Get, IInv, TypeOK
    <2> QED BY <1>2, <2>1, <2>2 DEF Get
<1>3. ASSUME NEW f \in Fetches, Status(f) PROVE IInv'
    <2>1. Response(f).kind = "answer" /\ body[f] = "open" /\ pc[f] # "idle"
        BY <1>3 DEF Status, IInv
    <2>2. CASE Response(f).ok
        <3>1. GoTo(f, "read") /\ body' = [body EXCEPT ![f] = "open"]
            BY <1>3, <2>1, <2>2 DEF Status, IInv, TypeOK
        <3> QED BY <2>1, <2>2, <3>1, GoToOK
    <2>3. CASE ~ Response(f).ok
        BY <1>3, <2>1, <2>3, ReturnOK DEF Status, IInv, TypeOK
    <2> QED BY <2>2, <2>3
<1>4. ASSUME NEW f \in Fetches, Read(f) PROVE IInv'
    <2>1. Response(f).kind = "answer" /\ Response(f).ok /\ body[f] = "open" /\ pc[f] # "idle"
        BY <1>4 DEF Read, IInv
    <2>2. CASE Response(f).body.kind = "cut"
        BY <1>4, <2>1, <2>2, ReturnOK DEF Read, IInv, TypeOK
    <2>3. CASE Response(f).body.kind # "cut"
        <3>1. GoTo(f, "unmarshal") /\ body' = [body EXCEPT ![f] = "open"]
            BY <1>4, <2>1, <2>3 DEF Read, IInv, TypeOK
        <3> QED BY <2>1, <2>3, <3>1, GoToOK
    <2> QED BY <2>2, <2>3
<1>5. ASSUME NEW f \in Fetches, Unmarshal(f) PROVE IInv'
    <2>1. Response(f).kind = "answer" /\ pc[f] # "idle"
        BY <1>5 DEF Unmarshal, IInv
    <2>2. Unmarshalled(f) \in Targets
        BY <2>1, UnmarshalledTyped
    <2>3. /\ target' \in [Fetches -> Targets]
          /\ \A g \in Fetches \ {f} : target'[g] = target[g]
        BY <1>5, <2>2 DEF Unmarshal, IInv, TypeOK
    <2> QED BY <1>5, <2>1, <2>3, ReturnOK DEF Unmarshal
<1>6. CASE UNCHANGED vars
    BY <1>6 DEF vars, IInv, TypeOK, Response
<1> QED BY <1>1, <1>2, <1>3, <1>4, <1>5, <1>6 DEF Next, Fetch

(* Each step of a fetch keeps what the steps before it established.        *)
THEOREM Invariant == Spec => []IInv
BY InitOK, StepOK, PTL DEF Spec

(* No fetch that is over holds an open body. *)
THEOREM BodiesClosedHolds == Spec => []BodiesClosed
<1>1. IInv => BodiesClosed
    BY DEF IInv, BodiesClosed
<1> QED BY <1>1, Invariant, PTL

-----------------------------------------------------------------------------
LEMMA InitImplements == Init => Abstract!Init
<1> SUFFICES ASSUME Init PROVE Abstract!Init
    OBVIOUS
<1>1. asked \in [Fetches -> [endpoint : Endpoints, response : Responses]]
    BY DEF Init
<1>2. [f \in Fetches |-> pc[f] # "idle"] = [f \in Fetches |-> FALSE]
    BY DEF Init
<1>3. answers = [f \in Fetches |-> Abstract!None]
    BY DEF Init
<1> QED BY <1>1, <1>2, <1>3 DEF Abstract!Init, Endpoints, Responses

(* A return of an answer that the response earns is the abstract answer.   *)
LEMMA ReturnAnswers ==
    ASSUME IInv, NEW f \in Fetches, pc[f] # "idle",
           NEW a \in {Error, Abstract!Panicked, Abstract!OK(Empty)}
                       \cup {Abstract!OK(Abstract!Data(d)) : d \in Documents},
           Return(f, a), Abstract!Earns(asked[f].endpoint, Response(f), a)
    PROVE  Abstract!Next
<1>1. [g \in Fetches |-> pc'[g] # "idle"]
        = [[g \in Fetches |-> pc[g] # "idle"] EXCEPT ![f] = FALSE]
    BY DEF Return, IInv, TypeOK
<1>2. Abstract!Answer(f, a)
    BY <1>1 DEF Abstract!Answer, Return, Response
<1> QED BY <1>2 DEF Abstract!Next, Error, Empty

(* A step to the next exchange shows nothing to the caller. *)
LEMMA GoToStutters ==
    ASSUME IInv, NEW f \in Fetches, NEW label, label # "idle", GoTo(f, label),
           pc[f] # "idle"
    PROVE  /\ asked' = asked /\ answers' = answers
           /\ [g \in Fetches |-> pc'[g] # "idle"] = [g \in Fetches |-> pc[g] # "idle"]
BY DEF GoTo, IInv, TypeOK

LEMMA StepImplements ==
    ASSUME IInv, [Next]_vars
    PROVE  [Abstract!Next]_<<asked, answers, [f \in Fetches |-> pc[f] # "idle"]>>
<1>1. ASSUME NEW f \in Fetches, NEW h \in Hosts, NEW e \in Endpoints,
             NEW r \in Responses, Ask(f, h, e, r)
      PROVE  Abstract!Next
    <2>1. [g \in Fetches |-> pc'[g] # "idle"]
            = [[g \in Fetches |-> pc[g] # "idle"] EXCEPT ![f] = TRUE]
        BY <1>1 DEF Ask, IInv, TypeOK
    <2>2. Abstract!Ask(f, e, r)
        BY <1>1, <2>1 DEF Ask, Abstract!Ask
    <2> QED BY <2>2 DEF Abstract!Next, Endpoints, Responses
<1>2. ASSUME NEW f \in Fetches, Get(f)
      PROVE  [Abstract!Next]_<<asked, answers, [g \in Fetches |-> pc[g] # "idle"]>>
    <2>1. CASE Response(f).kind = "refused"
        <3>1. Return(f, Error) /\ pc[f] # "idle"
            BY <1>2, <2>1 DEF Get
        <3>2. Abstract!Earns(asked[f].endpoint, Response(f), Error)
            BY <2>1 DEF Abstract!Earns, Error
        <3> QED BY <3>1, <3>2, ReturnAnswers
    <2>2. CASE Response(f).kind = "answer"
        <3>1. GoTo(f, "status") /\ pc[f] # "idle"
            BY <1>2, <2>2 DEF Get
        <3> QED BY <3>1, GoToStutters
    <2> QED BY <1>2, <2>1, <2>2 DEF Get
<1>3. ASSUME NEW f \in Fetches, Status(f)
      PROVE  [Abstract!Next]_<<asked, answers, [g \in Fetches |-> pc[g] # "idle"]>>
    <2>1. Response(f).kind = "answer" /\ pc[f] # "idle"
        BY <1>3 DEF Status, IInv
    <2>2. CASE Response(f).ok
        BY <1>3, <2>1, <2>2, GoToStutters DEF Status
    <2>3. CASE ~ Response(f).ok
        <3>1. Return(f, Error)
            BY <1>3, <2>3 DEF Status
        <3>2. Abstract!Earns(asked[f].endpoint, Response(f), Error)
            BY <2>1, <2>3 DEF Abstract!Earns, Error
        <3> QED BY <2>1, <3>1, <3>2, ReturnAnswers
    <2> QED BY <2>2, <2>3
<1>4. ASSUME NEW f \in Fetches, Read(f)
      PROVE  [Abstract!Next]_<<asked, answers, [g \in Fetches |-> pc[g] # "idle"]>>
    <2>1. Response(f).kind = "answer" /\ Response(f).ok /\ pc[f] # "idle"
        BY <1>4 DEF Read, IInv
    <2>2. CASE Response(f).body.kind = "cut"
        <3>1. Return(f, Error)
            BY <1>4, <2>2 DEF Read
        <3>2. Abstract!Earns(asked[f].endpoint, Response(f), Error)
            BY <2>1, <2>2 DEF Abstract!Earns, Error
        <3> QED BY <2>1, <3>1, <3>2, ReturnAnswers
    <2>3. CASE Response(f).body.kind # "cut"
        BY <1>4, <2>1, <2>3, GoToStutters DEF Read
    <2> QED BY <2>2, <2>3
<1>5. ASSUME NEW f \in Fetches, Unmarshal(f) PROVE Abstract!Next
    <2> DEFINE b == Response(f).body
    <2>1. Response(f).kind = "answer" /\ Response(f).ok /\ b.kind # "cut" /\ pc[f] # "idle"
        BY <1>5 DEF Unmarshal, IInv
    <2>2. b \in Abstract!Bodies
        BY <2>1 DEF IInv, TypeOK, Responses, Response, Abstract!Responses
    <2>3. target[f] = Empty
        BY <2>1 DEF IInv
    <2>4. CASE b.kind = "document"
        <3>1. Unmarshalled(f) = Abstract!Data(b.document) /\ b.document \in Documents
            BY <2>2, <2>4 DEF Unmarshalled, Abstract!Bodies
        <3>2. Unmarshalled(f) # [kind |-> "nil"]
            BY <3>1 DEF Abstract!Data
        <3>3. Return(f, Abstract!OK(Abstract!Data(b.document)))
            BY <1>5, <2>4, <3>1, <3>2 DEF Unmarshal
        <3>4. Abstract!Earns(asked[f].endpoint, Response(f),
                             Abstract!OK(Abstract!Data(b.document)))
            BY <2>1, <2>4 DEF Abstract!Earns
        <3> QED BY <2>1, <3>1, <3>3, <3>4, ReturnAnswers
    <2>5. CASE b.kind \in {"mistyped", "broken"}
        <3>1. Return(f, Error)
            BY <1>5, <2>5 DEF Unmarshal
        <3>2. Abstract!Earns(asked[f].endpoint, Response(f), Error)
            BY <2>1, <2>5 DEF Abstract!Earns, Error
        <3> QED BY <2>1, <3>1, <3>2, ReturnAnswers
    <2>6. CASE b.kind = "null" /\ asked[f].endpoint = "flags"
        <3>1. Unmarshalled(f) = [kind |-> "nil"]
            BY <2>6 DEF Unmarshalled
        <3>2. Return(f, Abstract!Panicked)
            BY <1>5, <2>6, <3>1 DEF Unmarshal
        <3>3. Abstract!Earns(asked[f].endpoint, Response(f), Abstract!Panicked)
            BY <2>1, <2>6 DEF Abstract!Earns
        <3> QED BY <2>1, <3>2, <3>3, ReturnAnswers
    <2>7. CASE b.kind = "null" /\ asked[f].endpoint # "flags"
        <3>1. Unmarshalled(f) = Empty
            BY <2>3, <2>7 DEF Unmarshalled
        <3>2. Return(f, Abstract!OK(Empty))
            BY <1>5, <2>7, <3>1 DEF Unmarshal, Empty, Abstract!Empty
        <3>3. Abstract!Earns(asked[f].endpoint, Response(f), Abstract!OK(Empty))
            BY <2>1, <2>7 DEF Abstract!Earns, Empty
        <3> QED BY <2>1, <3>2, <3>3, ReturnAnswers
    <2> QED BY <2>1, <2>2, <2>4, <2>5, <2>6, <2>7 DEF Abstract!Bodies
<1>6. CASE UNCHANGED vars
    BY <1>6 DEF vars
<1> QED BY <1>1, <1>2, <1>3, <1>4, <1>5, <1>6 DEF Next, Fetch

(* Fetch and its callers answer as the response earns, in every execution. *)
THEOREM ImplementsFetching == Spec => Implements
<1>1. IInv /\ [Next]_vars
        => [Abstract!Next]_<<asked, answers, [f \in Fetches |-> pc[f] # "idle"]>>
    BY StepImplements
<1> QED BY <1>1, InitImplements, Invariant, PTL DEF Spec, Implements, Abstract!Spec
=============================================================================
