----------------------------- MODULE HttpClient -----------------------------
(***************************************************************************)
(* client.Client.Fetch (src/mesos/client/client.go) with the functions of  *)
(* master.go and agent.go that call it, exchange by exchange: the request, *)
(* the status, the body, the decoding; and the closing of the body that is *)
(* deferred to the return.                                                 *)
(***************************************************************************)
CONSTANTS Fetches, Hosts, Documents

VARIABLES
    asked,      \* what is asked for, and what the host does with it
    answers,    \* what each caller got
    pc,         \* where each fetch is
    client,     \* the Client of the fetch
    body,       \* the response's body: "none", "open" or "closed"
    target      \* what the caller's variable holds

vars == <<asked, answers, pc, client, body, target>>

Abstract == INSTANCE Fetching WITH waiting <- [f \in Fetches |-> pc[f] # "idle"]

Endpoints == Abstract!Endpoints
Responses == Abstract!Responses
Empty == Abstract!Empty
Error == Abstract!Error

Path == [e \in Endpoints |-> CASE e = "snapshot"   -> "/metrics/snapshot"
                               [] e = "frameworks" -> "/master/frameworks"
                               [] e = "statistics" -> "/monitor/statistics"
                               [] e = "flags"      -> "/slave(1)/flags"]

Timeout == [e \in Endpoints |-> CASE e = "snapshot"   -> 5
                                  [] e = "frameworks" -> 10
                                  [] e = "statistics" -> 30
                                  [] e = "flags"      -> 5]

Clients == [host : Hosts, path : {Path[e] : e \in Endpoints},
            timeout : {Timeout[e] : e \in Endpoints}]

NewClient(host, e) == [host |-> host, path |-> Path[e], timeout |-> Timeout[e]]

Targets == {Empty, [kind |-> "partial"], [kind |-> "nil"]}
             \cup {Abstract!Data(d) : d \in Documents}

TypeOK ==
    /\ asked \in [Fetches -> [endpoint : Endpoints, response : Responses]]
    /\ pc \in [Fetches -> {"idle", "get", "status", "read", "unmarshal"}]
    /\ client \in [Fetches -> Clients]
    /\ body \in [Fetches -> {"none", "open", "closed"}]
    /\ target \in [Fetches -> Targets]

Init ==
    /\ \E h \in Hosts, e \in Endpoints, r \in Responses :
          /\ asked = [f \in Fetches |-> [endpoint |-> e, response |-> r]]
          /\ client = [f \in Fetches |-> NewClient(h, e)]
    /\ answers = [f \in Fetches |-> Abstract!None]
    /\ pc = [f \in Fetches |-> "idle"]
    /\ body = [f \in Fetches |-> "none"]
    /\ target = [f \in Fetches |-> Empty]

-----------------------------------------------------------------------------
(* A caller declares its variable, builds a client and calls Fetch.        *)
Ask(f, h, e, r) ==
    /\ pc[f] = "idle"
    /\ asked' = [asked EXCEPT ![f] = [endpoint |-> e, response |-> r]]
    /\ answers' = [answers EXCEPT ![f] = Abstract!None]
    /\ pc' = [pc EXCEPT ![f] = "get"]
    /\ client' = [client EXCEPT ![f] = NewClient(h, e)]
    /\ body' = [body EXCEPT ![f] = "none"]
    /\ target' = [target EXCEPT ![f] = Empty]

(* Slip: the body closed only where the fetch went well. *)
ReturnUnclosed(f, answer) ==
    /\ pc' = [pc EXCEPT ![f] = "idle"]
    /\ answers' = [answers EXCEPT ![f] = answer]
    /\ body' = [body EXCEPT ![f] = IF @ = "open" /\ answer # Error THEN "closed" ELSE @]
    /\ UNCHANGED <<asked, client>>

(* Fetch returns, which runs what it deferred, and so does its caller.     *)
Return(f, answer) ==
    /\ pc' = [pc EXCEPT ![f] = "idle"]
    /\ answers' = [answers EXCEPT ![f] = answer]
    /\ body' = [body EXCEPT ![f] = IF @ = "open" THEN "closed" ELSE @]
    /\ UNCHANGED <<asked, client>>

GoTo(f, label) ==
    /\ pc' = [pc EXCEPT ![f] = label]
    /\ UNCHANGED <<asked, answers, client, target>>

Response(f) == asked[f].response

(* http.Get: no time limit, so a silent host is waited for.                *)
Get(f) ==
    /\ pc[f] = "get"
    /\ \/ /\ Response(f).kind = "refused"
          /\ Return(f, Error)
          /\ UNCHANGED target
       \/ /\ Response(f).kind = "answer"
          /\ GoTo(f, "status")
          /\ body' = [body EXCEPT ![f] = "open"]

(* Slip: the status not looked at. *)
StatusIgnored(f) ==
    /\ pc[f] = "status"
    /\ GoTo(f, "read")
    /\ UNCHANGED body

(* Any status but 200 is an error, whatever the body holds.                *)
Status(f) ==
    /\ pc[f] = "status"
    /\ IF Response(f).ok THEN GoTo(f, "read") /\ UNCHANGED body
       ELSE Return(f, Error) /\ UNCHANGED target

(* ioutil.ReadAll: all of the body or an error.                            *)
Read(f) ==
    /\ pc[f] = "read"
    /\ IF Response(f).body.kind = "cut" THEN Return(f, Error) /\ UNCHANGED target
       ELSE GoTo(f, "unmarshal") /\ UNCHANGED body

(* What json.Unmarshal leaves in the caller's variable: it checks the      *)
(* syntax before it stores anything, but meets a value of a wrong type     *)
(* half way; null sets the pointer that GetFlags passes, and leaves the    *)
(* others' variables as they were.                                         *)
Unmarshalled(f) ==
    CASE Response(f).body.kind = "document" -> Abstract!Data(Response(f).body.document)
      [] Response(f).body.kind = "mistyped" -> [kind |-> "partial"]
      [] Response(f).body.kind = "null" /\ asked[f].endpoint = "flags" -> [kind |-> "nil"]
      [] OTHER -> target[f]

(* Decoding, and what the caller makes of it: its data, or an error and    *)
(* none of what was decoded, or for GetFlags a nil pointer dereferenced.   *)
Unmarshal(f) ==
    /\ pc[f] = "unmarshal"
    /\ target' = [target EXCEPT ![f] = Unmarshalled(f)]
    /\ Return(f, IF Response(f).body.kind \in {"mistyped", "broken"} THEN Error
                 ELSE IF Unmarshalled(f) = [kind |-> "nil"] THEN Abstract!Panicked
                 ELSE Abstract!OK(Unmarshalled(f)))

Fetch(f) == Get(f) \/ Status(f) \/ Read(f) \/ Unmarshal(f)

Next ==
    \/ \E f \in Fetches, h \in Hosts, e \in Endpoints, r \in Responses : Ask(f, h, e, r)
    \/ \E f \in Fetches : Fetch(f)

Spec == Init /\ [][Next]_vars

-----------------------------------------------------------------------------
(* The inductive invariant of the proofs: what each step was let through   *)
(* by, and an untouched target until the decoding.                         *)
IInv ==
    /\ TypeOK
    /\ \A f \in Fetches :
          /\ pc[f] \in {"status", "read", "unmarshal"} => Response(f).kind = "answer"
          /\ pc[f] \in {"read", "unmarshal"} => Response(f).ok
          /\ pc[f] = "unmarshal" => Response(f).body.kind # "cut"
          /\ pc[f] # "idle" => target[f] = Empty
          /\ body[f] = "open" <=> pc[f] \in {"status", "read", "unmarshal"}

(* On whichever path a fetch returns, the body of its response is closed:  *)
(* the connection is not held by a call that is over.                      *)
BodiesClosed == \A f \in Fetches : pc[f] = "idle" => body[f] # "open"

(* Every fetch answers as its response earns: data of a 200 with a whole   *)
(* body of the right type, none of what a failed decoding left behind.     *)
Implements == Abstract!Spec
=============================================================================
