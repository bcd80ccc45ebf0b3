------------------------------ MODULE Fetching ------------------------------
(***************************************************************************)
(* What fetching from a Mesos host promises its caller: one answer, made   *)
(* of what the host did with the request and of nothing else.  Collector's *)
(* exchanges take a fetch for one such step.                               *)
(***************************************************************************)
CONSTANTS
    Fetches,        \* the fetches that may be going on
    Hosts,
    Documents       \* the JSON values an endpoint rightly serves

(* The endpoints the plugin fetches from. *)
Endpoints == {"snapshot", "frameworks", "statistics", "flags"}

(* What a body may hold: a document; JSON of another type; null; no JSON;  *)
(* or it may break off before its announced length.                        *)
Bodies == [kind : {"document"}, document : Documents]
            \cup [kind : {"mistyped", "null", "broken", "cut"}]

(* What a host may do with a request: refuse it, never answer, or answer.  *)
Responses == [kind : {"refused", "silent"}]
               \cup [kind : {"answer"}, ok : BOOLEAN, body : Bodies]

Empty == [kind |-> "empty"]
Data(d) == [kind |-> "data", document |-> d]

None     == [status |-> "none",     value |-> Empty]
Error    == [status |-> "error",    value |-> Empty]
Panicked == [status |-> "panicked", value |-> Empty]
OK(v)    == [status |-> "ok",       value |-> v]

(* The answer a response earns: data come from a whole, rightly typed body *)
(* of a 200 only; a body of "null" is no error, and the flags, which are   *)
(* decoded through a pointer to a pointer, are then read through nil.      *)
Earns(endpoint, response, answer) ==
    \/ /\ response.kind = "answer" /\ response.ok
       /\ \/ /\ response.body.kind = "document"
             /\ answer = OK(Data(response.body.document))
          \/ /\ response.body.kind = "null" /\ endpoint # "flags"
             /\ answer = OK(Empty)
          \/ /\ response.body.kind = "null" /\ endpoint = "flags"
             /\ answer = Panicked
          \/ /\ response.body.kind \in {"mistyped", "broken", "cut"}
             /\ answer = Error
    \/ /\ response.kind = "answer" /\ ~ response.ok /\ answer = Error
    \/ /\ response.kind = "refused" /\ answer = Error

VARIABLES
    asked,      \* the endpoint and the response of each fetch
    answers,    \* what its caller got
    waiting     \* is the caller waiting?

Init ==
    /\ asked \in [Fetches -> [endpoint : Endpoints, response : Responses]]
    /\ answers = [f \in Fetches |-> None]
    /\ waiting = [f \in Fetches |-> FALSE]

Ask(f, endpoint, response) ==
    /\ ~ waiting[f]
    /\ asked' = [asked EXCEPT ![f] = [endpoint |-> endpoint, response |-> response]]
    /\ answers' = [answers EXCEPT ![f] = None]
    /\ waiting' = [waiting EXCEPT ![f] = TRUE]

Answer(f, a) ==
    /\ waiting[f]
    /\ Earns(asked[f].endpoint, asked[f].response, a)
    /\ answers' = [answers EXCEPT ![f] = a]
    /\ waiting' = [waiting EXCEPT ![f] = FALSE]
    /\ UNCHANGED asked

Next ==
    \/ \E f \in Fetches, e \in Endpoints, r \in Responses : Ask(f, e, r)
    \/ \E f \in Fetches, a \in {Error, Panicked, OK(Empty)}
                                 \cup {OK(Data(d)) : d \in Documents} : Answer(f, a)

Spec == Init /\ [][Next]_<<asked, answers, waiting>>
=============================================================================
