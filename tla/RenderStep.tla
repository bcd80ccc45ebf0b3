----------------------------- MODULE RenderStep -----------------------------
(***************************************************************************)
(* What the render loop of a service promises CollectMetrics: one step     *)
(* that gives all of its metrics, an error or a panic.  Collector takes    *)
(* the loops for this step; module Rendering has them element by element.  *)
(***************************************************************************)
EXTENDS Requests

VARIABLES
    batch, service,     \* the metrics asked for, and the loop's service
    snapshot, listing,  \* the documents the two fetches decoded
    outcome,            \* "loop", "returned", "error" or "panicked"
    answer              \* the metrics, once the loop has returned

input == <<batch, service, snapshot, listing>>

Init ==
    /\ batch \in Batches
    /\ service \in Services
    /\ Wants(batch, service)
    /\ snapshot \in Documents
    /\ listing \in Documents
    /\ outcome = "loop"
    /\ answer = {}

Return ==
    /\ outcome = "loop"
    /\ Runs(batch, service, snapshot)
    /\ outcome' = "returned"
    /\ answer' = RenderAll(batch, service, HostFor(batch, service), snapshot, listing)
    /\ UNCHANGED input

(* The first requested namespace that stops the loop decides how it ends.  *)
Stop ==
    /\ outcome = "loop"
    /\ \E i \in DOMAIN batch :
          /\ StopsAt(batch, service, snapshot, i)
          /\ outcome' = IF OutOfRange(batch[i].namespace) THEN "panicked" ELSE "error"
    /\ UNCHANGED <<input, answer>>

Next == Return \/ Stop

Spec == Init /\ [][Next]_<<input, outcome, answer>>
=============================================================================
