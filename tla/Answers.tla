------------------------------ MODULE Answers ------------------------------
(***************************************************************************)
(* What a rightful answer of CollectMetrics is, judged by the call's       *)
(* history alone and not by how the code builds it.                        *)
(***************************************************************************)
EXTENDS Calls

Of(M, service) == {m \in M : m.namespace.service = service}

(* P holds the metrics of one service: nothing that was not asked for or   *)
(* not served, and everything that was asked for.                          *)
Collected(P, b, service, snapshot, listing) ==
    LET asked == {b[i].namespace : i \in Requested(b, service)}
    IN  /\ \A m \in P :
             /\ m.namespace \in asked
             /\ m.source = HostFor(b, service)
             /\ IF m.namespace.dynamic
                THEN /\ m.reading = listing
                     /\ <<m.instance, m.namespace.key>> \in listing.listing
                ELSE /\ m.reading = snapshot
                     /\ m.instance = NoInstance
                     /\ m.namespace.key \in snapshot.snapshot
        /\ \A ns \in asked :
             IF ns.dynamic
             THEN \A x \in Instances : <<x, ns.key>> \in listing.listing =>
                      \E m \in P : m.namespace = ns /\ m.instance = x
             ELSE \E m \in P : m.namespace = ns

(* The redirect named the master of the call, or named another host.       *)
ToldLeader(c) ==
    \E l \in told[c] : <<l, HostFor(batch[c], "master")>> \in Contains
ToldFollower(c) ==
    \E l \in told[c] \cap Leaders : <<l, HostFor(batch[c], "master")>> \notin Contains

(* P is a rightful answer of call c for the service.                       *)
Explained(c, service, P) ==
    \/ /\ P = {}
       /\ \/ ~ Wants(batch[c], service)
          \/ service = "master" /\ ToldFollower(c)
    \/ /\ Wants(batch[c], service)
       /\ service = "master" => ToldLeader(c)
       /\ \E s, l \in {r \in held[c] : r.host = HostFor(batch[c], service)} :
             Collected(P, batch[c], service, s.document, l.document)

(* An error has a reason in the configuration or in the call's time.       *)
Excused(c) ==
    \/ ConfigError(BatchConfig(batch[c]))
    \/ troubled[c]
    \/ Nowhere \in told[c]
    \/ \E i \in DOMAIN batch[c], r \in held[c] :
          /\ r.host = HostFor(batch[c], batch[c][i].namespace.service)
          /\ NotFound(batch[c][i].namespace, r.document)

Answers(c, r) ==
    \/ r = Error /\ Excused(c)
    \/ /\ r = OK(r.metrics)
       /\ r.metrics \subseteq Metric
       /\ \A s \in Services : Explained(c, s, Of(r.metrics, s))

(* What can make the plugin die: a master that could not be reached, or a  *)
(* namespace its code does not reckon with.                                *)
Fatal(c) ==
    \/ HostFor(batch[c], "master") # Unset /\ troubled[c]
    \/ \E i \in DOMAIN batch[c] : OutOfRange(batch[c][i].namespace)
=============================================================================
