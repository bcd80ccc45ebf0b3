------------------------------ MODULE Cluster ------------------------------
(***************************************************************************)
(* The Mesos cluster as the plugin sees it over HTTP.  External: the code  *)
(* is not under src/; it is modelled from the requests src/mesos/ makes.   *)
(***************************************************************************)
EXTENDS Requests

CONSTANTS
    Nowhere,        \* /master/redirect answers without a Location
    Healths         \* the conditions a host can be in

ASSUME ClusterAssumption ==
    /\ Nowhere \notin Leaders
    /\ Healths \subseteq {"up", "failing", "down", "hung"}
    /\ "up" \in Healths

VARIABLES
    location,   \* host of the Location header of each master's /master/redirect
    document,   \* what each host's other endpoints serve
    health      \* "up", or "failing": answers, but not with what was asked for
                \* (no 200, a body cut short, no JSON); or "down": the connection
                \* fails; or "hung": the connection stays open and no answer comes

cluster == <<location, document, health>>

ClusterTypeOK ==
    /\ location \in [Masters -> Leaders \cup {Nowhere}]
    /\ document \in [Hosts -> Documents]
    /\ health \in [Hosts -> Healths]

ClusterInit ==
    /\ location \in [Masters -> Leaders \cup {Nowhere}]
    /\ document \in [Hosts -> Documents]
    /\ health = [h \in Hosts |-> "up"]

(* Master m learns of another leader, or that there is none.               *)
Redirect(m, l) ==
    /\ l # location[m]
    /\ location' = [location EXCEPT ![m] = l]
    /\ UNCHANGED <<document, health>>

(* Host h has new values; frameworks, executors and keys come and go.      *)
Refresh(h, d) ==
    /\ d # document[h]
    /\ document' = [document EXCEPT ![h] = d]
    /\ UNCHANGED <<location, health>>

(* Host h stops answering, in one of the ways, or answers again.           *)
Change(h, v) ==
    /\ v # health[h]
    /\ health' = [health EXCEPT ![h] = v]
    /\ UNCHANGED <<location, document>>

ClusterStep ==
    \/ \E m \in Masters, l \in Leaders \cup {Nowhere} : Redirect(m, l)
    \/ \E h \in Hosts, d \in Documents : Refresh(h, d)
    \/ \E h \in Hosts, v \in Healths : Change(h, v)
=============================================================================
