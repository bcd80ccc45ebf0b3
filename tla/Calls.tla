------------------------------- MODULE Calls -------------------------------
(***************************************************************************)
(* The calls of CollectMetrics as Snap sees them, and what the cluster     *)
(* showed while each of them was in flight.  Snap calls the plugin over    *)
(* RPC and serves every call in a goroutine of its own; the plugin keeps   *)
(* no state between calls (type Mesos struct is empty).                    *)
(*                                                                         *)
(* told, held and troubled are history variables: no code reads them.      *)
(***************************************************************************)
EXTENDS Cluster

CONSTANT Calls

VARIABLES
    batch,      \* the metrics each call was last asked for
    reply,      \* what it returned
    told,       \* the locations its master's redirect had during the call
    held,       \* the documents its hosts served during the call
    troubled    \* was a host of the call ever not "up" during the call?

history == <<told, held, troubled>>

NoBatch == << >>

CallsTypeOK ==
    /\ ClusterTypeOK
    /\ batch \in [Calls -> Batches \cup {NoBatch}]
    /\ reply \in [Calls -> Replies]
    /\ told \in [Calls -> SUBSET (Leaders \cup {Nowhere})]
    /\ held \in [Calls -> SUBSET [host : Hosts, document : Documents]]
    /\ troubled \in [Calls -> BOOLEAN]

CallsInit ==
    /\ ClusterInit
    /\ batch = [c \in Calls |-> NoBatch]
    /\ reply = [c \in Calls |-> NoReply]
    /\ told = [c \in Calls |-> {}]
    /\ held = [c \in Calls |-> {}]
    /\ troubled = [c \in Calls |-> FALSE]

-----------------------------------------------------------------------------
(* What the cluster shows now to a call for batch b. *)
Asked(b) == {HostFor(b, s) : s \in Services} \ {Unset}
Locations(b) == {location[m] : m \in Asked(b) \cap Masters}
Readings(b) == {[host |-> h, document |-> document[h]] : h \in Asked(b)}
Trouble(b) == \E h \in Asked(b) : health[h] # "up"

(* A call opens: its history starts with the cluster as it is.             *)
Open(c, b) ==
    /\ batch' = [batch EXCEPT ![c] = b]
    /\ told' = [told EXCEPT ![c] = Locations(b)]
    /\ held' = [held EXCEPT ![c] = Readings(b)]
    /\ troubled' = [troubled EXCEPT ![c] = Trouble(b)]
    /\ UNCHANGED cluster

(* The cluster moves, and the calls in flight may see what it became.      *)
Move(inFlight) ==
    /\ ClusterStep
    /\ UNCHANGED <<batch, reply>>
    /\ told' = [c \in Calls |-> told[c] \cup
                  IF c \in inFlight THEN Locations(batch[c])' ELSE {}]
    /\ held' = [c \in Calls |-> held[c] \cup
                  IF c \in inFlight THEN Readings(batch[c])' ELSE {}]
    /\ troubled' = [c \in Calls |-> troubled[c] \/
                      (c \in inFlight /\ Trouble(batch[c])')]
=============================================================================
