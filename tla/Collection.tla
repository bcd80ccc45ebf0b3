----------------------------- MODULE Collection -----------------------------
(***************************************************************************)
(* What CollectMetrics promises to Snap, without saying how: a call        *)
(* answers once, and its answer is explained (module Answers) by what the  *)
(* cluster showed while the call was in flight.                            *)
(***************************************************************************)
EXTENDS Answers

VARIABLE active     \* which calls are in flight

vars == <<cluster, history, batch, reply, active>>

Init == CallsInit /\ active = [c \in Calls |-> FALSE]

InFlight == {c \in Calls : active[c]}

-----------------------------------------------------------------------------
Invoke(c, b) ==
    /\ ~ active[c]
    /\ Open(c, b)
    /\ active' = [active EXCEPT ![c] = TRUE]
    /\ reply' = [reply EXCEPT ![c] = NoReply]

Answer(c) ==
    /\ active[c]
    /\ Answers(c, reply'[c])
    /\ reply' = [reply EXCEPT ![c] = reply'[c]]
    /\ active' = [active EXCEPT ![c] = FALSE]
    /\ UNCHANGED <<cluster, history, batch>>

(* The plugin dies with every call in it. *)
Crash ==
    /\ \E c \in InFlight : Fatal(c)
    /\ reply' = [c \in Calls |-> IF active[c] THEN Lost ELSE reply[c]]
    /\ active' = [c \in Calls |-> FALSE]
    /\ UNCHANGED <<cluster, history, batch>>

ClusterMoves == Move(InFlight) /\ UNCHANGED active

Next ==
    \/ \E c \in Calls, b \in Batches : Invoke(c, b)
    \/ \E c \in Calls : Answer(c)
    \/ Crash
    \/ ClusterMoves

Spec == Init /\ [][Next]_vars
=============================================================================
