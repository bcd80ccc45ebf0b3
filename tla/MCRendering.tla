----------------------------- MODULE MCRendering -----------------------------
(***************************************************************************)
(* A small instance of Rendering for TLC.                                  *)
(***************************************************************************)
EXTENDS Rendering

CONSTANTS m1, a1, k1, k2, k3, f1, f2, e1

MCInstances == {<<f1, e1>>, <<f2, e1>>, <<f1, KeyPart>>, <<f2, KeyPart>>}

Doc(s, l) == [snapshot |-> s, listing |-> l]

(* Both frameworks and executors carry the key k2, or one of them does;    *)
(* the snapshot has lost k3 at times.                                      *)
MCDocuments == {Doc({k1, k3}, {<<f1, e1>>, <<f2, e1>>} \X {k2}),
                Doc({k1, k3}, {<<f1, KeyPart>>, <<f2, KeyPart>>} \X {k2}),
                Doc({k1}, {<<f1, e1>>} \X {k2}),
                Doc({k1}, {<<f2, KeyPart>>} \X {k2})}

Ask(service1, dynamic, key) ==
    [namespace |-> [service |-> service1, dynamic |-> dynamic, key |-> key],
     config |-> [master |-> m1, agent |-> a1]]

(* The same wildcard twice between metrics of the other service; static    *)
(* ones around it; a short key.                                            *)
MCBatches == {
    << Ask("agent", TRUE, k2), Ask("master", TRUE, k2), Ask("agent", TRUE, k2) >>,
    << Ask("master", FALSE, k1), Ask("master", TRUE, k2), Ask("master", FALSE, k3) >>,
    << Ask("agent", TRUE, k2), Ask("agent", FALSE, k1), Ask("agent", FALSE, k3) >> }

MCContains == {<<m1, m1>>}

MCOrders == {o \in [{1, 2} -> MCInstances] : o[1] # o[2] /\ o[1][2] = o[2][2]}
=============================================================================
