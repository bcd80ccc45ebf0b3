---------------------------- MODULE MCCollector ----------------------------
(***************************************************************************)
(* Small instances of Collector for TLC.                                   *)
(***************************************************************************)
EXTENDS Collector

CONSTANTS m1, a1, other, k1, k2, k3, x1

(* The name of the other leader contains the name of m1 in the second.     *)
MCExact == {<<m1, m1>>}
MCOverlapping == {<<m1, m1>>, <<other, m1>>}

Doc(s, l) == [snapshot |-> s, listing |-> l]

(* k1 and k3, a key of one segment, are always in the snapshot and k2 at   *)
(* times; the framework or executor x1 carries k2 and comes and goes.      *)
MCDocuments == {Doc({k1, k3}, {<<x1, k2>>}), Doc({k1, k2, k3}, {})}

MCOneDocument == {Doc({k1}, {<<x1, k2>>})}

Ask(service, dynamic, key, m, a) ==
    [namespace |-> [service |-> service, dynamic |-> dynamic, key |-> key],
     config |-> [master |-> m, agent |-> a]]

(* Both services; each alone, with a key that may be missing; a key of one *)
(* segment; and the configurations getConfig tells apart.                  *)
MCBatches == {
    << Ask("master", FALSE, k1, m1, a1), Ask("agent", FALSE, k1, m1, a1),
       Ask("agent", TRUE, k2, m1, a1), Ask("master", TRUE, k2, m1, a1) >>,
    << Ask("agent", FALSE, k2, Missing, a1), Ask("master", FALSE, k1, Missing, a1) >>,
    << Ask("master", FALSE, k2, m1, NotString), Ask("agent", FALSE, k1, m1, NotString) >>,
    << Ask("agent", FALSE, k3, m1, a1) >>,
    << Ask("master", FALSE, k1, Missing, Missing) >>,
    << Ask("master", FALSE, k1, NotString, Missing) >> }

(* One batch that asks both hosts, one that asks the agent only.           *)
MCTwoBatches == {
    << Ask("master", FALSE, k1, m1, a1), Ask("agent", TRUE, k2, m1, a1) >>,
    << Ask("agent", FALSE, k1, Missing, a1) >> }
=============================================================================
