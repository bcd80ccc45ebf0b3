------------------------------ MODULE MCPlugin ------------------------------
(***************************************************************************)
(* A small instance of Plugin for TLC.                                     *)
(***************************************************************************)
EXTENDS Plugin

CONSTANTS m1, a1, k1, k2, x1

Doc(s, l) == [snapshot |-> s, listing |-> l]

(* A snapshot gains and loses the key k2; x1 carries it at times.          *)
MCDocuments == {Doc({k1}, {<<x1, k2>>}), Doc({k1, k2}, {})}

MCContains == {<<m1, m1>>}
MCOffers == {{k2}, {}}

Cfg(m, a) == [master |-> m, agent |-> a]

Ask(service, dynamic, key, cfg) ==
    [namespace |-> [service |-> service, dynamic |-> dynamic, key |-> key],
     config |-> cfg]

(* Both hosts, one of them, and the configurations without a host.         *)
MCLoads == {Cfg(m1, a1), Cfg(Missing, a1), Cfg(m1, NotString),
            Cfg(NotString, NotString), Cfg(Missing, Missing)}

(* A task asks the hosts of the load, or has a configuration of its own.   *)
MCBatches == {
    << Ask("master", FALSE, k2, Cfg(m1, a1)), Ask("agent", TRUE, k2, Cfg(m1, a1)) >>,
    << Ask("agent", FALSE, k2, Cfg(Missing, a1)), Ask("master", TRUE, k2, Cfg(Missing, a1)) >>,
    << Ask("master", FALSE, k2, Cfg(m1, Missing)) >>,
    << Ask("agent", FALSE, k1, Cfg(Missing, Missing)) >> }
=============================================================================
