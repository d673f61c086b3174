------------------------ MODULE MCManagementClients -------------------------
(***************************************************************************)
(* Two callers on a tenant with one device, or the demo process on empty   *)
(* tables.                                                                 *)
(***************************************************************************)
EXTENDS ManagementClients

CONSTANTS t1, t2, d1, c1, c2, demo, k1, p1, p2

MCTenants == {t1, t2}
MCTenantOrder == <<t1, t2>>
MCDeviceOrder == <<d1>>
MCClients == {c1, c2, demo}
MCCallers == {c1, c2}
MCIds == 1..2

MCBuses == 1..2

\* Two uses of one key and no key; one caller also makes two invalid requests
\* and one for an unknown device.
MCAsked ==
    LET Command(t, k, p, ok) == [op |-> "command", tenant |-> t, device |-> d1, key |-> k,
                                 payload |-> p, check |-> ok]
        Creating == {Command(t1, k1, p1, "ok"), Command(t1, k1, p2, "ok"),
                     Command(t1, None, p1, "ok")}
        Refused == {Command(t1, k1, p1, "service"), Command(t1, k1, p1, "store"),
                    Command(t2, k1, p1, "ok")}
    IN [c \in MCCallers |-> IF c = c1 THEN Creating ELSE Creating \cup Refused]

VARIABLE running      \* the clients that run

MCInit ==
    \/ running = {demo} /\ ClientsInit({}, {})
    \/ running = MCCallers /\ ClientsInit({t1}, {<<t1, d1>>})

MCNext == RunningNext(running) /\ UNCHANGED running

MCSpec == MCInit /\ [][MCNext]_<<vars, running>> /\ ClientsFairness

=============================================================================
