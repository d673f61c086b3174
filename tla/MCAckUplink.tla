---------------------------- MODULE MCAckUplink -----------------------------
(***************************************************************************)
(* AckUplink for TLC: one command and a device that contradicts itself,    *)
(* sends what cannot be read or reports on the command of another.         *)
(***************************************************************************)
EXTENDS AckUplink

CONSTANTS
    c1,
    MaxEvents      \* bound on the audit trail of the command

Message(status, form) ==
    [cmd |-> c1, form |-> form,
     report |-> [status |-> status, errorCode |-> NoError, payload |-> EmptyObject]]

\* Once one of two contradicting reports is applied, the other can only be
\* rejected.  A malformed message comes between a valid one; a foreign one alone.
Reported == {Message("acked", "good"), Message("failed", "good")}
Unreadable == Message("failed", "malformed")
Elsewhere == Message("acked", "foreign")

MCUplinks == Reported \cup {Unreadable, Elsewhere}
MCTogether == {Reported, {Message("acked", "good"), Unreadable}, {Elsewhere}}

\* The other clients: all statements, until the trail is long enough.
MCOthers == Others /\ \A c \in Commands : Len(command_events'[c]) <= MaxEvents

MCNext == UplinkSystem \/ MCOthers

MCSpec == UplinkInit /\ [][MCNext]_<<storeVars, uplinkVars>>
MCFairSpec == MCSpec /\ RunFairness /\ DeliveryFairness
=============================================================================
