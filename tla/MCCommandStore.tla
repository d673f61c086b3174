--------------------------- MODULE MCCommandStore ---------------------------
(***************************************************************************)
(* CommandStore for TLC: a fresh command and a legacy row, every statement *)
(* at every moment.                                                        *)
(***************************************************************************)
EXTENDS CommandStore

CONSTANT MaxEvents    \* bound on the audit trail of one command

\* Unconstrained clients can requeue and complete one attempt for ever.
TrailBounded == \A c \in Commands : Len(command_events'[c]) <= MaxEvents

MCNext == Next /\ TrailBounded

MCSpec == Init /\ [][MCNext]_storeVars
=============================================================================
