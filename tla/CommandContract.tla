-------------------------- MODULE CommandContract --------------------------
(***************************************************************************)
(* What the platform promises a reader of GET /api/v1/commands/{id} about  *)
(* one command: the life of its status and of the device's execution       *)
(* result.  Nothing is said here of attempts, leases, Kafka or MQTT; the   *)
(* module CommandStore is shown to implement this specification.           *)
(***************************************************************************)
CONSTANTS
    Commands,    \* the command identifiers
    Legacy,      \* rows left in 'sent' by an older release (no deadline_at)
    Results,     \* normalised execution results
    NoResult     \* the NULL of commands.result

VARIABLES
    status,      \* commands.status, "absent" before the INSERT
    result       \* commands.result

vars == <<status, result>>

Active   == {"created", "published", "sent"}
Terminal == {"acked", "failed", "timeout"}

\* Edges on which commands.result stays NULL: creation, the two delivery
\* steps, the repairs (a requeue, giving up on an exhausted command), timeout.
PlainEdges ==
    { <<"absent", "created">>,
      <<"created", "published">>, <<"published", "created">>,
      <<"created", "sent">>, <<"published", "sent">>,
      <<"created", "failed">>, <<"published", "failed">>,
      <<"sent", "timeout">> }

Init ==
    /\ status = [c \in Commands |-> IF c \in Legacy THEN "sent" ELSE "absent"]
    /\ result = [c \in Commands |-> NoResult]

Stays(c) ==
    /\ status'[c] = status[c]
    /\ result'[c] = result[c]

Moves(c) ==
    /\ <<status[c], status'[c]>> \in PlainEdges
    /\ result'[c] = result[c]

\* The device's first report ends an active command and is kept for good.
Reports(c) ==
    /\ status[c] \in Active
    /\ result'[c] \in Results
    /\ status'[c] = result'[c].status

\* A sweep may move many commands in one statement, each along its own edge.
Next ==
    /\ status' = [c \in Commands |-> status'[c]]
    /\ result' = [c \in Commands |-> result'[c]]
    /\ \A c \in Commands : Stays(c) \/ Moves(c) \/ Reports(c)

Spec == Init /\ [][Next]_vars
=============================================================================
