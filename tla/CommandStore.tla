---------------------------- MODULE CommandStore ----------------------------
(***************************************************************************)
(* The command tables of PostgreSQL and the statements that change them    *)
(* (internal/platform/postgres_store.go).  Every statement is one atomic   *)
(* step; its WHERE clause selects the rows it changes, so a statement that *)
(* matches nothing changes nothing.  The clients are unconstrained here:   *)
(* Next lets any statement run at any moment with any argument, which is   *)
(* the most that several iot-core and device-worker replicas, operators    *)
(* and REST callers can do.  CommandDelivery replaces them by the real     *)
(* dispatcher and worker loops.                                            *)
(*                                                                         *)
(* Time is kept as the comparisons the statements make, not as a number:   *)
(*   dispatch  next_dispatch_at: "waiting" for the lease or backoff to end, *)
(*             or "due" (<= NOW())                                         *)
(*   age       updated_at: "fresh", or "stale" (<= now - timeout, which is *)
(*             five minutes by default)                                    *)
(*   deadline  "null", or whether deadline_at still runs or has passed     *)
(* A statement that writes the column resets the comparison; the clock     *)
(* steps may turn it at any later moment.                                  *)
(***************************************************************************)
EXTENDS Naturals, Sequences

CONSTANTS
    Commands,             \* command identifiers (UUIDs the store hands out)
    Legacy,               \* 'sent' rows of an older release, deadline_at NULL
    Payloads,             \* JSON values a device may put in a result
    EmptyObject,          \* the JSON value {}
    NoBytes,              \* an absent result payload
    ErrorCodes,           \* errorCode values other than the empty string
    NoError,              \* the empty errorCode
    NoResult,             \* SQL NULL in commands.result
    MaxDispatchAttempts   \* maxDispatchAttempts, 10 in the code

ASSUME StoreAssumption ==
    /\ Legacy \subseteq Commands
    /\ EmptyObject \in Payloads
    /\ NoBytes \notin Payloads
    /\ NoError \notin ErrorCodes
    /\ MaxDispatchAttempts \in Nat \ {0}

VARIABLES
    commands,         \* the rows: status, bookkeeping of the dispatcher, result
    command_ack,      \* the acknowledgements stored for each command
    command_events    \* the audit trail of each command, oldest first

storeVars == <<commands, command_ack, command_events>>

-----------------------------------------------------------------------------
(* Statuses, transitions and results (internal/contracts)                  *)

Active   == {"created", "published", "sent"}
Terminal == {"acked", "failed", "timeout"}
Status   == {"absent"} \cup Active \cup Terminal
Event    == {"created", "published", "requeued", "delivered",
             "acked", "failed", "timeout"}

\* current status, event, next status
Transitions ==
    { <<"created", "failed", "failed">>,
      <<"created", "published", "published">>,
      <<"created", "acked", "acked">>,
      <<"published", "delivered", "sent">>,
      <<"published", "acked", "acked">>,
      <<"published", "failed", "failed">>,
      <<"sent", "acked", "acked">>,
      <<"sent", "failed", "failed">>,
      <<"sent", "timeout", "timeout">> }

AdvanceCommandStatus(current, event) ==
    { next \in Status : <<current, event, next>> \in Transitions }

\* What a device or a REST caller may submit, and what is stored of it.
Reports == [status : {"acked", "failed", "busy"},
            errorCode : ErrorCodes \cup {NoError},
            payload : Payloads \cup {NoBytes}]
Results == [status : {"acked", "failed"},
            errorCode : ErrorCodes \cup {NoError},
            payload : Payloads]

ASSUME NoResultAssumption == NoResult \notin Results

ValidReport(r) ==
    /\ r.status \in {"acked", "failed"}
    /\ r.status = "acked" => r.errorCode = NoError

NormalizeCommandResult(r) ==
    [r EXCEPT !.payload = IF @ = NoBytes THEN EmptyObject ELSE @]

-----------------------------------------------------------------------------
(* Rows                                                                    *)

Row == [status : Status,
        attempts : 0..MaxDispatchAttempts,
        dispatch : {"waiting", "due"},
        age : {"fresh", "stale"},
        deadline : {"null", "running", "passed"},
        result : Results \cup {NoResult}]

AbsentRow ==
    [status |-> "absent", attempts |-> 0, dispatch |-> "waiting",
     age |-> "fresh", deadline |-> "null", result |-> NoResult]
LegacyRow == [AbsentRow EXCEPT !.status = "sent"]

Init ==
    /\ commands = [c \in Commands |-> IF c \in Legacy THEN LegacyRow
                                                      ELSE AbsentRow]
    /\ command_ack = [c \in Commands |-> <<>>]
    /\ command_events = [c \in Commands |-> <<>>]

\* One statement writes the rows of C and one audit event for each of them.
UpdateCommandsWithEvent(C, Assign(_), event) ==
    /\ commands' = [c \in Commands |->
                       IF c \in C THEN Assign(commands[c]) ELSE commands[c]]
    /\ command_events' = [c \in Commands |->
                             IF c \in C THEN Append(command_events[c], event)
                                        ELSE command_events[c]]
    /\ UNCHANGED command_ack

\* A statement, or the clock, that leaves no audit event.
UpdateCommand(c, Assign(_)) ==
    /\ commands' = [commands EXCEPT ![c] = Assign(@)]
    /\ UNCHANGED <<command_ack, command_events>>

-----------------------------------------------------------------------------
(* Statements                                                              *)

\* INSERT of a fresh identifier, due at once, with its 'created' event.
InsertCreated(row) == [row EXCEPT !.status = "created", !.dispatch = "due"]
CreateCommand(c) ==
    /\ commands[c].status = "absent"
    /\ UpdateCommandsWithEvent({c}, InsertCreated, "created")

Claimable(row) ==
    /\ row.status = "created"
    /\ row.dispatch = "due"
    /\ row.attempts < MaxDispatchAttempts

\* Takes a lease: next_dispatch_at moves ahead.  No audit event is written.
\* SKIP LOCKED may pass over older rows, so any claimable row may be chosen.
SetClaimed(row) ==
    [row EXCEPT !.attempts = @ + 1, !.dispatch = "waiting", !.age = "fresh"]
ClaimCommand(c) ==
    /\ Claimable(commands[c])
    /\ UpdateCommand(c, SetClaimed)

\* Seeded faults: a completion that checks the attempt and the lease only, and
\* one that checks no attempt.
HeldByAttempt(row, attempt) ==
    row.attempts = attempt /\ row.dispatch = "waiting" /\ row.status # "absent"
HeldByAnyClaim(row, attempt) ==
    row.status = "created" /\ row.dispatch = "waiting"

\* The fence of a claim: still created, still this attempt, lease running.
HeldByClaim(row, attempt) ==
    /\ row.status = "created"
    /\ row.attempts = attempt
    /\ row.dispatch = "waiting"

SetPublished(row) == [row EXCEPT !.status = "published", !.age = "fresh"]
MarkCommandPublished(c, attempt) ==
    UpdateCommandsWithEvent({x \in {c} : HeldByClaim(commands[x], attempt)},
                            SetPublished, "published")

\* NOW() + backoff: the row stays not due, for a new interval.
SetBackoff(row) == [row EXCEPT !.dispatch = "waiting", !.age = "fresh"]
RescheduleCommand(c, attempt) ==
    IF HeldByClaim(commands[c], attempt)
    THEN UpdateCommand(c, SetBackoff)
    ELSE UNCHANGED storeVars

SetSent(row) ==
    [row EXCEPT !.status = "sent", !.deadline = "running", !.age = "fresh"]
MarkCommandSent(c) ==
    UpdateCommandsWithEvent(
        {x \in {c} : commands[x].status \in {"created", "published"}},
        SetSent, "delivered")

SetRequeued(row) ==
    [row EXCEPT !.status = "created", !.dispatch = "waiting", !.age = "fresh"]
\* Seeded fault: the requeue updates the row outside updateCommandsWithEvent.
RequeueCommandSilently(c) ==
    commands[c].status = "published" /\ UpdateCommand(c, SetRequeued)
RequeueCommand(c) ==
    UpdateCommandsWithEvent({x \in {c} : commands[x].status = "published"},
                            SetRequeued, "requeued")

\* What the acknowledgement transaction answers: only "applied" writes.
AckOutcome(c, report) ==
    LET row == commands[c]
        new == NormalizeCommandResult(report)
    IN  CASE ~ValidReport(report) -> "invalid"
          [] ValidReport(report) /\ row.status = "absent" -> "notfound"
          [] ValidReport(report) /\ row.status \in Terminal ->
                IF row.result # NoResult /\ row.result # new
                THEN "conflict" ELSE "late"
          [] OTHER -> "applied"

SetResult(row, next, new) ==
    [row EXCEPT !.status = next, !.age = "fresh", !.result = new]
AckCommandResult(c, report) ==
    /\ AckOutcome(c, report) = "applied"
    /\ LET new == NormalizeCommandResult(report)
       IN  \E next \in AdvanceCommandStatus(commands[c].status, new.status) :
             /\ commands' = [commands EXCEPT ![c] = SetResult(@, next, new)]
             /\ command_ack' = [command_ack EXCEPT ![c] = Append(@, new)]
             /\ command_events' = [command_events EXCEPT
                                      ![c] = Append(@, new.status)]

\* The sweeps take up to 500 unlocked rows: any set C of matching rows.
Stranded(row) ==
    /\ row.status = "published"
    /\ row.age = "stale"
    /\ row.attempts < MaxDispatchAttempts
SetRedispatch(row) ==
    [row EXCEPT !.status = "created", !.dispatch = "due", !.age = "fresh"]
RequeueStale(C) ==
    /\ \A c \in C : Stranded(commands[c])
    /\ UpdateCommandsWithEvent(C, SetRedispatch, "requeued")

\* Seeded fault: a sweep that forgets the published rows.
ExhaustedCreated(row) ==
    /\ row.attempts >= MaxDispatchAttempts
    /\ row.status = "created" /\ row.dispatch = "due"
Exhausted(row) ==
    /\ row.attempts >= MaxDispatchAttempts
    /\ \/ row.status = "created" /\ row.dispatch = "due"
       \/ row.status = "published" /\ row.age = "stale"
SetFailed(row) == [row EXCEPT !.status = "failed", !.age = "fresh"]
FailExhausted(C) ==
    /\ \A c \in C : Exhausted(commands[c])
    /\ UpdateCommandsWithEvent(C, SetFailed, "failed")

\* Seeded fault: the deadline is compared without looking at the status.
ExpiredAnyStatus(row) ==
    \/ row.deadline = "passed"
    \/ row.deadline = "null" /\ row.age = "stale"
Expired(row) ==
    /\ row.status = "sent"
    /\ \/ row.deadline = "passed"
       \/ row.deadline = "null" /\ row.age = "stale"
SetTimeout(row) == [row EXCEPT !.status = "timeout", !.age = "fresh"]
ExpireCommands(C) ==
    /\ \A c \in C : Expired(commands[c])
    /\ UpdateCommandsWithEvent(C, SetTimeout, "timeout")

-----------------------------------------------------------------------------
(* The clock                                                               *)

\* Each comparison is turned in the statuses where some statement makes it;
\* every statement that enters such a status writes the column first.
SetDue(row) == [row EXCEPT !.dispatch = "due"]
LeaseEnds(c) ==
    /\ commands[c].status = "created"
    /\ commands[c].dispatch = "waiting"
    /\ UpdateCommand(c, SetDue)

SetStale(row) == [row EXCEPT !.age = "stale"]
TurnsStale(c) ==
    /\ \/ commands[c].status = "published"
       \/ commands[c].status = "sent" /\ commands[c].deadline = "null"
    /\ commands[c].age = "fresh"
    /\ UpdateCommand(c, SetStale)

SetPassed(row) == [row EXCEPT !.deadline = "passed"]
DeadlinePasses(c) ==
    /\ commands[c].status = "sent"
    /\ commands[c].deadline = "running"
    /\ UpdateCommand(c, SetPassed)

Tick(c) == LeaseEnds(c) \/ TurnsStale(c) \/ DeadlinePasses(c)

Next ==
    \/ \E c \in Commands :
          \/ CreateCommand(c)
          \/ ClaimCommand(c)
          \/ \E n \in 1..MaxDispatchAttempts :
                MarkCommandPublished(c, n) \/ RescheduleCommand(c, n)
          \/ MarkCommandSent(c)
          \/ RequeueCommand(c)
          \/ \E r \in Reports : AckCommandResult(c, r)
          \/ Tick(c)
    \/ \E C \in SUBSET Commands :
          RequeueStale(C) \/ FailExhausted(C) \/ ExpireCommands(C)

Spec == Init /\ [][Next]_storeVars

-----------------------------------------------------------------------------
(* Properties                                                              *)

\* Type invariant of the three tables.  The bound on attempts is the cap of
\* ClaimCommandsForDispatch: no sequence of requeues lets a claim exceed it.
TypeOK ==
    /\ commands \in [Commands -> Row]
    /\ command_ack \in [Commands -> Seq(Results)]
    /\ command_events \in [Commands -> Seq(Event)]

\* The acknowledgement transaction is all or nothing and happens once: the
\* stored result, the command_ack row and the status always tell the same
\* story, whichever statements of other processes run in between, and no
\* command is 'acked' without the result that says so.
ResultIsAcknowledged ==
    \A c \in Commands :
        LET row == commands[c]
        IN  /\ command_ack[c] = IF row.result = NoResult THEN <<>>
                                                        ELSE <<row.result>>
            /\ row.result # NoResult => row.status = row.result.status
            /\ row.status = "acked" => row.result # NoResult

\* A command ends without the device's word only for a reason on record:
\* 'failed' without a result means all dispatch attempts were used, and
\* 'timeout' means a downlink was confirmed first (legacy rows excepted).
EndingIsExplained ==
    \A c \in Commands :
        LET row == commands[c]
        IN  /\ row.status = "failed" /\ row.result = NoResult
                  => row.attempts = MaxDispatchAttempts
            /\ row.status = "timeout" /\ c \notin Legacy
                  => \E i \in DOMAIN command_events[c] :
                        command_events[c][i] = "delivered"

StatusAfter ==
    [created |-> "created", published |-> "published", requeued |-> "created",
     delivered |-> "sent", acked |-> "acked", failed |-> "failed",
     timeout |-> "timeout"]

MayFollow ==
    [created   |-> {"published", "delivered", "acked", "failed"},
     published |-> {"requeued", "delivered", "acked", "failed"},
     requeued  |-> {"published", "delivered", "acked", "failed"},
     delivered |-> {"acked", "failed", "timeout"},
     acked |-> {}, failed |-> {}, timeout |-> {}]

\* The audit trail can be trusted: command_events, read alone, is a legal
\* history of one command and its last entry gives the row's status.  State
\* and event are one statement in updateCommandsWithEvent and one
\* transaction in the ACK path, so no crash or race may separate them.
AuditTrailMatches ==
    \A c \in Commands :
        LET trail == command_events[c]
        IN  /\ commands[c].status =
                  IF trail = <<>>
                  THEN IF c \in Legacy THEN "sent" ELSE "absent"
                  ELSE StatusAfter[trail[Len(trail)]]
            /\ \A i \in 1..(Len(trail) - 1) :
                  trail[i + 1] \in MayFollow[trail[i]]

\* The three tables agree: a result is the acknowledgement the device sent, an
\* ending without one is explained, and the audit trail tells how the row came
\* to its status.
StoreIsSound ==
    TypeOK /\ ResultIsAcknowledged /\ EndingIsExplained /\ AuditTrailMatches

\* Once a command is acked, failed or timed out, no statement of any process
\* (a late worker confirmation, a delayed dispatcher completion, a sweep, a
\* duplicate or contradicting ACK) changes its status, its result, its
\* acknowledgements or its audit trail.
TerminalIsFinal ==
    [][\A c \in Commands :
          commands[c].status \in Terminal =>
             /\ commands'[c].status = commands[c].status
             /\ commands'[c].result = commands[c].result
             /\ command_ack'[c] = command_ack[c]
             /\ command_events'[c] = command_events[c]]_storeVars

Contract == INSTANCE CommandContract WITH
    status <- [c \in Commands |-> commands[c].status],
    result <- [c \in Commands |-> commands[c].result]

\* The statements together keep the promise of CommandContract: every status
\* change any of them makes is one of its edges, and a result is written
\* exactly by the step that ends an active command.
ImplementsContract == Contract!Spec

=============================================================================
