--------------------------- MODULE TelemetryStore ---------------------------
(***************************************************************************)
(* The tables devices, telemetry_records and device_state of PostgreSQL    *)
(* and the transactions that change them (postgres_store.go).  Each        *)
(* transaction is one atomic step.  The clients are unconstrained: the     *)
(* ingestor's inbox, REST ingest, workers and replays of any age may run   *)
(* any transaction at any moment with any receive time, because receive    *)
(* times come from the clocks of several hosts and from old Kafka records. *)
(* TelemetryUplink and TelemetrySink replace them by the real clients.     *)
(***************************************************************************)
EXTENDS Naturals

CONSTANTS
    Devices,       \* devices that may be registered
    Messages,      \* telemetry messages, by (msgId, tenant, device)
    DeviceOf,      \* the device named by a message
    NoMessage,     \* SQL NULL in last_msg_id
    Times,         \* receive times; 0 is SQL NULL
    Ids            \* values of the BIGSERIAL id; 0 is no row

ASSUME TelemetryAssumption ==
    /\ DeviceOf \in [Messages -> Devices]
    /\ NoMessage \notin Messages
    /\ Times \subseteq Nat \ {0}
    /\ Ids \subseteq Nat \ {0}

VARIABLES
    devices,             \* registered devices
    telemetry_records,   \* rows: received_at, the BIGSERIAL id, tdengine_written
    device_state         \* last_seen_at and last_msg_id of each device

tableVars == <<devices, telemetry_records, device_state>>

\* "none" is no row; otherwise tdengine_written.
NoRecord == [written |-> "none", received |-> 0, id |-> 0]
Unseen == [seen |-> 0, msg |-> NoMessage]

TableInit ==
    /\ devices = {}
    /\ telemetry_records = [m \in Messages |-> NoRecord]
    /\ device_state = [d \in Devices |-> Unseen]

IsStored(m) == telemetry_records[m].written # "none"
IsWritten(m) == telemetry_records[m].written = "yes"
Stored == {m \in Messages : IsStored(m)}

-----------------------------------------------------------------------------
(* Transactions                                                            *)

\* A second registration violates the primary key and rolls back, so it never
\* touches the device_state row.
CreateDevice(d) ==
    /\ d \notin devices
    /\ devices' = devices \cup {d}
    /\ UNCHANGED <<telemetry_records, device_state>>

\* Only "inserted" writes; "duplicate" returns the stored row.
RestoreOutcome(m) ==
    IF DeviceOf[m] \notin devices THEN "notfound"
    ELSE IF IsStored(m) THEN "duplicate"
    ELSE "inserted"

\* Seeded fault: NULL < x is not true in SQL, and IS NULL is forgotten.
MoveSeenIfKnown(state, m, received) ==
    IF 0 < state.seen /\ state.seen < received
    THEN [seen |-> received, msg |-> m] ELSE state

\* The WHERE clause of the upsert: only a strictly later receive time.
MoveSeen(state, m, received) ==
    IF state.seen < received THEN [seen |-> received, msg |-> m] ELSE state

\* BIGSERIAL: ids are unique, but transactions commit in any order of id.
NewId(id) == \A m \in Messages : telemetry_records[m].id # id

InsertTelemetry(m, received, id) ==
    /\ telemetry_records' = [telemetry_records EXCEPT ![m] =
          [written |-> "no", received |-> received, id |-> id]]
    /\ device_state' = [device_state EXCEPT ![DeviceOf[m]] = MoveSeen(@, m, received)]
    /\ UNCHANGED devices

RestoreTelemetry(m, received, id) ==
    /\ RestoreOutcome(m) = "inserted"
    /\ NewId(id)
    /\ InsertTelemetry(m, received, id)

\* An UPDATE by key: matches nothing when the row is missing.
MarkTelemetryWritten(m) ==
    /\ telemetry_records' = [telemetry_records EXCEPT
          ![m].written = IF @ = "none" THEN @ ELSE "yes"]
    /\ UNCHANGED <<devices, device_state>>

TableNext ==
    \/ \E d \in Devices : CreateDevice(d)
    \/ \E m \in Messages, received \in Times, id \in Ids :
          RestoreTelemetry(m, received, id)
    \/ \E m \in Messages : MarkTelemetryWritten(m)

TableSpec == TableInit /\ [][TableNext]_tableVars

-----------------------------------------------------------------------------
(* Properties                                                              *)

\* Type invariant of the three tables: rows belong to registered devices and
\* have a receive time.
TableTypeOK ==
    /\ devices \subseteq Devices
    /\ telemetry_records \in [Messages -> [written : {"none", "no", "yes"},
                                           received : Times \cup {0},
                                           id : Ids \cup {0}]]
    /\ device_state \in [Devices -> [seen : Times \cup {0},
                                     msg : Messages \cup {NoMessage}]]
    /\ \A m \in Stored :
          DeviceOf[m] \in devices /\ telemetry_records[m].received \in Times

\* RestoreTelemetryContext: whatever the order in which live, delayed and
\* replayed messages are stored, last_seen_at is the latest receive time of the
\* device's rows and last_msg_id is one of the rows received then.
SeenIsLatest ==
    \A d \in Devices :
        LET own == {m \in Stored : DeviceOf[m] = d}
        IN  /\ \A m \in own : telemetry_records[m].received <= device_state[d].seen
            /\ IF own = {} THEN device_state[d] = Unseen
               ELSE /\ device_state[d].msg \in own
                    /\ telemetry_records[device_state[d].msg].received
                          = device_state[d].seen

\* A stored row keeps its receive time and its place in the scan order, and
\* tdengine_written never reverts; liveness never moves back, and a device
\* whose rows did not grow is not refreshed: duplicates and replays change
\* nothing.
HistoryIsKept ==
    [][/\ \A m \in Stored :
             /\ telemetry_records'[m].received = telemetry_records[m].received
             /\ telemetry_records'[m].id = telemetry_records[m].id
             /\ IsWritten(m) => telemetry_records'[m].written = "yes"
       /\ \A d \in Devices :
             device_state'[d] # device_state[d] =>
                /\ device_state[d].seen < device_state'[d].seen
                /\ device_state'[d].msg \notin Stored]_tableVars

=============================================================================
