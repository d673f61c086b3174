---------------------------- MODULE TelemetrySink ---------------------------
(***************************************************************************)
(* What becomes of telemetry in Kafka: the telemetry loops of the          *)
(* device-worker replicas and their compensation scans (worker.go), over   *)
(* the tables of TelemetryStore, one partition of iot.telemetry, the DLQ   *)
(* and the time series in TDengine (tdengine_writer.go).                   *)
(*                                                                         *)
(* Each transaction, TDengine insert, Kafka write and commit is a step of  *)
(* its own.  Any of them may fail, or succeed and be reported as failed;   *)
(* workers crash, and the partition moves, at any moment.                  *)
(***************************************************************************)
EXTENDS TelemetryStore, Sequences, FiniteSets

CONSTANTS
    Workers,       \* device-worker replicas of one consumer group
    Stamps,        \* device timestamps
    StampOf,       \* the timestamp in a message
    Rejected,      \* messages TDengine refuses for good
    BatchSize,     \* tdengineCompensateBatch
    MaxLog         \* bound: records ever written to the partition

ASSUME SinkAssumption ==
    /\ Workers # {}
    /\ StampOf \in [Messages -> Stamps]
    /\ Rejected \subseteq Messages
    /\ BatchSize \in Nat \ {0}
    /\ MaxLog \in Nat

VARIABLES
    topic,         \* every record ever written to the partition
    committed,     \* the consumer group's committed offset
    owner,         \* the worker the partition is assigned to
    dlq,           \* records dead-lettered at a telemetry stage
    tdengine,      \* per device and timestamp: the message of the point
    worker,        \* per worker: the record in hand and the step reached
    sweep,         \* per worker: the compensation scan
    aged           \* rows received up to here are old enough for the scan

kafkaVars == <<topic, committed, owner, dlq>>
sinkVars  == <<kafkaVars, tdengine, worker, sweep, aged>>
allVars   == <<tableVars, sinkVars>>

Records == [msg : Messages, received : Times]

Keys == Devices \X Stamps
Key(m) == <<DeviceOf[m], StampOf[m]>>

Waiting == [pc |-> "fetch", offset |-> 0]
Ticking == [pc |-> "tick", after |-> 0, rows |-> {}, next |-> 0, row |-> NoMessage]

SinkInit ==
    /\ TableInit
    /\ topic = <<>> /\ committed = 0 /\ owner \in Workers /\ dlq = {}
    /\ tdengine = [k \in Keys |-> NoMessage]
    /\ worker = [w \in Workers |-> Waiting]
    /\ sweep = [w \in Workers |-> Ticking]
    /\ aged = 0

-----------------------------------------------------------------------------
(* TDengine                                                                *)

\* A child table has one row per timestamp: a later insert replaces it.
InsertPoint(m) == tdengine' = [tdengine EXCEPT ![Key(m)] = m]

\* An insert that fails was refused, or its outcome is unknown.
InsertFails(m) == UNCHANGED tdengine \/ (m \notin Rejected /\ InsertPoint(m))

-----------------------------------------------------------------------------
(* consumeTelemetry                                                        *)

ConsumerUnchanged == UNCHANGED <<topic, owner, sweep, aged>>

At(w, pc) == worker[w].pc = pc
InHand(w) == topic[worker[w].offset]
Step(w, pc) == worker' = [worker EXCEPT ![w].pc = pc]

Fetch(w) ==
    /\ At(w, "fetch")
    /\ owner = w
    /\ committed < Len(topic)
    /\ worker' = [worker EXCEPT ![w] = [pc |-> "restore", offset |-> committed + 1]]
    /\ UNCHANGED <<tableVars, committed, dlq, tdengine>>
    /\ ConsumerUnchanged

\* The original receive time is restored.  A duplicate whose marker is missing
\* is written to TDengine again.
Restore(w) ==
    LET rec == InHand(w)
    IN  /\ At(w, "restore")
        /\ \/ /\ \E id \in Ids : RestoreTelemetry(rec.msg, rec.received, id)
              /\ Step(w, "write")
           \/ /\ RestoreOutcome(rec.msg) = "duplicate"
              /\ Step(w, IF IsWritten(rec.msg) THEN "commit" ELSE "write")
              /\ UNCHANGED tableVars
        /\ UNCHANGED <<committed, dlq, tdengine>>
        /\ ConsumerUnchanged

\* Seeded fault: the error is logged and the offset committed.
RestoreFailsQuietly(w) ==
    /\ At(w, "restore")
    /\ Step(w, "commit")
    /\ UNCHANGED <<tableVars, committed, dlq, tdengine>>
    /\ ConsumerUnchanged
\* An unknown device or an error; the transaction may have committed.
RestoreFails(w) ==
    LET rec == InHand(w)
    IN  /\ At(w, "restore")
        /\ \/ UNCHANGED tableVars
           \/ \E id \in Ids : RestoreTelemetry(rec.msg, rec.received, id)
        /\ Step(w, "deadletter")
        /\ UNCHANGED <<committed, dlq, tdengine>>
        /\ ConsumerUnchanged

WriteTelemetry(w) ==
    /\ At(w, "write")
    /\ InHand(w).msg \notin Rejected
    /\ InsertPoint(InHand(w).msg)
    /\ Step(w, "mark")
    /\ UNCHANGED <<tableVars, committed, dlq>>
    /\ ConsumerUnchanged

\* Seeded fault: the worker tries again until TDengine takes the record.
WriteTelemetryInsists(w) ==
    /\ At(w, "write")
    /\ UNCHANGED worker
    /\ UNCHANGED <<tableVars, committed, dlq, tdengine>>
    /\ ConsumerUnchanged
WriteTelemetryFails(w) ==
    /\ At(w, "write")
    /\ InsertFails(InHand(w).msg)
    /\ Step(w, "deadletter")
    /\ UNCHANGED <<tableVars, committed, dlq>>
    /\ ConsumerUnchanged

\* A marker that cannot be set is only logged.
MarkWritten(w) ==
    /\ At(w, "mark")
    /\ MarkTelemetryWritten(InHand(w).msg) \/ UNCHANGED tableVars
    /\ Step(w, "commit")
    /\ UNCHANGED <<committed, dlq, tdengine>>
    /\ ConsumerUnchanged

DeadLetter(w) ==
    /\ At(w, "deadletter")
    /\ dlq' = dlq \cup {InHand(w)}
    /\ Step(w, "commit")
    /\ UNCHANGED <<tableVars, committed, tdengine>>
    /\ ConsumerUnchanged

\* Only the assigned member's commit is accepted; another's is an error.
Commit(w) ==
    /\ At(w, "commit")
    /\ owner = w
    /\ committed' = worker[w].offset
    /\ worker' = [worker EXCEPT ![w] = Waiting]
    /\ UNCHANGED <<tableVars, dlq, tdengine>>
    /\ ConsumerUnchanged

Consume(w) ==
    \/ Fetch(w) \/ Restore(w) \/ RestoreFails(w)
    \/ WriteTelemetry(w) \/ WriteTelemetryFails(w) \/ MarkWritten(w)
    \/ DeadLetter(w) \/ Commit(w)

-----------------------------------------------------------------------------
(* compensateUnwrittenTelemetry                                            *)

SweepUnchanged == UNCHANGED <<kafkaVars, worker, aged>>

IdOf(m) == telemetry_records[m].id

\* tdengine_written = FALSE AND received_at <= aged AND id > after
Unwritten(after) ==
    {m \in Stored : /\ telemetry_records[m].written = "no"
                    /\ telemetry_records[m].received <= aged
                    /\ IdOf(m) > after}

\* ORDER BY id LIMIT BatchSize
Page(rows) == {m \in rows : Cardinality({n \in rows : IdOf(n) < IdOf(m)}) < BatchSize}

Sweeping(w, pc) == sweep[w].pc = pc

\* The loop over the rows goes in the order of their ids.
IsNext(w, m) == m \in sweep[w].rows /\ \A n \in sweep[w].rows : IdOf(m) <= IdOf(n)

\* One tick; a scan that fails changes nothing.  An empty page starts over.
Scan(w) ==
    LET rows == Page(Unwritten(sweep[w].after))
    IN  /\ Sweeping(w, "tick")
        /\ \/ /\ rows = {}
              /\ sweep' = [sweep EXCEPT ![w] = Ticking]
           \/ \E last \in rows :
                 /\ \A n \in rows : IdOf(n) <= IdOf(last)
                 /\ sweep' = [sweep EXCEPT ![w] =
                       [@ EXCEPT !.pc = "write", !.rows = rows, !.next = IdOf(last)]]
        /\ UNCHANGED <<tableVars, tdengine>>
        /\ SweepUnchanged

\* Row m is done with; after the last one the cursor moves.
NextRow(w, m) ==
    LET rest == sweep[w].rows \ {m}
    IN  sweep' = [sweep EXCEPT ![w] =
          IF rest = {} THEN [Ticking EXCEPT !.after = sweep[w].next]
          ELSE [@ EXCEPT !.pc = "write", !.row = NoMessage, !.rows = rest]]

\* A transient error ends the batch and keeps the cursor.
KeepCursor(w) ==
    sweep' = [sweep EXCEPT ![w] = [Ticking EXCEPT !.after = sweep[w].after]]

Compensate(w, m) ==
    /\ Sweeping(w, "write")
    /\ IsNext(w, m)
    /\ m \notin Rejected
    /\ InsertPoint(m)
    /\ sweep' = [sweep EXCEPT ![w] = [@ EXCEPT !.pc = "mark", !.row = m]]
    /\ UNCHANGED tableVars
    /\ SweepUnchanged

\* Seeded fault: a permanent error ends the batch as well.
CompensateStopsAtRejected(w, m) ==
    /\ Sweeping(w, "write")
    /\ IsNext(w, m)
    /\ m \in Rejected
    /\ KeepCursor(w)
    /\ UNCHANGED <<tableVars, tdengine>>
    /\ SweepUnchanged
\* isPermanentTDengineWriteError
CompensateRejected(w, m) ==
    /\ Sweeping(w, "write")
    /\ IsNext(w, m)
    /\ m \in Rejected
    /\ NextRow(w, m)
    /\ UNCHANGED <<tableVars, tdengine>>
    /\ SweepUnchanged

\* Seeded fault: the marker is set although the insert failed.
CompensateFailsMarked(w, m) ==
    /\ Sweeping(w, "write")
    /\ IsNext(w, m)
    /\ MarkTelemetryWritten(m)
    /\ KeepCursor(w)
    /\ UNCHANGED tdengine
    /\ SweepUnchanged
\* Any other error, after which the insert may have happened or not.
CompensateFails(w, m) ==
    /\ Sweeping(w, "write")
    /\ IsNext(w, m)
    /\ InsertFails(m)
    /\ KeepCursor(w)
    /\ UNCHANGED tableVars
    /\ SweepUnchanged

CompensateMark(w, m) ==
    /\ Sweeping(w, "mark")
    /\ sweep[w].row = m
    /\ MarkTelemetryWritten(m)
    /\ NextRow(w, m)
    /\ UNCHANGED tdengine
    /\ SweepUnchanged

\* Only logged: the row stays for a later sweep.
CompensateMarkFails(w, m) ==
    /\ Sweeping(w, "mark")
    /\ sweep[w].row = m
    /\ NextRow(w, m)
    /\ UNCHANGED <<tableVars, tdengine>>
    /\ SweepUnchanged

Sweep(w) ==
    \/ Scan(w)
    \/ \E m \in Messages :
          \/ Compensate(w, m) \/ CompensateRejected(w, m) \/ CompensateFails(w, m)
          \/ CompensateMark(w, m) \/ CompensateMarkFails(w, m)

-----------------------------------------------------------------------------
(* Faults and everyone else                                                *)

\* An error consumeTelemetry returns (DLQ, commit) ends Run, as does a crash;
\* the process restarts with a fresh scan cursor.
Crash(w) ==
    /\ worker' = [worker EXCEPT ![w] = Waiting]
    /\ sweep' = [sweep EXCEPT ![w] = Ticking]
    /\ UNCHANGED <<tableVars, kafkaVars, tdengine, aged>>

\* The partition moves while its old owner may still be working.
Rebalance(w) ==
    /\ owner' = w
    /\ UNCHANGED <<tableVars, topic, committed, dlq, tdengine, worker, sweep, aged>>

\* The ingestor, REST ingest or cmd/dlq-replay publishes a record, whose row
\* may be stored or not.
Arrive(rec) ==
    /\ Len(topic) < MaxLog
    /\ topic' = Append(topic, rec)
    /\ UNCHANGED <<tableVars, committed, owner, dlq, tdengine, worker, sweep, aged>>

\* Time passes: now - tdengineCompensateMinAge moves on.
Tick ==
    /\ aged' \in {t \in Times : t > aged}
    /\ UNCHANGED <<tableVars, kafkaVars, tdengine, worker, sweep>>

\* Registration, the ingestor's inbox and REST ingest.
Others ==
    /\ \/ \E d \in Devices : CreateDevice(d)
       \/ \E m \in Messages, received \in Times, id \in Ids :
             RestoreTelemetry(m, received, id)
    /\ UNCHANGED sinkVars

SinkNext ==
    \/ \E w \in Workers : Consume(w) \/ Sweep(w) \/ Crash(w) \/ Rebalance(w)
    \/ \E rec \in Records : Arrive(rec)
    \/ Tick
    \/ Others

SinkSpec == SinkInit /\ [][SinkNext]_allVars

-----------------------------------------------------------------------------
(* Fairness                                                                *)

\* The consumer loop goes on, its ticker fires and time passes.
LoopFairness ==
    /\ WF_allVars(Tick)
    /\ \A w \in Workers : WF_allVars(Consume(w)) /\ WF_allVars(Scan(w))

\* TDengine and PostgreSQL answer now and then, and TDengine refuses for good
\* what it cannot store.
SinkFairness ==
    \A w \in Workers, m \in Messages :
        /\ SF_allVars(Compensate(w, m))
        /\ SF_allVars(CompensateRejected(w, m))
        /\ SF_allVars(CompensateMark(w, m))

\* Workers stop crashing and the partition stays where it is.
Calm == <>[][\A w \in Workers : ~Crash(w) /\ ~Rebalance(w)]_allVars

-----------------------------------------------------------------------------
(* Properties                                                              *)

\* Type invariant: offsets lie within the partition, and a worker that is past
\* Fetch holds a record.
SinkTypeOK ==
    /\ topic \in Seq(Records)
    /\ committed \in 0..Len(topic)
    /\ owner \in Workers
    /\ dlq \subseteq Records
    /\ tdengine \in [Keys -> Messages \cup {NoMessage}]
    /\ worker \in [Workers -> [pc : {"fetch", "restore", "write", "mark",
                                     "deadletter", "commit"}, offset : Nat]]
    /\ \A w \in Workers : ~At(w, "fetch") => worker[w].offset \in 1..Len(topic)
    /\ sweep \in [Workers -> [pc : {"tick", "write", "mark"}, after : Ids \cup {0},
                              rows : SUBSET Messages, next : Ids \cup {0},
                              row : Messages \cup {NoMessage}]]
    /\ aged \in Times \cup {0}

HasPoint(m) == tdengine[Key(m)] # NoMessage

Kept(rec) == (IsStored(rec.msg) /\ HasPoint(rec.msg)) \/ rec \in dlq

\* The marker tdengine_written is set only after the insert, by the consumer as
\* by the compensation scan: a marked row has a point at its timestamp, and
\* every point is that of a stored row.
WrittenHasPoint ==
    /\ \A m \in Messages : IsWritten(m) => HasPoint(m) /\ m \notin Rejected
    /\ \A k \in Keys :
          tdengine[k] # NoMessage => IsStored(tdengine[k]) /\ Key(tdengine[k]) = k

\* consumeTelemetry: an offset is committed only when its record is stored and
\* has its point in TDengine, or is dead-lettered, whatever failed, crashed or
\* moved on the way.
CommittedIsKept == \A i \in 1..committed : Kept(topic[i])

\* The transactions of the loops are those of TelemetryStore, so what holds of
\* the tables there holds here.
SinkImplementsTable == TableSpec

\* compensateUnwrittenTelemetry: once crashes cease, every stored row TDengine
\* accepts is marked written, although its Kafka event may never come and
\* although rejected rows stand before it in the scan.
StoredIsWritten ==
    Calm => \A m \in Messages \ Rejected : IsStored(m) ~> IsWritten(m)

\* consumeTelemetry: no record, refused or of an unknown device, holds up the
\* partition.
RecordIsCommitted ==
    Calm => \A i \in 1..MaxLog : (i <= Len(topic)) ~> (i <= committed)

=============================================================================
