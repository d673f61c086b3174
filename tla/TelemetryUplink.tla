--------------------------- MODULE TelemetryUplink --------------------------
(***************************************************************************)
(* The ways telemetry enters: the telemetry-ingestor's MQTT bridge         *)
(* (mqtt_bridge.go) and REST ingest in iot-core (core/service.go), over    *)
(* the tables of TelemetryStore, the topic iot.telemetry and the DLQ.      *)
(* The topics only grow here; TelemetrySink models their consumer.         *)
(*                                                                         *)
(* The MQTT router calls back in order, so one callback at a time waits    *)
(* for a publish slot; messages that hold a slot are processed             *)
(* concurrently.  The process may stop, fail or crash at any moment.       *)
(***************************************************************************)
EXTENDS TelemetryStore, FiniteSets

CONSTANTS
    Malformed,     \* messages that fail decoding or name another device
    Handlers,      \* bound: messages in the process at once
    Slots          \* PublishConcurrency

ASSUME BridgeAssumption ==
    /\ Malformed \subseteq Messages
    /\ IsFiniteSet(Handlers)
    /\ Slots \in Nat \ {0}

VARIABLES
    sent,          \* messages devices have published over MQTT
    acked,         \* messages the broker has a PUBACK for
    topic,         \* records written to iot.telemetry
    dlq,           \* messages in iot.dlq at one of the mqtt stages
    handler,       \* per admitted message: step, slot, durable, receive time
    run,           \* where MQTTBridge.Run is: its select, or a step of stop
    stopping,      \* MQTTBridge.stopping
    canceled,      \* MQTTBridge.ctx is done
    fatal,         \* an error waits in errCh
    ingesting,     \* REST messages stored and not yet published
    answered       \* REST messages answered with success

logVars     == <<topic, dlq>>
restVars    == <<ingesting, answered>>
bridgeVars  == <<handler, run, stopping, canceled, fatal>>
inletVars   == <<sent, acked, logVars, bridgeVars, restVars>>
allVars     == <<tableVars, inletVars>>

Records == [msg : Messages, received : Times]

Resting == [pc |-> "rest", msg |-> NoMessage, slot |-> "no", durable |-> "no",
            received |-> 0]

InletInit ==
    /\ TableInit
    /\ sent = {} /\ acked = {} /\ topic = {} /\ dlq = {}
    /\ handler = [h \in Handlers |-> Resting]
    /\ run = "select" /\ stopping = FALSE /\ canceled = FALSE /\ fatal = FALSE
    /\ ingesting = {} /\ answered = {}

-----------------------------------------------------------------------------
(* One message in the bridge                                               *)

Pending == {h \in Handlers : handler[h].pc # "rest"}
SlotsTaken == {h \in Handlers : handler[h].slot = "yes"}
RouterBusy == \E h \in Pending : handler[h].slot = "no"

In(h, pc) == handler[h].pc = pc
Return(h) == handler' = [handler EXCEPT ![h] = Resting]

\* msg.Ack(): the PUBACK may be lost with the connection or the process.
Confirm(m) == acked' = acked \cup {m} \/ UNCHANGED acked

HandlerUnchanged == UNCHANGED <<sent, run, stopping, canceled, restVars>>

\* The callback: admission under the mutex.  After stopping was set it returns
\* at once and changes nothing.
Admit(h, m) ==
    /\ In(h, "rest")
    /\ m \in sent \ acked
    /\ ~RouterBusy
    /\ ~stopping
    /\ handler' = [handler EXCEPT ![h] = [Resting EXCEPT !.pc = "slot", !.msg = m]]
    /\ UNCHANGED <<tableVars, acked, logVars, fatal>>
    /\ HandlerUnchanged

\* The callback hands the message to a goroutine, which decodes it.
AcquireSlot(h) ==
    /\ In(h, "slot")
    /\ Cardinality(SlotsTaken) < Slots
    /\ handler' = [handler EXCEPT ![h] =
          [@ EXCEPT !.slot = "yes",
                    !.pc = IF handler[h].msg \in Malformed THEN "dlq" ELSE "inbox"]]
    /\ UNCHANGED <<tableVars, acked, logVars, fatal>>
    /\ HandlerUnchanged

\* Seeded fault: the message is left to the broker's redelivery.
SlotTimeoutDrops(h) ==
    /\ In(h, "slot")
    /\ Return(h)
    /\ UNCHANGED <<tableVars, acked, logVars, fatal>>
    /\ HandlerUnchanged

\* errPublishBacklogFull, or the shutdown interrupts the wait.
SlotTimeout(h) ==
    /\ In(h, "slot")
    /\ handler' = [handler EXCEPT ![h].pc = "dlq"]
    /\ UNCHANGED <<tableVars, acked, logVars, fatal>>
    /\ HandlerUnchanged

\* The inbox has the row, new or as a duplicate: PUBACK before Kafka.
InboxStores(h, received, id) ==
    LET m == handler[h].msg
    IN  /\ In(h, "inbox")
        /\ ~canceled
        /\ \/ RestoreTelemetry(m, received, id)
           \/ RestoreOutcome(m) = "duplicate" /\ UNCHANGED tableVars
        /\ handler' = [handler EXCEPT ![h] =
              [@ EXCEPT !.pc = "publish", !.durable = "yes",
                        !.received = telemetry_records'[m].received]]
        /\ Confirm(m)
        /\ UNCHANGED <<logVars, fatal>>
        /\ HandlerUnchanged

\* An unknown device or an error: the transaction may have committed.
InboxFails(h, received, id) ==
    /\ In(h, "inbox")
    /\ \/ UNCHANGED tableVars
       \/ ~canceled /\ RestoreTelemetry(handler[h].msg, received, id)
    /\ handler' = [handler EXCEPT ![h] =
          [@ EXCEPT !.pc = "publish", !.received = received]]
    /\ UNCHANGED <<acked, logVars, fatal>>
    /\ HandlerUnchanged

RecordOf(h) == [msg |-> handler[h].msg, received |-> handler[h].received]

PublishTelemetry(h) ==
    /\ In(h, "publish")
    /\ ~canceled
    /\ topic' = topic \cup {RecordOf(h)}
    /\ IF handler[h].durable = "yes" THEN UNCHANGED acked ELSE Confirm(handler[h].msg)
    /\ Return(h)
    /\ UNCHANGED <<tableVars, dlq, fatal>>
    /\ HandlerUnchanged

\* Seeded fault: the error is logged and the message confirmed.
PublishDropped(h) ==
    /\ In(h, "publish")
    /\ Confirm(handler[h].msg)
    /\ Return(h)
    /\ UNCHANGED <<tableVars, logVars, fatal>>
    /\ HandlerUnchanged
\* All retries failed, or the write was appended and the answer lost.
PublishFails(h) ==
    /\ In(h, "publish")
    /\ \/ UNCHANGED topic
       \/ ~canceled /\ topic' = topic \cup {RecordOf(h)}
    /\ handler' = [handler EXCEPT ![h].pc = "dlq"]
    /\ UNCHANGED <<tableVars, acked, dlq, fatal>>
    /\ HandlerUnchanged

DeadLetter(h) ==
    /\ In(h, "dlq")
    /\ ~canceled
    /\ dlq' = dlq \cup {handler[h].msg}
    /\ IF handler[h].durable = "yes" THEN UNCHANGED acked ELSE Confirm(handler[h].msg)
    /\ Return(h)
    /\ UNCHANGED <<tableVars, topic, fatal>>
    /\ HandlerUnchanged

\* Seeded fault: a failed dead letter keeps trying for ever.
DeadLetterInsists(h) ==
    /\ In(h, "dlq")
    /\ fatal' = TRUE
    /\ UNCHANGED <<tableVars, acked, logVars, handler>>
    /\ HandlerUnchanged

\* A durable message is left to the worker's compensation scan; any other one
\* stays unacknowledged and ends the process.
DeadLetterFails(h) ==
    /\ In(h, "dlq")
    /\ \/ UNCHANGED dlq
       \/ ~canceled /\ dlq' = dlq \cup {handler[h].msg}
    /\ fatal' = (fatal \/ handler[h].durable = "no")
    /\ Return(h)
    /\ UNCHANGED <<tableVars, acked, topic>>
    /\ HandlerUnchanged

InboxStep(h) ==
    \E received \in Times, id \in Ids :
        InboxStores(h, received, id) \/ InboxFails(h, received, id)

Handle(h) ==
    \/ AcquireSlot(h) \/ SlotTimeout(h)
    \/ InboxStep(h)
    \/ PublishTelemetry(h) \/ PublishFails(h)
    \/ DeadLetter(h) \/ DeadLetterFails(h)

-----------------------------------------------------------------------------
(* Run and its deferred stop                                               *)

RunUnchanged == UNCHANGED <<tableVars, sent, acked, logVars, handler, fatal, restVars>>

CloseAdmission ==
    /\ run = "select"
    /\ stopping' = TRUE
    /\ run' = "drain"
    /\ UNCHANGED canceled
    /\ RunUnchanged

ForceDrain ==
    /\ run = "drain"
    /\ canceled' = TRUE
    /\ run' = "forced"
    /\ UNCHANGED stopping
    /\ RunUnchanged

Drained ==
    /\ run \in {"drain", "forced"}
    /\ Pending = {}
    /\ canceled' = TRUE
    /\ run' = "disconnect"
    /\ UNCHANGED stopping
    /\ RunUnchanged

\* client.Disconnect and dlqWriter.Close; the process ends.
Disconnect ==
    /\ run = "disconnect"
    /\ run' = "exited"
    /\ UNCHANGED <<stopping, canceled>>
    /\ RunUnchanged

\* The process is started again, after an exit or a crash.
Restart ==
    /\ handler' = [h \in Handlers |-> Resting]
    /\ run' = "select"
    /\ stopping' = FALSE
    /\ canceled' = FALSE
    /\ fatal' = FALSE
    /\ UNCHANGED <<tableVars, sent, acked, logVars, restVars>>

-----------------------------------------------------------------------------
(* REST ingest, devices and the other clients of the tables                *)

RestUnchanged == UNCHANGED <<sent, acked, bridgeVars>>

\* Seeded fault: a duplicate is answered without publishing it.
IngestAnswersDuplicate(m, received, id) ==
    /\ m \notin Malformed
    /\ \/ /\ RestoreTelemetry(m, received, id)
          /\ ingesting' = ingesting \cup {m}
          /\ UNCHANGED answered
       \/ /\ RestoreOutcome(m) = "duplicate"
          /\ answered' = answered \cup {m}
          /\ UNCHANGED <<tableVars, ingesting>>
    /\ UNCHANGED logVars
    /\ RestUnchanged
\* IngestTelemetry stores first; a duplicate goes on to Kafka as well, because
\* an earlier call may have stopped in between.
IngestTelemetry(m, received, id) ==
    /\ m \notin Malformed
    /\ \/ RestoreTelemetry(m, received, id)
       \/ RestoreOutcome(m) = "duplicate" /\ UNCHANGED tableVars
    /\ ingesting' = ingesting \cup {m}
    /\ UNCHANGED <<logVars, answered>>
    /\ RestUnchanged

IngestPublishes(m) ==
    /\ m \in ingesting
    /\ topic' = topic \cup {[msg |-> m, received |-> telemetry_records[m].received]}
    /\ answered' = answered \cup {m}
    /\ ingesting' = ingesting \ {m}
    /\ UNCHANGED <<tableVars, dlq>>
    /\ RestUnchanged

\* Unavailable, or iot-core dies: the caller may try again.
IngestFails(m) ==
    /\ m \in ingesting
    /\ \/ UNCHANGED topic
       \/ topic' = topic \cup {[msg |-> m, received |-> telemetry_records[m].received]}
    /\ ingesting' = ingesting \ {m}
    /\ UNCHANGED <<tableVars, dlq, answered>>
    /\ RestUnchanged

\* A device publishes at QoS 1.
DevicePublishes(m) ==
    /\ m \notin sent
    /\ sent' = sent \cup {m}
    /\ UNCHANGED <<tableVars, acked, logVars, bridgeVars, restVars>>

\* Nobody can store what cannot be decoded.
Others ==
    /\ TableNext
    /\ \A m \in Malformed : telemetry_records'[m] = telemetry_records[m]
    /\ UNCHANGED inletVars

InletSystem ==
    \/ \E h \in Handlers : Handle(h) \/ \E m \in Messages : Admit(h, m)
    \/ CloseAdmission \/ ForceDrain \/ Drained \/ Disconnect \/ Restart
    \/ \E m \in Messages :
          \/ \E received \in Times, id \in Ids : IngestTelemetry(m, received, id)
          \/ IngestPublishes(m) \/ IngestFails(m) \/ DevicePublishes(m)

InletNext == InletSystem \/ Others

InletSpec == InletInit /\ [][InletNext]_allVars

-----------------------------------------------------------------------------
(* Fairness                                                                *)

ExitedRestart == run = "exited" /\ Restart
FatalEndsSelect == fatal /\ CloseAdmission

\* The slot wait, the inbox write and every Kafka write have timeouts; Run
\* reacts to errCh, stop goes on, and the process is started again.
StopFairness ==
    /\ \A h \in Handlers : WF_inletVars(Handle(h))
    /\ WF_inletVars(FatalEndsSelect)
    /\ WF_inletVars(Drained)
    /\ WF_inletVars(Disconnect)
    /\ WF_inletVars(ExitedRestart)

\* The broker redelivers, the process sometimes runs long enough for the next
\* step of a message, and Kafka takes a write now and then.  Nothing is assumed
\* of PostgreSQL.
KafkaFairness ==
    \A m \in Messages \ Malformed :
        LET Holds(h) == handler[h].msg = m /\ ~canceled
        IN  /\ SF_inletVars(\E h \in Handlers : Admit(h, m))
            /\ SF_inletVars(\E h \in Handlers :
                               Holds(h) /\ (AcquireSlot(h) \/ SlotTimeout(h)))
            /\ SF_inletVars(\E h \in Handlers : Holds(h) /\ InboxStep(h))
            /\ SF_inletVars(\E h \in Handlers : Holds(h) /\ PublishTelemetry(h))
            /\ SF_inletVars(\E h \in Handlers : Holds(h) /\ DeadLetter(h))

-----------------------------------------------------------------------------
(* Properties                                                              *)

\* Type invariant: the slots taken never exceed PublishConcurrency.
InletTypeOK ==
    /\ sent \subseteq Messages
    /\ acked \subseteq sent
    /\ topic \subseteq Records
    /\ dlq \subseteq Messages
    /\ handler \in [Handlers -> [pc : {"rest", "slot", "inbox", "publish", "dlq"},
                                 msg : Messages \cup {NoMessage},
                                 slot : {"no", "yes"}, durable : {"no", "yes"},
                                 received : Times \cup {0}]]
    /\ run \in {"select", "drain", "forced", "disconnect", "exited"}
    /\ stopping \in BOOLEAN
    /\ canceled \in BOOLEAN
    /\ fatal \in BOOLEAN
    /\ ingesting \subseteq Messages
    /\ answered \subseteq Messages
    /\ Cardinality(SlotsTaken) <= Slots

InTopic(m) == \E rec \in topic : rec.msg = m

Durable(m) == IsStored(m) \/ InTopic(m) \/ m \in dlq

\* processMessage and deadLetter: a PUBACK proves that the message is in
\* PostgreSQL, in iot.telemetry or in the DLQ, whichever of the three failed,
\* however full the slots were and wherever the process died.
AckedIsDurable == \A m \in acked : Durable(m)

\* IngestTelemetry: a REST caller told that its telemetry was accepted finds it
\* both stored and published, also when an earlier call stopped half way.
AnsweredIsPublished == \A m \in answered : IsStored(m) /\ InTopic(m)

\* stop: no admitted message is being processed once MQTT is disconnected and
\* the DLQ writer closed.
BridgeIsDrained == run \in {"disconnect", "exited"} => Pending = {}

\* Run: after a fatal error or a stop request the process ends; a callback that
\* waits for a slot cannot hold it up.
BridgeStops ==
    (fatal \/ stopping) ~> (run = "exited" \/ (~fatal /\ ~stopping))

\* A readable message a device published becomes durable although PostgreSQL may
\* never answer, and although stops and crashes drop it from memory.
SentIsDurable == \A m \in Messages \ Malformed : (m \in sent) ~> Durable(m)

=============================================================================
