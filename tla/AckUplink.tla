----------------------------- MODULE AckUplink ------------------------------
(***************************************************************************)
(* The acknowledgement uplink of a device-worker (worker_ack.go): devices  *)
(* publish execution results over MQTT at QoS 1, callbacks of the worker   *)
(* apply them to the tables of CommandStore, and only then send PUBACK.    *)
(*                                                                         *)
(* Callbacks run concurrently (SetOrderMatters(false)), so one message may *)
(* be in two of them after a redelivery.  The process may be told to stop, *)
(* fail, or crash at any moment, and is then started again.  Every other   *)
(* client of the tables is unconstrained, as in CommandStore.              *)
(***************************************************************************)
EXTENDS CommandStore

CONSTANTS
    Uplinks,            \* the messages devices may publish on ack topics
    Together,           \* bound: the sets of messages published in one behaviour
    Callbacks,          \* bound: callbacks that may be running at once
    NoUplink,           \* the message of an idle callback
    AckStoreAttempts    \* ackStoreAttempts, 3 in the code

\* "foreign" stands for a command that does not exist or is not this device's:
\* the store answers both in the same way.
UplinkForms == {"good", "malformed", "foreign"}

ASSUME UplinkAssumption ==
    /\ Uplinks \subseteq [cmd : Commands, report : Reports, form : UplinkForms]
    /\ NoUplink \notin Uplinks
    /\ AckStoreAttempts \in Nat \ {0}

VARIABLES
    sent,         \* messages devices have published
    acked,        \* messages the broker has a PUBACK for
    ackDlq,       \* messages in iot.dlq at stage command.ack
    callback,     \* per callback: message, step and failed store attempts
    run,          \* where Worker.Run is: its select, or a step of the shutdown
    stopping,     \* workerAckState.stopping
    canceled,     \* workerAckState.ctx is done
    fatal         \* an error waits in workerAckState.fatal

processVars == <<callback, run, stopping, canceled, fatal>>
uplinkVars  == <<sent, acked, ackDlq, processVars>>

Resting == [pc |-> "rest", msg |-> NoUplink, failures |-> 0]

Fresh ==
    /\ callback = [h \in Callbacks |-> Resting]
    /\ run = "select"
    /\ stopping = FALSE
    /\ canceled = FALSE
    /\ fatal = FALSE

UplinkInit ==
    /\ Init
    /\ sent = {}
    /\ acked = {}
    /\ ackDlq = {}
    /\ Fresh

-----------------------------------------------------------------------------
(* The callback, handleAckMessage                                          *)

Pending == {h \in Callbacks : callback[h].pc # "rest"}

In(h, pc) == callback[h].pc = pc

Goto(h, pc) == callback' = [callback EXCEPT ![h].pc = pc]

Return(h) == callback' = [callback EXCEPT ![h] = Resting]

Valid(m) == m.form = "good" /\ ValidReport(m.report)
Reporting == {m \in Uplinks : Valid(m)}

\* Seeded fault: the flag is not read.
AdmitAlways(h, m) ==
    /\ In(h, "rest")
    /\ m \in sent \ acked
    /\ callback' = [callback EXCEPT ![h] = [pc |-> "store", msg |-> m, failures |-> 0]]
    /\ UNCHANGED <<storeVars, sent, acked, ackDlq, run, stopping, canceled, fatal>>

\* Admission under the mutex, decoding and validation.  A callback admitted
\* after stopping was set returns at once and changes nothing.
Admit(h, m) ==
    /\ In(h, "rest")
    /\ m \in sent \ acked
    /\ ~stopping
    /\ callback' = [callback EXCEPT ![h] =
          [pc |-> IF m.form # "malformed" /\ ValidReport(m.report)
                  THEN "store" ELSE "puback",
           msg |-> m, failures |-> 0]]
    /\ UNCHANGED <<storeVars, sent, acked, ackDlq, run, stopping, canceled, fatal>>

CallbackUnchanged == UNCHANGED <<sent, run, stopping, canceled>>

\* What applyAck answers when the database does.
Answer(m) == IF m.form = "foreign" THEN "notfound" ELSE AckOutcome(m.cmd, m.report)

\* Seeded fault: the report has to wait until the downlink is confirmed.
ApplyAckOfSent(h) ==
    LET m == callback[h].msg
    IN  /\ In(h, "store")
        /\ ~canceled
        /\ commands[m.cmd].status = "sent"
        /\ AckCommandResult(m.cmd, m.report)
        /\ Goto(h, "puback")
        /\ UNCHANGED <<acked, ackDlq, fatal>>
        /\ CallbackUnchanged

\* A stored result and a duplicate are confirmed; an unknown command and a
\* conflicting result are rejected, which confirms the message as well.
ApplyAck(h) ==
    LET m == callback[h].msg
    IN  /\ In(h, "store")
        /\ ~canceled
        /\ IF Answer(m) = "applied" THEN AckCommandResult(m.cmd, m.report)
                                    ELSE UNCHANGED storeVars
        /\ Goto(h, "puback")
        /\ UNCHANGED <<acked, ackDlq, fatal>>
        /\ CallbackUnchanged

\* An error after which nothing is known: the transaction may have committed.
\* With the context canceled every attempt ends here.
ApplyAckFails(h) ==
    LET m == callback[h].msg
    IN  /\ In(h, "store")
        /\ \/ UNCHANGED storeVars
           \/ /\ ~canceled
              /\ Answer(m) = "applied"
              /\ AckCommandResult(m.cmd, m.report)
        /\ callback' = [callback EXCEPT
              ![h].failures = @ + 1,
              ![h].pc = IF callback[h].failures + 1 < AckStoreAttempts
                        THEN "backoff" ELSE "dlq"]
        /\ UNCHANGED <<acked, ackDlq, fatal>>
        /\ CallbackUnchanged

\* Seeded fault: the attempts are not counted.
RetryFromZero(h) ==
    /\ In(h, "backoff")
    /\ callback' = [callback EXCEPT ![h].pc = "store", ![h].failures = 0]
    /\ UNCHANGED <<storeVars, acked, ackDlq, fatal>>
    /\ CallbackUnchanged
Retry(h) ==
    /\ In(h, "backoff")
    /\ Goto(h, "store")
    /\ UNCHANGED <<storeVars, acked, ackDlq, fatal>>
    /\ CallbackUnchanged

\* The shutdown interrupts the backoff: no PUBACK.
Abandon(h) ==
    /\ In(h, "backoff")
    /\ canceled
    /\ Return(h)
    /\ UNCHANGED <<storeVars, acked, ackDlq, fatal>>
    /\ CallbackUnchanged

DeadLetterAck(h) ==
    /\ In(h, "dlq")
    /\ ~canceled
    /\ ackDlq' = ackDlq \cup {callback[h].msg}
    /\ Goto(h, "puback")
    /\ UNCHANGED <<storeVars, acked, fatal>>
    /\ CallbackUnchanged

\* Seeded fault: the message is confirmed although no sink took it.
DeadLetterAckDropped(h) ==
    /\ In(h, "dlq")
    /\ fatal' = TRUE
    /\ Goto(h, "puback")
    /\ UNCHANGED <<storeVars, acked, ackDlq>>
    /\ CallbackUnchanged

\* failAck: neither store nor DLQ took the message (or the DLQ did and could
\* not say so).  It stays unacknowledged and Run is told to end.
DeadLetterAckFails(h) ==
    /\ In(h, "dlq")
    /\ \/ UNCHANGED ackDlq
       \/ ~canceled /\ ackDlq' = ackDlq \cup {callback[h].msg}
    /\ fatal' = TRUE
    /\ Return(h)
    /\ UNCHANGED <<storeVars, acked>>
    /\ CallbackUnchanged

\* msg.Ack(); the PUBACK may be lost with the connection.
PubAck(h) ==
    /\ In(h, "puback")
    /\ \/ acked' = acked \cup {callback[h].msg}
       \/ UNCHANGED acked
    /\ Return(h)
    /\ UNCHANGED <<storeVars, ackDlq, fatal>>
    /\ CallbackUnchanged

Callback(h) ==
    \/ ApplyAck(h) \/ ApplyAckFails(h) \/ Retry(h) \/ Abandon(h)
    \/ DeadLetterAck(h) \/ DeadLetterAckFails(h) \/ PubAck(h)

-----------------------------------------------------------------------------
(* Run and its deferred stopAckHandling                                    *)

RunUnchanged == UNCHANGED <<storeVars, sent, acked, ackDlq, callback, fatal>>

\* SIGTERM, a failed consumer loop or a fatal acknowledgement.
CloseAdmission ==
    /\ run = "select"
    /\ stopping' = TRUE
    /\ run' = "drain"
    /\ UNCHANGED canceled
    /\ RunUnchanged

\* Three seconds passed: cancel what is left, and go on waiting for it.
ForceDrain ==
    /\ run = "drain"
    /\ canceled' = TRUE
    /\ run' = "forced"
    /\ UNCHANGED stopping
    /\ RunUnchanged

Drained ==
    /\ run \in {"drain", "forced"}
    /\ Pending = {}
    /\ canceled' = TRUE
    /\ run' = "disconnect"
    /\ UNCHANGED stopping
    /\ RunUnchanged

\* mqtt.Disconnect and dlqWriter.Close; the process ends.
Disconnect ==
    /\ run = "disconnect"
    /\ run' = "exited"
    /\ UNCHANGED <<stopping, canceled>>
    /\ RunUnchanged

\* Kubernetes starts the process again, after an exit or a crash.
Restart ==
    /\ callback' = [h \in Callbacks |-> Resting]
    /\ run' = "select"
    /\ stopping' = FALSE
    /\ canceled' = FALSE
    /\ fatal' = FALSE
    /\ UNCHANGED <<storeVars, sent, acked, ackDlq>>

-----------------------------------------------------------------------------
(* Devices, the operator and the other clients of the tables               *)

\* A device reports on commands that exist; it may report more than once and
\* contradict itself.
Publish(m) ==
    /\ m \notin sent
    /\ \E S \in Together : sent \cup {m} \subseteq S
    /\ m.form = "good" => commands[m.cmd].status # "absent"
    /\ sent' = sent \cup {m}
    /\ UNCHANGED <<storeVars, acked, ackDlq, processVars>>

\* cmd/dlq-replay -stage command.ack applies the dead letter to the store.  The
\* record stays in the topic.
ReplayAck(m) ==
    /\ m \in ackDlq
    /\ Answer(m) = "applied"
    /\ AckCommandResult(m.cmd, m.report)
    /\ UNCHANGED uplinkVars

Others == Next /\ UNCHANGED uplinkVars

UplinkSystem ==
    \/ \E h \in Callbacks : Callback(h) \/ \E m \in Uplinks : Admit(h, m)
    \/ CloseAdmission \/ ForceDrain \/ Drained \/ Disconnect \/ Restart
    \/ \E m \in Uplinks : Publish(m) \/ ReplayAck(m)

UplinkNext == UplinkSystem \/ Others

UplinkSpec == UplinkInit /\ [][UplinkNext]_<<storeVars, uplinkVars>>

-----------------------------------------------------------------------------
(* Fairness                                                                *)

ExitedRestart == run = "exited" /\ Restart
FatalEndsSelect == fatal /\ CloseAdmission

\* Every attempt of a callback has a timeout (2 s for the store, 5 s for the
\* DLQ, a timer for the backoff), Run reacts to a fatal error, the shutdown
\* goes on and the process is started again.
RunFairness ==
    /\ \A h \in Callbacks : WF_uplinkVars(Callback(h))
    /\ WF_uplinkVars(FatalEndsSelect)
    /\ WF_uplinkVars(Drained)
    /\ WF_uplinkVars(Disconnect)
    /\ WF_uplinkVars(ExitedRestart)

\* The broker redelivers what is not acknowledged, and PostgreSQL answers an
\* attempt now and then.
DeliveryFairness ==
    \A m \in Reporting :
        /\ SF_uplinkVars(\E h \in Callbacks : Admit(h, m))
        /\ SF_uplinkVars(\E h \in Callbacks : callback[h].msg = m /\ ApplyAck(h))

-----------------------------------------------------------------------------
(* Properties                                                              *)

\* Type invariant.  The failure count never passes ackStoreAttempts.
UplinkTypeOK ==
    /\ sent \subseteq Uplinks
    /\ acked \subseteq sent
    /\ ackDlq \subseteq sent
    /\ callback \in [Callbacks -> [pc : {"rest", "store", "backoff", "dlq", "puback"},
                                   msg : Uplinks \cup {NoUplink},
                                   failures : 0..AckStoreAttempts]]
    /\ run \in {"select", "drain", "forced", "disconnect", "exited"}
    /\ stopping \in BOOLEAN
    /\ canceled \in BOOLEAN
    /\ fatal \in BOOLEAN

Settled(m) == m \in ackDlq \/ commands[m.cmd].status \in Terminal

\* handleAckMessage: a valid report on an existing command is confirmed to the
\* broker only when its command has ended or a copy is in the DLQ, whatever
\* attempts failed, in whatever order callbacks and other clients ran, and
\* wherever the process died.
AckedIsSettled == \A m \in acked : Valid(m) => Settled(m)

\* stopAckHandling: no admitted callback is still at work, with a PUBACK or a
\* dead letter to write, once MQTT is disconnected and the DLQ writer closed.
DisconnectedIsDrained == run \in {"disconnect", "exited"} => Pending = {}

\* Run: after a fatal acknowledgement or a stop request the process ends; it
\* cannot wait for ever for a callback.
StopTerminates ==
    (fatal \/ stopping) ~> (run = "exited" \/ (~fatal /\ ~stopping))

\* No valid report is lost: once published it settles, through failed
\* attempts, shutdowns that abandon it and crashes.
SentIsSettled ==
    \A m \in Reporting : (m \in sent) ~> Settled(m)

=============================================================================
