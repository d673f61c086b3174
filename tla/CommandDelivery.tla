-------------------------- MODULE CommandDelivery --------------------------
(***************************************************************************)
(* How a command reaches its device: the dispatcher loops of the iot-core  *)
(* replicas (command_dispatcher.go), the Kafka topic iot.command, the      *)
(* command loops of the device-worker replicas (worker.go) and the MQTT    *)
(* downlink, all over the tables of CommandStore.                          *)
(*                                                                         *)
(* Every PostgreSQL statement, Kafka write, MQTT publish and offset commit *)
(* is a step of its own, so any other process may act between two of them. *)
(* Any of them may fail, and any process may die and restart between them, *)
(* as often as it likes: faults are neither counted nor bounded.           *)
(***************************************************************************)
EXTENDS CommandStore, FiniteSets

CONSTANTS
    Cores,        \* iot-core replicas, each with a dispatch and a scan loop
    Workers,      \* device-worker replicas of one consumer group
    NoWorker,     \* the owner of a partition not yet assigned
    NoCommand,    \* the command of an idle dispatcher
    MaxCopies,    \* bound: copies one PublishCommand may leave in Kafka
    ReplayBelow,  \* bound: dlq-replay adds to a topic with fewer events
    Many,         \* downlink counts saturate here
    StoreMayFail  \* whether a completion or a requeue may fail unnoticed

ASSUME DeliveryAssumption ==
    /\ NoWorker \notin Workers
    /\ NoCommand \notin Commands
    /\ MaxCopies \in Nat \ {0}
    /\ ReplayBelow \in Nat
    /\ Many \in Nat \ {0, 1}
    /\ StoreMayFail \in BOOLEAN

VARIABLES
    dispatcher,   \* per core: the claim its dispatch loop is working on
    scanner,      \* per core: the next statement of its scan loop
    topic,        \* iot.command: one partition, every event ever written
    committed,    \* the consumer group's committed offset
    owner,        \* the worker the partition is assigned to
    worker,       \* per worker: the event in hand and the step reached
    dlq,          \* events dead-lettered at stage command.mqtt
    downlinks,    \* ghost: downlinks of a command that reach the broker
    disturbed     \* ghost: commands whose delivery was ever cut short

kafkaVars  == <<topic, committed, owner, dlq>>
ghostVars  == <<downlinks, disturbed>>
vars == <<storeVars, dispatcher, scanner, worker, kafkaVars, ghostVars>>

\* Kafka carries the whole claimed row; only its identity and the attempt it
\* was claimed for are ever looked at (worker.go:463-465).
Events == [cmd : Commands, attempt : 1..MaxDispatchAttempts]

Idle == [pc |-> "idle", cmd |-> NoCommand, attempt |-> 0]

Waiting == [pc |-> "fetch", offset |-> 0]

DeliveryInit ==
    /\ Init
    /\ dispatcher = [d \in Cores |-> Idle]
    /\ scanner = [d \in Cores |-> "requeue"]
    /\ topic = <<>>
    /\ committed = 0
    /\ owner = NoWorker
    /\ worker = [w \in Workers |-> Waiting]
    /\ dlq = {}
    /\ downlinks = [c \in Commands |-> 0]
    /\ disturbed = {}

-----------------------------------------------------------------------------
(* The dispatch loop: claim one command, publish it, record the outcome    *)

DispatchUnchanged == UNCHANGED <<scanner, worker, committed, owner, dlq,
                                 ghostVars>>

Claim(d) ==
    /\ dispatcher[d].pc = "idle"
    /\ \E c \in Commands :
          /\ ClaimCommand(c)
          /\ dispatcher' = [dispatcher EXCEPT ![d] =
                [pc |-> "publish", cmd |-> c,
                 attempt |-> commands'[c].attempts]]
    /\ UNCHANGED topic
    /\ DispatchUnchanged

Copies(d, n) ==
    [i \in 1..n |-> [cmd |-> dispatcher[d].cmd,
                     attempt |-> dispatcher[d].attempt]]

\* writeKafkaMessageWithRetry: an attempt that reports an error may still have
\* been appended, so a success leaves one or more copies of the event...
PublishCommand(d) ==
    /\ dispatcher[d].pc = "publish"
    /\ \E n \in 1..MaxCopies : topic' = topic \o Copies(d, n)
    /\ dispatcher' = [dispatcher EXCEPT ![d].pc = "mark"]
    /\ UNCHANGED storeVars
    /\ DispatchUnchanged

\* ...and a failure none or some.
PublishFails(d) ==
    /\ dispatcher[d].pc = "publish"
    /\ \E n \in 0..MaxCopies : topic' = topic \o Copies(d, n)
    /\ dispatcher' = [dispatcher EXCEPT ![d].pc = "reschedule"]
    /\ UNCHANGED storeVars
    /\ DispatchUnchanged

\* Seeded fault: the completion writes the row by its identity alone.
MarkPublishedBlindly(d) ==
    /\ dispatcher[d].pc = "mark"
    /\ commands' = [commands EXCEPT ![dispatcher[d].cmd] = SetPublished(@)]
    /\ UNCHANGED <<command_ack, command_events, topic>>
    /\ dispatcher' = [dispatcher EXCEPT ![d] = Idle]
    /\ DispatchUnchanged

\* A completion that matches no row, or fails, is only logged.
MarkPublished(d) ==
    /\ dispatcher[d].pc = "mark"
    /\ \/ MarkCommandPublished(dispatcher[d].cmd, dispatcher[d].attempt)
       \/ StoreMayFail /\ UNCHANGED storeVars
    /\ dispatcher' = [dispatcher EXCEPT ![d] = Idle]
    /\ UNCHANGED topic
    /\ DispatchUnchanged

Reschedule(d) ==
    /\ dispatcher[d].pc = "reschedule"
    /\ \/ RescheduleCommand(dispatcher[d].cmd, dispatcher[d].attempt)
       \/ StoreMayFail /\ UNCHANGED storeVars
    /\ dispatcher' = [dispatcher EXCEPT ![d] = Idle]
    /\ UNCHANGED topic
    /\ DispatchUnchanged

CoreCrash(d) ==
    /\ dispatcher[d] # Idle \/ scanner[d] # "requeue"
    /\ dispatcher' = [dispatcher EXCEPT ![d] = Idle]
    /\ scanner' = [scanner EXCEPT ![d] = "requeue"]
    /\ UNCHANGED <<storeVars, worker, kafkaVars, ghostVars>>

-----------------------------------------------------------------------------
(* The scan loop: RecoverStaleCommands (two statements), ExpireCommands    *)

ScanUnchanged == UNCHANGED <<dispatcher, worker, kafkaVars, ghostVars>>

ScanRequeue(d, C) ==
    /\ scanner[d] = "requeue"
    /\ RequeueStale(C)
    /\ scanner' = [scanner EXCEPT ![d] = "fail"]
    /\ ScanUnchanged

ScanFail(d, C) ==
    /\ scanner[d] = "fail"
    /\ FailExhausted(C)
    /\ scanner' = [scanner EXCEPT ![d] = "expire"]
    /\ ScanUnchanged

ScanExpire(d, C) ==
    /\ scanner[d] = "expire"
    /\ ExpireCommands(C)
    /\ scanner' = [scanner EXCEPT ![d] = "requeue"]
    /\ ScanUnchanged

\* An error of the first statement skips the second; the expiry still runs.
ScanError(d) ==
    /\ scanner' = [scanner EXCEPT ![d] = IF @ = "expire" THEN "requeue"
                                                         ELSE "expire"]
    /\ UNCHANGED storeVars
    /\ ScanUnchanged

Matching(P(_)) == {c \in Commands : P(commands[c])}

Scan(d) ==
    \/ \E C \in SUBSET Matching(Stranded) : ScanRequeue(d, C)
    \/ \E C \in SUBSET Matching(Exhausted) : ScanFail(d, C)
    \/ \E C \in SUBSET Matching(Expired) : ScanExpire(d, C)
    \/ ScanError(d)

-----------------------------------------------------------------------------
(* The worker's command loop                                               *)

WorkerUnchanged == UNCHANGED <<dispatcher, scanner, topic, owner>>

InHand(w) == topic[worker[w].offset]

At(w, pc) == worker[w].pc = pc

Step(w, pc) == worker' = [worker EXCEPT ![w].pc = pc]

Saturated(n) == IF n < Many THEN n + 1 ELSE Many

\* Seeded fault: only terminal commands count as delivered.
DeliverableUnlessTerminal(c) == commands[c].status \in Active

\* commandForDelivery: created and published commands are sent.
Deliverable(c) == commands[c].status \in {"created", "published"}

\* FetchMessage and the lookup.  An event that needs no delivery is committed.
Fetch(w) ==
    /\ At(w, "fetch")
    /\ owner = w
    /\ committed < Len(topic)
    /\ worker' = [worker EXCEPT ![w] =
          [pc |-> IF Deliverable(topic[committed + 1].cmd) THEN "downlink" ELSE "commit",
           offset |-> committed + 1]]
    /\ UNCHANGED <<storeVars, committed, dlq, ghostVars>>
    /\ WorkerUnchanged

\* Publish at QoS 1, acknowledged by the broker in time.
Downlink(w) ==
    /\ At(w, "downlink")
    /\ Step(w, "sent")
    /\ downlinks' = [downlinks EXCEPT ![InHand(w).cmd] = Saturated(@)]
    /\ UNCHANGED <<storeVars, committed, dlq, disturbed>>
    /\ WorkerUnchanged

\* Seeded fault: a publish that timed out is taken for a delivery.
DownlinkFailsAsSent(w) ==
    /\ At(w, "downlink")
    /\ Step(w, "sent")
    /\ disturbed' = disturbed \cup {InHand(w).cmd}
    /\ UNCHANGED <<storeVars, committed, dlq, downlinks>>
    /\ WorkerUnchanged

\* An error or the five second timeout: paho may still deliver the message
\* after it reconnects.
DownlinkFails(w) ==
    /\ At(w, "downlink")
    /\ Step(w, "requeue")
    /\ \/ downlinks' = [downlinks EXCEPT ![InHand(w).cmd] = Saturated(@)]
       \/ UNCHANGED downlinks
    /\ disturbed' = disturbed \cup {InHand(w).cmd}
    /\ UNCHANGED <<storeVars, committed, dlq>>
    /\ WorkerUnchanged

MarkSent(w) ==
    /\ At(w, "sent")
    /\ MarkCommandSent(InHand(w).cmd)
    /\ Step(w, "commit")
    /\ UNCHANGED <<committed, dlq, ghostVars>>
    /\ WorkerUnchanged

\* Seeded fault: the requeue is trusted and the dead letter skipped.
RequeueOnly(w) ==
    /\ At(w, "requeue")
    /\ \/ RequeueCommand(InHand(w).cmd)
       \/ StoreMayFail /\ UNCHANGED storeVars
    /\ Step(w, "commit")
    /\ UNCHANGED <<committed, dlq, ghostVars>>
    /\ WorkerUnchanged

\* A requeue that matches no row, or fails, is only logged.
Requeue(w) ==
    /\ At(w, "requeue")
    /\ \/ RequeueCommand(InHand(w).cmd)
       \/ StoreMayFail /\ UNCHANGED storeVars
    /\ Step(w, "deadletter")
    /\ UNCHANGED <<committed, dlq, ghostVars>>
    /\ WorkerUnchanged

DeadLetter(w) ==
    /\ At(w, "deadletter")
    /\ dlq' = dlq \cup {InHand(w)}
    /\ Step(w, "commit")
    /\ UNCHANGED <<storeVars, committed, ghostVars>>
    /\ WorkerUnchanged

\* Only the assigned member's commit is accepted; another's is an error.
Commit(w) ==
    /\ At(w, "commit")
    /\ owner = w
    /\ committed' = worker[w].offset
    /\ worker' = [worker EXCEPT ![w] = Waiting]
    /\ UNCHANGED <<storeVars, dlq, ghostVars>>
    /\ WorkerUnchanged

\* Any error the loop returns on (lookup, MarkCommandSent, DLQ, commit) ends
\* Run, and the process restarts; a crash has the same effect.
WorkerCrash(w) ==
    /\ ~At(w, "fetch")
    /\ worker' = [worker EXCEPT ![w] = Waiting]
    /\ disturbed' = IF At(w, "sent") THEN disturbed \cup {InHand(w).cmd}
                                     ELSE disturbed
    /\ UNCHANGED <<storeVars, committed, dlq, downlinks>>
    /\ WorkerUnchanged

\* The first assignment, or the partition moves while its old owner may still
\* be working on an event.
Rebalance(w) ==
    /\ owner # w
    /\ owner' = w
    /\ disturbed' = IF owner = NoWorker \/ At(owner, "fetch") THEN disturbed
                    ELSE disturbed \cup {InHand(owner).cmd}
    /\ UNCHANGED <<storeVars, dispatcher, scanner, worker, topic, committed,
                   dlq, downlinks>>

WorkerStep(w) ==
    \/ Fetch(w) \/ Downlink(w) \/ DownlinkFails(w) \/ MarkSent(w)
    \/ Requeue(w) \/ DeadLetter(w) \/ Commit(w)

-----------------------------------------------------------------------------
(* Everyone else                                                           *)

LoopsUnchanged ==
    UNCHANGED <<dispatcher, scanner, worker, kafkaVars, ghostVars>>

\* POST /commands, POST /commands/{id}/ack, an ACK over MQTT, a replayed ACK.
Create(c) == CreateCommand(c) /\ LoopsUnchanged
Ack(c) == (\E r \in Reports : AckCommandResult(c, r)) /\ LoopsUnchanged
Clock(c) == Tick(c) /\ LoopsUnchanged

\* cmd/dlq-replay -stage command.mqtt writes the original event again.
Replay ==
    /\ Len(topic) < ReplayBelow
    /\ \E e \in dlq : topic' = Append(topic, e)
    /\ UNCHANGED <<storeVars, dispatcher, scanner, worker, committed, owner,
                   dlq, ghostVars>>

\* The steps of the processes in C and W and of everyone else.
DeployedNext(C, W) ==
    \/ \E d \in C :
          \/ Claim(d) \/ PublishCommand(d) \/ PublishFails(d)
          \/ MarkPublished(d) \/ Reschedule(d) \/ CoreCrash(d) \/ Scan(d)
    \/ \E w \in W : WorkerStep(w) \/ WorkerCrash(w) \/ Rebalance(w)
    \/ \E c \in Commands : Create(c) \/ Ack(c) \/ Clock(c)
    \/ Replay

DeliveryNext == DeployedNext(Cores, Workers)

DeliverySpec == DeliveryInit /\ [][DeliveryNext]_vars

\* The scan and dispatch tickers of every core keep firing, a claim in hand is
\* brought to an end, a sweep now and then succeeds and meets no locked row,
\* and time passes.  Nothing is assumed of Kafka, MQTT, the workers or devices.
Fairness ==
    /\ \A d \in Cores :
          /\ WF_vars(Claim(d))
          /\ WF_vars(PublishCommand(d) \/ PublishFails(d))
          /\ WF_vars(MarkPublished(d) \/ Reschedule(d))
          /\ WF_vars(Scan(d))
          /\ SF_vars(ScanRequeue(d, Matching(Stranded)))
          /\ SF_vars(ScanFail(d, Matching(Exhausted)))
          /\ SF_vars(ScanExpire(d, Matching(Expired)))
    /\ \A c \in Commands :
          /\ WF_vars(LeaseEnds(c) /\ LoopsUnchanged)
          /\ WF_vars(TurnsStale(c) /\ LoopsUnchanged)
          /\ WF_vars(DeadlinePasses(c) /\ LoopsUnchanged)

FairDeliverySpec == DeliverySpec /\ Fairness

-----------------------------------------------------------------------------
(* Properties                                                              *)

\* Type invariant of the loops, the topic and the ghosts.
DeliveryTypeOK ==
    /\ dispatcher \in [Cores ->
          {Idle} \cup [pc : {"publish", "mark", "reschedule"}, cmd : Commands,
                      attempt : 1..MaxDispatchAttempts]]
    /\ scanner \in [Cores -> {"requeue", "fail", "expire"}]
    /\ topic \in Seq(Events)
    /\ committed \in 0..Len(topic)
    /\ owner \in Workers \cup {NoWorker}
    /\ worker \in [Workers ->
          {Waiting} \cup [pc : {"downlink", "sent", "requeue", "deadletter",
                               "commit"}, offset : 1..Len(topic)]]
    /\ dlq \subseteq Events
    /\ downlinks \in [Commands -> 0..Many]
    /\ disturbed \subseteq Commands

\* Each attempt has one owner, and until that owner has recorded the outcome
\* the row cannot be 'published': so neither the worker's requeue nor the
\* recovery scan can have acted on the attempt, and a delayed
\* MarkCommandPublished never overwrites a requeue (the race the comment on
\* RequeueCommand speaks of), however long the owner was delayed.
CompletionFenced ==
    \A d \in Cores :
        dispatcher[d].pc # "idle" =>
            LET c == dispatcher[d].cmd
                n == dispatcher[d].attempt
            IN  /\ n <= commands[c].attempts
                /\ n = commands[c].attempts => commands[c].status # "published"
                /\ \A e \in Cores \ {d} :
                      dispatcher[e].cmd = c => dispatcher[e].attempt # n

\* No event is dropped silently: a command that waits in 'published' still has
\* an event the consumer group has not committed, or the event of its current
\* attempt was dead-lettered.  Crashes, rebalances, a commit that follows the
\* dead letter and a completion that arrives late must all respect it.
PublishedIsPending ==
    \A c \in Commands :
        commands[c].status = "published" =>
            \/ \E i \in (committed + 1)..Len(topic) : topic[i].cmd = c
            \/ [cmd |-> c, attempt |-> commands[c].attempts] \in dlq

\* 'sent' is never a guess: a 'delivered' entry of the audit trail means a
\* downlink was handed to the broker.
DeliveredMeansDownlink ==
    \A c \in Commands :
        (\E i \in DOMAIN command_events[c] : command_events[c][i] = "delivered")
            => downlinks[c] > 0

\* Duplicate Kafka copies, dispatcher retries after a lost completion, stale
\* requeues and DLQ replays never make the device receive a command twice.
\* Only a delivery cut short can: a worker that stopped between the publish
\* and MarkCommandSent, a publish that failed or timed out (paho may deliver
\* it later), or a rebalance while the event was in hand.
DuplicateNeedsDisturbance ==
    \A c \in Commands : downlinks[c] > 1 => c \in disturbed

\* The loops use the store only through its statements: every step of the
\* whole system is a step of CommandStore or leaves the tables alone, so what
\* holds of the tables under arbitrary clients holds here.
ImplementsStore == Spec

\* Every command ends: whatever Kafka, MQTT, the workers and the devices do,
\* attempts are bounded and the recovery and timeout scans bring the row to
\* acked, failed or timeout.
EventuallyTerminal ==
    \A c \in Commands :
        commands[c].status = "created" ~> commands[c].status \in Terminal

\* The comment on RequeueCommand (postgres_store.go:912-915): when the requeue
\* finds the row still 'created', the row "will be re-claimed on its own".  So
\* once the worker has given up on the event of the current attempt and
\* dead-lettered it, the row should be waiting for the dispatcher again.
GivenUpIsReclaimable ==
    \A c \in Commands :
        commands[c].status = "published" =>
            [cmd |-> c, attempt |-> commands[c].attempts] \notin dlq

=============================================================================
