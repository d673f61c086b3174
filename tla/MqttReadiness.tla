---------------------------- MODULE MqttReadiness ---------------------------
(***************************************************************************)
(* When a device-worker or a telemetry-ingestor reports that it is ready:  *)
(* the generations of mqtt_readiness.go, driven by the callbacks of the    *)
(* MQTT client in worker.go, worker_ack.go and mqtt_bridge.go.             *)
(*                                                                         *)
(* The client runs OnConnect in a goroutine of its own, so that of an old  *)
(* connection may start late, or resume when the next connection is open;  *)
(* OnReconnecting runs before each dial.  The bridge has one filter and no *)
(* gate; the worker subscribes its filters one after the other.            *)
(***************************************************************************)
EXTENDS Naturals

CONSTANTS
    Filters,          \* topic filters to subscribe
    NoFilter,         \* none is being subscribed
    MaxConnections,   \* bound: connections ever opened
    MaxGeneration     \* bound: no dial above this generation

ASSUME ReadinessAssumption ==
    /\ Filters # {} /\ NoFilter \notin Filters
    /\ MaxConnections \in Nat
    /\ MaxGeneration \in Nat

VARIABLES
    connection,    \* "dialing", "open", "lost" or "off"
    epoch,         \* number of the connection
    granted,       \* filters granted QoS 1 on the connection
    generation,    \* mqttReadiness.generation
    subscribed,    \* mqttReadiness.subscribed
    stopped,       \* mqttReadiness.stopped
    callback,      \* per connection: its OnConnect
    gate,          \* workerAckState.ready: Run may start the consumers
    probe,         \* a CheckReady: "idle", "half" read, or its answer
    witness        \* history: was the process serving since the probe began

stateVars == <<generation, subscribed, stopped>>
linkVars  == <<connection, epoch, granted>>
vars == <<linkVars, stateVars, callback, gate, probe, witness>>

Connections == 1..MaxConnections

\* No OnConnect is running.
Idle == [pc |-> "idle", generation |-> 0, left |-> Filters, filter |-> NoFilter, epoch |-> 0]
Done == [Idle EXCEPT !.pc = "done"]

Init ==
    /\ connection = "dialing" /\ epoch = 0 /\ granted = {}
    /\ generation = 0 /\ subscribed = "no" /\ stopped = "no"
    /\ callback = [c \in Connections |-> Idle]
    /\ gate = "closed"
    /\ probe = "idle" /\ witness = "no"

\* Telemetry or ACKs really reach the process.
Serving == connection = "open" /\ granted = Filters

-----------------------------------------------------------------------------
(* mqttReadiness                                                           *)

reset ==
    /\ generation' = generation + 1
    /\ subscribed' = "no"
    /\ UNCHANGED stopped

\* Seeded fault: any SUBACK confirms.
confirmsAny(g) == stopped = "no"
confirms(g) == g = generation /\ stopped = "no"

stop ==
    /\ generation' = generation + 1
    /\ subscribed' = "no"
    /\ stopped' = "yes"

ready == subscribed = "yes" /\ stopped = "no"

-----------------------------------------------------------------------------
(* The MQTT client                                                         *)

Open ==
    /\ connection = "dialing"
    /\ epoch < MaxConnections
    /\ connection' = "open"
    /\ epoch' = epoch + 1
    /\ granted' = {}
    /\ callback' = [callback EXCEPT ![epoch + 1] = [@ EXCEPT !.pc = "begin"]]
    /\ UNCHANGED <<stateVars, gate>>

\* A connection or a dial breaks off.
Lose ==
    /\ connection \in {"open", "dialing"}
    /\ epoch > 0
    /\ connection' = "lost"
    /\ UNCHANGED <<epoch, granted, stateVars, callback, gate>>

Reconnecting ==
    /\ connection = "lost"
    /\ generation < MaxGeneration
    /\ connection' = "dialing"
    /\ reset
    /\ UNCHANGED <<epoch, granted, callback, gate>>

\* The SUBACK arrives on the connection the SUBSCRIBE was sent on.
Suback(c) ==
    /\ callback[c].pc = "wait"
    /\ connection = "open" /\ callback[c].epoch = epoch
    /\ granted' = granted \cup {callback[c].filter}
    /\ callback' = [callback EXCEPT ![c] = [@ EXCEPT !.pc = "answered"]]
    /\ UNCHANGED <<connection, epoch, stateVars, gate>>

-----------------------------------------------------------------------------
(* OnConnect                                                               *)

\* Seeded fault: the generation before the reset.
BeginOldGeneration(c) ==
    /\ callback[c].pc = "begin"
    /\ reset
    /\ callback' = [callback EXCEPT ![c] =
          [@ EXCEPT !.pc = "subscribe", !.generation = generation]]
    /\ UNCHANGED <<linkVars, gate>>
Begin(c) ==
    /\ callback[c].pc = "begin"
    /\ reset
    /\ callback' = [callback EXCEPT ![c] =
          [@ EXCEPT !.pc = "subscribe", !.generation = generation']]
    /\ UNCHANGED <<linkVars, gate>>

\* Sent on whatever connection is open by now.
Subscribe(c, f) ==
    /\ callback[c].pc = "subscribe"
    /\ f \in callback[c].left
    /\ connection = "open"
    /\ callback' = [callback EXCEPT ![c] =
          [@ EXCEPT !.pc = "wait", !.filter = f, !.epoch = epoch]]
    /\ UNCHANGED <<linkVars, stateVars, gate>>

\* QoS 1 was granted: on to the next filter.
Granted(c) ==
    /\ callback[c].pc = "answered"
    /\ callback' = [callback EXCEPT ![c] =
          [@ EXCEPT !.pc = "subscribe", !.left = callback[c].left \ {callback[c].filter},
                    !.filter = NoFilter, !.epoch = 0]]
    /\ UNCHANGED <<linkVars, stateVars, gate>>

\* Timeout, no connection, missing, refused or downgraded: fail, failAck.  The
\* worker's shutdown ends the loop without an error.
SubscribeFails(c) ==
    /\ \/ callback[c].pc = "wait"
       \/ callback[c].pc = "subscribe" /\ callback[c].left # {}
    /\ stop \/ (stopped = "yes" /\ UNCHANGED stateVars)
    /\ callback' = [callback EXCEPT ![c] = Done]
    /\ UNCHANGED <<linkVars, gate>>

Confirm(c) ==
    /\ callback[c].pc = "subscribe" /\ callback[c].left = {}
    /\ IF confirms(callback[c].generation)
       THEN subscribed' = "yes" /\ gate' = "open"
       ELSE UNCHANGED <<subscribed, gate>>
    /\ callback' = [callback EXCEPT ![c] = Done]
    /\ UNCHANGED <<linkVars, generation, stopped>>

OnConnect(c) ==
    \/ Begin(c)
    \/ \E f \in Filters : Subscribe(c, f)
    \/ Granted(c) \/ SubscribeFails(c) \/ Confirm(c)

-----------------------------------------------------------------------------
(* Run and CheckReady                                                      *)

\* The context is cancelled, or a message could not be persisted (failAck, fail).
\* A further stop would only advance the generation.
Stop ==
    /\ stopped = "no"
    /\ stop
    /\ UNCHANGED <<linkVars, callback, gate>>

\* After the drain.
Disconnect ==
    /\ stopped = "yes"
    /\ connection # "off"
    /\ connection' = "off"
    /\ UNCHANGED <<epoch, granted, stateVars, callback, gate>>

\* Seeded fault: the grants are looked at before the connection.
ReadsSwapped(i) == IF i = 1 THEN ready ELSE connection = "open"
\* The two conditions of CheckReady, in the order they are evaluated.
Reads(i) == IF i = 1 THEN connection = "open" ELSE ready

CheckOpen ==
    /\ probe # "half"
    /\ probe' = IF Reads(1) THEN "half" ELSE "unready"
    /\ witness' = IF Serving THEN "yes" ELSE "no"
    /\ UNCHANGED <<linkVars, stateVars, callback, gate>>

CheckSubscribed ==
    /\ probe = "half"
    /\ probe' = IF Reads(2) THEN "ready" ELSE "unready"
    /\ UNCHANGED <<linkVars, stateVars, callback, gate, witness>>

Step ==
    \/ Open \/ Lose \/ Reconnecting \/ Stop \/ Disconnect
    \/ \E c \in Connections : Suback(c) \/ OnConnect(c)

\* Every other step goes into the history of a probe under way.
Watched ==
    /\ Step
    /\ witness' = IF probe = "half" /\ Serving' THEN "yes" ELSE witness
    /\ UNCHANGED probe

Next == Watched \/ CheckOpen \/ CheckSubscribed

Spec == Init /\ [][Next]_vars

-----------------------------------------------------------------------------
(* Fairness                                                                *)

\* A goroutine that can go on does; the subscription timeout of five seconds
\* ends a wait if no SUBACK does.
CallbackFairness ==
    \A c \in Connections : WF_vars(Watched /\ (Suback(c) \/ OnConnect(c)))

-----------------------------------------------------------------------------
(* Properties                                                              *)

\* Type invariant: generations never pass the current one, and only a callback
\* whose connection was opened runs.
ReadinessTypeOK ==
    /\ connection \in {"dialing", "open", "lost", "off"}
    /\ epoch \in 0..MaxConnections
    /\ granted \subseteq Filters
    /\ generation \in Nat
    /\ subscribed \in {"no", "yes"} /\ stopped \in {"no", "yes"}
    /\ callback \in [Connections ->
          [pc : {"idle", "begin", "subscribe", "wait", "answered", "done"},
           generation : Nat, left : SUBSET Filters,
           filter : Filters \cup {NoFilter}, epoch : Nat]]
    /\ \A c \in Connections :
          /\ callback[c].generation <= generation
          /\ callback[c].pc # "idle" => c <= epoch
    /\ gate \in {"closed", "open"}
    /\ probe \in {"idle", "half", "ready", "unready"}
    /\ witness \in {"no", "yes"}

\* mqttReadiness: whichever callbacks of old connections run late, readiness
\* on an open connection means that this connection has every filter granted.
ReadyIsServing == ready /\ connection = "open" => granted = Filters

\* CheckReady reads the connection and the grants one after the other, and the
\* connection may be lost and replaced in between; if it answers ready, the
\* process was serving at some moment during the check.
ProbeIsHonest == probe = "ready" => witness = "yes"

\* Run starts the Kafka consumers only once all ACK filters are granted on the
\* latest connection, and never after a fatal error.
GateIsEarned ==
    [][gate' # gate => granted = Filters /\ stopped = "no"]_vars

\* A connection that stays up ends in readiness, or in a fatal error that ends
\* the process: late callbacks of older connections may invalidate the newest
\* generation but never leave the process waiting for good.
StableIsReady ==
    <>[](connection = "open") => <>[](ready \/ stopped = "yes")

=============================================================================
