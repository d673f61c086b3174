-------------------------- MODULE ManagementClients -------------------------
(***************************************************************************)
(* Two kinds of client of the management API: callers that repeat a        *)
(* command request with its idempotency key until they get an answer, and  *)
(* the demo process (internal/demo), which creates tenants and devices,    *)
(* opens an MQTT client per tenant and then plays their devices.           *)
(*                                                                         *)
(* The demo's topology loop, the callbacks of its MQTT clients and the     *)
(* main function that closes the factory are different goroutines.         *)
(* Everything that can fail does so until the outage ends.                 *)
(***************************************************************************)
EXTENDS ManagementApi, Sequences

CONSTANTS
    Callers,
    Asked,            \* bound: the requests each caller makes
    Demo,             \* the demo process as a client
    TenantOrder,      \* its tenants, in the order they are created
    DeviceOrder,      \* the devices of each
    Buses             \* bound: MQTT clients at a time, 1..n

ASSUME ClientsAssumption ==
    /\ Clients = Callers \cup {Demo} /\ Demo \notin Callers
    /\ TenantOrder \in Seq(Tenants) /\ TenantOrder # <<>>
    /\ \A i, j \in DOMAIN TenantOrder : TenantOrder[i] = TenantOrder[j] => i = j
    /\ DeviceOrder \in Seq(DeviceNames)
    /\ \A c \in Callers : Asked[c] \subseteq CommandRequests
    /\ Buses \subseteq Nat

VARIABLES
    want,             \* per caller: the request it is after
    outage,           \* whether anything may still fail
    process,          \* the demo: "up", "ending", "closed" or "down"
    step,             \* where its Run is
    at,               \* the request, tenant or device in hand
    building,         \* MQTT clients of the attempt under way
    agents,           \* the installed ones, {} before Install
    bus,              \* state of each MQTT client
    factory           \* mqttBusFactory: "open", "busy" (mu held) or "closed"

demoVars == <<process, step, at, building, agents, bus, factory>>
vars == <<apiVars, want, outage, demoVars>>

Off == [tenant |-> None, link |-> "off", handler |-> FALSE, granted |-> FALSE, onConnect |-> FALSE]

DemoStart ==
    /\ step = "create" /\ at = 1 /\ building = {} /\ agents = {}
    /\ bus = [b \in Buses |-> Off] /\ factory = "open"

ClientsInit(T, D) ==
    /\ ApiInit(T, D)
    /\ want = [c \in Callers |-> None]
    /\ outage = TRUE
    /\ process = "up"
    /\ DemoStart

-----------------------------------------------------------------------------
(* Callers                                                                 *)

CallerUnchanged == UNCHANGED <<outage, demoVars>>

Ask(c, r) ==
    /\ want[c] = None
    /\ createCommandHandler(c, r)
    /\ want' = [want EXCEPT ![c] = r]
    /\ CallerUnchanged

\* An answer that leaves open what happened.
Unclear(reply) == reply.status \in {500, 502, 503, 504}

Retry(c) ==
    /\ want[c] # None /\ want[c].key # None
    /\ Unclear(heard[c])
    /\ createCommandHandler(c, want[c])
    /\ UNCHANGED want
    /\ CallerUnchanged

-----------------------------------------------------------------------------
(* EnsureTopology: tenants and devices                                     *)

PerTenant == 1 + Len(DeviceOrder)

Plan == [i \in 1..(Len(TenantOrder) * PerTenant) |->
    LET t == TenantOrder[((i - 1) \div PerTenant) + 1]
        j == (i - 1) % PerTenant
    IN [op |-> IF j = 0 THEN "tenant" ELSE "device", tenant |-> t,
        device |-> IF j = 0 THEN None ELSE DeviceOrder[j],
        key |-> None, payload |-> None, check |-> "ok"]]

CreateNext ==
    /\ step = "create"
    /\ Send(Demo, Plan[at])
    /\ step' = "await"
    /\ UNCHANGED <<want, outage, process, at, building, agents, bus, factory>>

\* closeAgents.  A client that was disconnected never comes back.
Discard ==
    /\ bus' = [b \in Buses |-> IF b \in building THEN Off ELSE bus[b]]
    /\ building' = {}

\* Seeded fault: what is already there is an error.
postJSONStrict(reply) == reply.status = 201

\* postJSON: 409 is as good as 201.
postJSON(reply) == reply.status \in {201, 409}

Created ==
    /\ step = "await"
    /\ heard[Demo] # Waiting
    /\ heard' = [heard EXCEPT ![Demo] = Silent]
    /\ IF ~postJSON(heard[Demo]) THEN step' = "backoff" /\ UNCHANGED at
       ELSE IF at < Len(Plan) THEN step' = "create" /\ at' = at + 1
       ELSE step' = "connect" /\ at' = 1
    /\ UNCHANGED <<tenants, devices, commands, call, want, outage, process, building, agents, bus, factory>>

-----------------------------------------------------------------------------
(* EnsureTopology: one MQTT client per tenant                              *)

BusUnchanged == UNCHANGED <<apiVars, want, outage, process, agents>>

\* NewClient takes factory.mu and connects; after Close it refuses.
NewClient ==
    /\ step = "connect"
    /\ \/ factory = "open" /\ factory' = "busy" /\ step' = "dial" /\ UNCHANGED <<bus, building>>
       \/ factory = "closed" /\ Discard /\ step' = "backoff" /\ UNCHANGED factory
    /\ UNCHANGED at
    /\ BusUnchanged

Connected ==
    /\ step = "dial"
    /\ \E b \in {b \in Buses : bus[b] = Off /\ \A o \in Buses : bus[o] = Off => b <= o} :
          /\ bus' = [bus EXCEPT ![b] = [Off EXCEPT !.tenant = TenantOrder[at], !.link = "up",
                                                   !.onConnect = TRUE]]
          /\ building' = building \cup {b}
    /\ factory' = "open" /\ step' = "subscribe"
    /\ UNCHANGED at
    /\ BusUnchanged

ConnectFails ==
    /\ outage /\ step = "dial"
    /\ factory' = "open" /\ Discard /\ step' = "backoff"
    /\ UNCHANGED at
    /\ BusUnchanged

Current == {b \in building : bus[b].tenant = TenantOrder[at]}

\* Subscribe: the handler is kept for later connections, then SUBSCRIBE is sent.
Subscribe ==
    /\ step = "subscribe"
    /\ \E b \in Current :
          /\ bus' = [bus EXCEPT ![b].handler = TRUE]
          /\ step' = IF bus[b].link = "up" THEN "suback" ELSE "lost"
    /\ UNCHANGED <<at, building, factory>>
    /\ BusUnchanged

\* The SUBACK; the last one installs tenants and agents.
Subscribed ==
    /\ step = "suback"
    /\ \E b \in Current :
          /\ bus[b].link = "up"
          /\ bus' = [bus EXCEPT ![b].granted = TRUE]
    /\ IF at < Len(TenantOrder)
       THEN step' = "connect" /\ at' = at + 1 /\ UNCHANGED <<building, agents>>
       ELSE step' = "run" /\ agents' = building /\ building' = {} /\ UNCHANGED at
    /\ UNCHANGED <<apiVars, want, outage, process, factory>>

SubscribeFails ==
    /\ step = "lost"
    /\ Discard /\ step' = "backoff"
    /\ UNCHANGED <<at, factory>>
    /\ BusUnchanged

\* waitForTopology tries again from the start, or sees the cancelled context.
Backoff ==
    /\ step = "backoff"
    /\ \/ step' = "create" /\ at' = 1
       \/ process # "up" /\ step' = "stopped" /\ UNCHANGED at
    /\ UNCHANGED <<building, bus, factory>>
    /\ BusUnchanged

-----------------------------------------------------------------------------
(* runBurst                                                                *)

Devices == {i \in DOMAIN Plan : Plan[i].op = "device"}
AgentOf(i) == {b \in agents : bus[b].tenant = Plan[i].tenant}

\* A device's agent publishes and waits for the PUBACK.
EmitTelemetry(i) ==
    /\ step = "run" /\ AgentOf(i) # {}
    /\ step' = "publish" /\ at' = i
    /\ UNCHANGED <<building, bus, factory>>
    /\ BusUnchanged

\* A message under way survives a reconnection; after Disconnect the publish fails.
Published ==
    /\ step = "publish"
    /\ \E b \in AgentOf(at) : bus[b].link # "down"
    /\ step' = "run" /\ at' = 1
    /\ UNCHANGED <<building, bus, factory>>
    /\ BusUnchanged

\* Bound: while no other command exists or is being created.
EmitCommand(i) ==
    /\ step = "run" /\ Fresh = Ids
    /\ \A k \in Calls : call[k] = Free
    /\ createCommandHandler(Demo,
          [Plan[i] EXCEPT !.op = "command", !.payload = CHOOSE p \in Payloads : TRUE])
    /\ step' = "commanded"
    /\ UNCHANGED <<want, outage, process, at, building, agents, bus, factory>>

\* Whatever the answer, the burst goes on.
Commanded ==
    /\ step = "commanded" /\ heard[Demo] # Waiting
    /\ heard' = [heard EXCEPT ![Demo] = Silent]
    /\ step' = "run"
    /\ UNCHANGED <<tenants, devices, commands, call, want, outage, process, at, building, agents, bus, factory>>

\* Run sees the cancelled context between two bursts.
RunEnds ==
    /\ step = "run" /\ process # "up"
    /\ step' = "stopped"
    /\ UNCHANGED <<at, building, bus, factory>>
    /\ BusUnchanged

-----------------------------------------------------------------------------
(* The MQTT clients                                                        *)

LinkUnchanged == UNCHANGED <<apiVars, want, outage, process, at, building, agents, factory>>

\* A pending SUBSCRIBE ends with an error; grants go with the session.
LinkLost(b) ==
    /\ outage /\ bus[b].link = "up"
    /\ bus' = [bus EXCEPT ![b].link = "down", ![b].granted = FALSE]
    /\ step' = IF step = "suback" /\ b \in Current THEN "lost" ELSE step
    /\ LinkUnchanged

Reconnected(b) ==
    /\ bus[b].link = "down"
    /\ bus' = [bus EXCEPT ![b].link = "up", ![b].onConnect = TRUE]
    /\ UNCHANGED step
    /\ LinkUnchanged

\* Subscribes every kept handler, on whatever connection is open.
OnConnect(b) ==
    /\ bus[b].onConnect
    /\ bus' = [bus EXCEPT ![b].onConnect = FALSE,
                          ![b].granted = @ \/ (bus[b].handler /\ bus[b].link = "up")]
    /\ UNCHANGED step
    /\ LinkUnchanged

-----------------------------------------------------------------------------
(* The process                                                             *)

ProcessUnchanged == UNCHANGED <<tenants, devices, commands, want, outage>>

\* SIGTERM, or the health server fails: the context is cancelled.
Signal ==
    /\ process = "up"
    /\ process' = "ending"
    /\ UNCHANGED <<call, heard, step, at, building, agents, bus, factory>>
    /\ ProcessUnchanged

CloseBuses ==
    /\ bus' = [b \in Buses |-> IF bus[b].link = "off" THEN bus[b]
                               ELSE [bus[b] EXCEPT !.link = "off", !.granted = FALSE,
                                                   !.onConnect = FALSE]]
    /\ step' = IF step = "suback" THEN "lost" ELSE step
    /\ factory' = "closed" /\ process' = "closed"

\* Seeded fault: Close does not take the mutex.
CloseWithoutLock ==
    /\ process = "ending"
    /\ CloseBuses
    /\ UNCHANGED <<call, heard, at, building, agents>>
    /\ ProcessUnchanged

\* The deferred factory.Close waits for factory.mu; Run is not waited for.
Close ==
    /\ process = "ending" /\ factory = "open"
    /\ CloseBuses
    /\ UNCHANGED <<call, heard, at, building, agents>>
    /\ ProcessUnchanged

\* The end of main, or a crash: connections and waiting requests are cut.
Exit ==
    /\ process = "closed" \/ (outage /\ process # "down")
    /\ process' = "down"
    /\ bus' = [b \in Buses |-> Off]
    /\ call' = [k \in Calls |-> IF call[k].client = Demo THEN [call[k] EXCEPT !.client = None]
                                                         ELSE call[k]]
    /\ heard' = [heard EXCEPT ![Demo] = Silent]
    /\ step' = "stopped" /\ at' = 1 /\ building' = {} /\ agents' = {} /\ factory' = "open"
    /\ ProcessUnchanged

Start ==
    /\ process = "down"
    /\ process' = "up" /\ step' = "create"
    /\ UNCHANGED <<call, heard, at, building, agents, bus, factory>>
    /\ ProcessUnchanged

-----------------------------------------------------------------------------

CallerNext(c) == Retry(c) \/ \E r \in Asked[c] : Ask(c, r)

DemoRun ==
    \/ CreateNext \/ Created \/ NewClient \/ Connected \/ ConnectFails
    \/ Subscribe \/ Subscribed \/ SubscribeFails \/ Backoff \/ Published \/ Commanded \/ RunEnds

DemoNext ==
    \/ DemoRun \/ Signal \/ Close \/ Exit \/ Start
    \/ \E i \in Devices : EmitTelemetry(i) \/ EmitCommand(i)
    \/ \E b \in Buses : LinkLost(b) \/ Reconnected(b) \/ OnConnect(b)

Serve == (\E k \in Calls : Progress(k)) /\ UNCHANGED <<want, outage, demoVars>>

\* A cancelled context ends the demo's requests too.
RequestLost ==
    /\ \/ outage /\ \E k \in Calls : Fail(k)
       \/ \E c \in Clients : (outage \/ (c = Demo /\ process # "up")) /\ GiveUp(c)
    /\ UNCHANGED <<want, outage, demoVars>>

OutageEnds ==
    /\ outage /\ outage' = FALSE
    /\ UNCHANGED <<apiVars, want, demoVars>>

\* The clients in C run; the others only keep their place.
RunningNext(C) ==
    \/ OutageEnds \/ Serve \/ RequestLost
    \/ Demo \in C /\ DemoNext
    \/ \E c \in C \cap Callers : CallerNext(c)

\* Without fairness, from tables that may already have rows.
ClientsSpec(T, D, C) == ClientsInit(T, D) /\ [][RunningNext(C)]_vars

\* An outage ends, and then some server, some caller, Run and some callback of
\* the MQTT clients go on whenever they can.
ClientsFairness ==
    /\ WF_vars(OutageEnds)
    /\ WF_vars(Serve)
    /\ WF_vars(\E c \in Callers : Retry(c))
    /\ WF_vars(DemoRun)
    /\ WF_vars(\E b \in Buses : Reconnected(b) \/ OnConnect(b))

-----------------------------------------------------------------------------
(* Properties                                                              *)

\* Type invariant of the clients: the factory's mutex is only held while a
\* connection is being made, and what is disconnected listens to nothing.
ClientsTypeOK ==
    /\ want \in [Callers -> CommandRequests \cup {None}]
    /\ outage \in BOOLEAN
    /\ process \in {"up", "ending", "closed", "down"}
    /\ step \in {"create", "await", "connect", "dial", "subscribe", "suback", "lost",
                 "backoff", "run", "publish", "commanded", "stopped"}
    /\ at \in 1..Len(Plan)
    /\ building \subseteq Buses /\ agents \subseteq Buses /\ building \cap agents = {}
    /\ bus \in [Buses -> [tenant : Tenants \cup {None}, link : {"off", "up", "down"},
                          handler : BOOLEAN, granted : BOOLEAN, onConnect : BOOLEAN]]
    /\ \A b \in Buses : bus[b].granted => bus[b].link = "up" /\ bus[b].handler
    /\ factory \in {"open", "busy", "closed"}
    /\ factory = "busy" => step = "dial"

\* createCommandHandler and CreateCommandWithKey: a caller that is answered 201
\* finds exactly its command under the id it was given, and one answered 409
\* used a key that another command of the tenant has.
AnswerIsTrue ==
    \A c \in Callers :
        /\ heard[c].status = 201 => commands[heard[c].id] = want[c]
        /\ heard[c].status = 409 =>
              \E i \in StoredAs(want[c]) : ~Matches(commands[i], want[c])

\* EnsureTopology, closeAgents, mqttBus.OnConnect and mqttBusFactory.Close:
\* however often the topology is built, interrupted and torn down, a tenant
\* never has two MQTT clients that may be connected; once agents are installed
\* every row of the plan exists and every tenant has its agent, so telemetry is
\* only sent for devices that exist; an agent on an open connection is
\* subscribed as soon as no callback is pending, even when the connection was
\* replaced meanwhile; and after Close no client is connected, although the
\* topology loop may still be running.
AgentsAreSound ==
    /\ ApiTypeOK /\ ClientsTypeOK
    /\ \A b \in Buses : bus[b].link # "off" =>
          /\ process # "closed"
          /\ b \in building \cup agents
          /\ \A o \in Buses \ {b} : bus[o].link # "off" => bus[o].tenant # bus[b].tenant
    /\ agents # {} \/ step \in {"run", "publish", "commanded"} =>
          \A i \in DOMAIN Plan :
              /\ Taken(Plan[i])
              /\ \E b \in agents : bus[b].tenant = Plan[i].tenant /\ bus[b].handler
    /\ \A b \in agents : bus[b].link = "up" /\ ~bus[b].onConnect => bus[b].granted

\* A caller that repeats a keyed request is answered for good in the end.
RetryEnds ==
    \A c \in Callers :
        (want[c] # None /\ want[c].key # None) ~> heard[c].status \in {201, 400, 404, 409}

\* Run, waitForTopology: a demo process that stays up ends with an agent for
\* every tenant, all of them subscribed, whatever failed before.
DemoSettles ==
    <>[](process = "up") => <>[](agents # {} /\ \A b \in agents : bus[b].granted)

=============================================================================
