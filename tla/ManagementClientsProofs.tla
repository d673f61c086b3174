----------------------- MODULE ManagementClientsProofs ----------------------
(***************************************************************************)
(* Proofs about the clients of the management API, for any callers, any    *)
(* plan of the demo and any number of MQTT clients.                        *)
(*                                                                         *)
(* The first part carries what the API does to what callers are told, the  *)
(* second to the demo process and its MQTT clients.                        *)
(***************************************************************************)
EXTENDS ManagementClients, ManagementApiProofs

-----------------------------------------------------------------------------
(* Steps of the demo process on the API                                    *)

LEMMA SendIsAccept ==
    ASSUME NEW c, NEW r, Send(c, r) \/ createCommandHandler(c, r)
    PROVE  r \in Requests /\ Accept(c, r)
BY DEF Send, createTenantHandler, createDeviceHandler, createCommandHandler, Requests

\* The steps of the demo that send a request, read an answer or end it.
DemoAtApi ==
    CreateNext \/ Created \/ Commanded \/ Exit \/ \E i \in Devices : EmitCommand(i)

\* All other ones.
DemoElsewhere ==
    \/ NewClient \/ Connected \/ ConnectFails \/ Subscribe \/ Subscribed \/ SubscribeFails
    \/ Backoff \/ Published \/ RunEnds \/ Signal \/ Close \/ Start
    \/ \E i \in Devices : EmitTelemetry(i)
    \/ \E b \in Buses : LinkLost(b) \/ Reconnected(b) \/ OnConnect(b)

-----------------------------------------------------------------------------
(* Callers                                                                 *)

\* A caller's request is the one it is after, and what it was told is so.
CallerInv(c) ==
    /\ \A k \in Calls : call[k].client = c => call[k].request = want[c]
    /\ heard[c] # Silent => want[c] \in CommandRequests /\ Told(heard[c], want[c])

CallersInv ==
    /\ want \in [Callers -> CommandRequests \cup {None}]
    /\ \A c \in Callers : CallerInv(c)

LEMMA CallersStep ==
    ASSUME ApiInv, CallersInv, NEW C, [RunningNext(C)]_vars
    PROVE  ApiInv' /\ CallersInv' /\ Grows
<1>DemoView.
      ASSUME ApiInv, DemoNext
      PROVE  ApiInv' /\ Grows /\ want' = want /\ \A c \in Callers : Kept(c)
  <2> USE <1>DemoView
  <2>DemoKinds.
        DemoNext => DemoAtApi \/ DemoElsewhere
    BY Zenon DEF DemoNext, DemoRun, DemoAtApi, DemoElsewhere
  <2>ElsewhereFrame.
        DemoElsewhere => UNCHANGED <<apiVars, want, outage>>
    BY Zenon DEF DemoElsewhere, NewClient, Connected, ConnectFails, Subscribe, Subscribed, SubscribeFails,
       Backoff, Published, RunEnds, Signal, Close, Start, EmitTelemetry, LinkLost, Reconnected,
       OnConnect, BusUnchanged, LinkUnchanged, ProcessUnchanged, apiVars
  <2>0. Demo \in Clients /\ Callers = Clients \ {Demo}
    BY ClientsAssumption
  <2>1. CASE DemoElsewhere
    <3>1. UNCHANGED apiVars /\ want' = want
      BY <2>1, <2>ElsewhereFrame
    <3> QED  BY <2>0, <3>1, SameView
  <2>2. CASE CreateNext
    <3>1. Send(Demo, Plan[at]) /\ want' = want
      BY <2>2 DEF CreateNext
    <3>2. Plan[at] \in Requests /\ Accept(Demo, Plan[at])
      BY <3>1, SendIsAccept
    <3> QED  BY <2>0, <3>1, <3>2, AcceptView
  <2>3. CASE Created \/ Commanded
    <3>1. /\ heard[Demo] # Waiting /\ call' = call /\ UNCHANGED Tables /\ want' = want
          /\ heard' = [heard EXCEPT ![Demo] = Silent]
      BY <2>3 DEF Created, Commanded, Tables
    <3> QED  BY <2>0, <3>1, ReadView, Zenon
  <2>4. CASE Exit
    <3>1. /\ heard' = [heard EXCEPT ![Demo] = Silent] /\ UNCHANGED Tables /\ want' = want
          /\ call' = [k \in Calls |-> IF call[k].client = Demo THEN [call[k] EXCEPT !.client = None]
                                                               ELSE call[k]]
      BY <2>4 DEF Exit, ProcessUnchanged, Tables
    <3> QED  BY <2>0, <3>1, CutView, Zenon
  <2>5. CASE \E i \in Devices : EmitCommand(i)
    <3>1. PICK i \in Devices : EmitCommand(i)
      BY <2>5
    <3> DEFINE q == [Plan[i] EXCEPT !.op = "command", !.payload = CHOOSE p \in Payloads : TRUE]
    <3>2. createCommandHandler(Demo, q) /\ want' = want
      BY <3>1 DEF EmitCommand
    <3> HIDE DEF q
    <3>3. q \in Requests /\ Accept(Demo, q)
      BY <3>2, SendIsAccept
    <3> QED  BY <2>0, <3>2, <3>3, AcceptView
  <2> QED
    BY <2>1, <2>2, <2>3, <2>4, <2>5, <2>DemoKinds DEF DemoAtApi
  \* A step of somebody else that the caller sees nothing of, or its answer.
<1>CallerWaits.
      ASSUME ApiInv, Grows, NEW c \in Callers, CallerInv(c), want'[c] = want[c],
             Kept(c) \/ Answered(c)
      PROVE  CallerInv(c)'
  <2> USE <1>CallerWaits
  <2>1. c \in Clients /\ Silent' = Silent
    BY ClientsAssumption DEF Silent, Reply
  <2>2. PICK w : w = want[c]
    OBVIOUS
  <2>3. CASE Kept(c)
    <3>1. PICK h : h = heard[c]
      OBVIOUS
    <3>2. h # Silent => w \in CommandRequests /\ Told(h, w)
      BY <2>2, <3>1 DEF CallerInv
    <3>3. h # Silent => Told(h, w)'
      BY <3>2, ToldGrows, CommandFacts
    <3>4. h = heard'[c] /\ w = want'[c]
      BY <2>2, <2>3, <3>1 DEF Kept
    <3>5. heard'[c] # Silent => want'[c] \in CommandRequests /\ Told(heard[c], want[c])'
      BY <3>2, <3>3, <3>4
    <3>6. \A k \in Calls : call'[k].client = c => call'[k].request = want'[c]
      BY <2>3 DEF Kept, CallerInv
    <3> QED  BY <2>1, <3>5, <3>6 DEF CallerInv
  <2>4. CASE Answered(c)
    <3>1. PICK k \in Calls, r \in Requests, h \in Replies :
            /\ call[k].client = c /\ call[k].request = r /\ heard'[c] = h /\ Told(h, r)'
      BY <2>4 DEF Answered
    <3>2. r = w
      BY <2>2, <3>1, Zenon DEF CallerInv
    <3>3. heard[c] = Waiting
      BY <2>1, <3>1 DEF ApiInv, ApiTypeOK
    <3>4. w \in CommandRequests
      BY <2>2, <3>3, ReplyFacts, ZenonT(30) DEF CallerInv
    <3>5. h = heard'[c] /\ w = want'[c]
      BY <2>2, <3>1
    <3>6. want'[c] \in CommandRequests /\ Told(heard[c], want[c])'
      BY <3>1, <3>2, <3>4, <3>5
    <3>7. \A j \in Calls : call'[j].client # c
      BY <2>4 DEF Answered
    <3> QED  BY <3>6, <3>7 DEF CallerInv
  <2> QED
    BY <2>3, <2>4
  \* A caller asks, or asks again.
<1>CallerAsks.
      ASSUME NEW c \in Callers, NEW r \in CommandRequests, AskedFor(c, r), want'[c] = r
      PROVE  CallerInv(c)'
  <2> USE <1>CallerAsks
  <2>1. PICK h : h = heard'[c]
    OBVIOUS
  <2>2. h.status = 1
    BY <2>1, ReplyFacts DEF AskedFor
  <2>3. Told(h, r)'
    BY <2>2 DEF Told
  <2>4. Told(heard[c], want[c])'
    BY <2>1, <2>3
  <2> QED
    BY <2>4 DEF CallerInv, AskedFor
<1>0. Callers \subseteq Clients
  BY ClientsAssumption
<1>1. ASSUME ApiInv', Grows, want' = want, \A c \in Callers : Kept(c) \/ Answered(c)
      PROVE  ApiInv' /\ CallersInv' /\ Grows
  <2>1. \A c \in Callers : CallerInv(c)'
    BY <1>1, <1>CallerWaits DEF CallersInv
  <2> QED  BY <1>1, <2>1 DEF CallersInv
<1>2. CASE UNCHANGED vars \/ OutageEnds
  <2>1. UNCHANGED apiVars /\ want' = want
    BY <1>2 DEF vars, OutageEnds
  <2> QED  BY <1>0, <1>1, <2>1, SameView
<1>3. CASE Serve \/ (outage /\ (\E k \in Calls : Fail(k)) /\ UNCHANGED <<want, outage, demoVars>>)
  <2>1. PICK k \in Calls : Progress(k) \/ Fail(k)
    BY <1>3 DEF Serve
  <2>2. want' = want
    BY <1>3 DEF Serve
  <2>3. ApiInv' /\ Grows
    BY <2>1, ServerSteps DEF ServeStep
  <2>4. \A c \in Callers : Kept(c) \/ Answered(c)
    BY <1>0, <2>1, ServeView
  <2> QED  BY <1>1, <2>2, <2>3, <2>4
<1>4. CASE (\E d \in Clients : GiveUp(d)) /\ UNCHANGED <<want, outage, demoVars>>
  <2>1. PICK d \in Clients : GiveUp(d)
    BY <1>4
  <2>2. ApiInv' /\ Grows /\ \A c \in Callers : Kept(c) \/ Answered(c)
    BY <1>0, <2>1, GiveUpView
  <2> QED  BY <1>1, <1>4, <2>2
<1>5. CASE DemoNext
  BY <1>1, <1>5, <1>DemoView
<1>6. CASE \E c \in C \cap Callers : CallerNext(c)
  <2>1. PICK c \in Callers : CallerNext(c)
    BY <1>6
  <2>2. PICK r \in CommandRequests :
          /\ Accept(c, r) /\ want' \in [Callers -> CommandRequests \cup {None}]
          /\ want'[c] = r /\ \A d \in Callers \ {c} : want'[d] = want[d]
    <3>1. CASE Retry(c)
      <4>1. want[c] # None /\ createCommandHandler(c, want[c]) /\ want' = want
        BY <3>1 DEF Retry
      <4> QED  BY <4>1 DEF createCommandHandler, CallersInv
    <3>2. CASE \E r \in Asked[c] : Ask(c, r)
      <4>1. PICK r \in Asked[c] : Ask(c, r)
        BY <3>2
      <4>2. r \in CommandRequests /\ Accept(c, r) /\ want' = [want EXCEPT ![c] = r]
        BY <4>1 DEF Ask, createCommandHandler
      <4> QED  BY <4>2 DEF CallersInv
    <3> QED  BY <2>1, <3>1, <3>2 DEF CallerNext
  <2>3. /\ ApiInv' /\ Grows /\ AskedFor(c, r)
        /\ \A d \in Clients \ {c} : Kept(d)
    BY <1>0, <2>2, AcceptView, CommandFacts
  <2>4. CallerInv(c)'
    BY <2>2, <2>3, <1>CallerAsks
  <2>5. ASSUME NEW d \in Callers \ {c}
        PROVE  CallerInv(d)'
    <3>1. Kept(d) /\ CallerInv(d) /\ want'[d] = want[d]
      BY <1>0, <2>2, <2>3 DEF CallersInv
    <3> QED  BY <2>3, <3>1, <1>CallerWaits
  <2> QED  BY <2>2, <2>3, <2>4, <2>5 DEF CallersInv
<1> QED
  BY <1>2, <1>3, <1>4, <1>5, <1>6 DEF RunningNext, RequestLost

LEMMA ClientsStart ==
    ASSUME NEW T \in SUBSET Tenants, NEW D \in SUBSET (T \X DeviceNames), ClientsInit(T, D)
    PROVE  ApiInv /\ CallersInv
<1>0. None \notin Clients /\ Callers \subseteq Clients
  BY ApiAssumption, ClientsAssumption
<1>1. /\ tenants = T /\ devices = D /\ commands = [i \in Ids |-> None]
      /\ call = [k \in Calls |-> Free] /\ heard = [c \in Clients |-> Silent]
      /\ want = [c \in Callers |-> None]
  BY DEF ClientsInit, ApiInit
<1>2. /\ \A k \in Calls : call[k].client = None /\ call[k].pc = "free"
      /\ \A i \in Ids : commands[i] = None
      /\ \A c \in Clients : heard[c] = Silent
  BY <1>1, FreeFacts
<1>3. TableTypes
  BY <1>1 DEF TableTypes
<1>4. ServeTypes
  BY <1>0, <1>1, <1>2, ReplyFacts DEF ServeTypes
<1>5. OneCommandPerKey
  BY <1>2 DEF OneCommandPerKey
<1>6. \A k \in Calls : CallInv(k)
  BY <1>2 DEF CallInv
<1>7. CallersInv
  BY <1>0, <1>1, <1>2 DEF CallersInv, CallerInv
<1> QED
  BY <1>3, <1>4, <1>5, <1>6, <1>7, TypeParts DEF ApiInv

LEMMA CallersAlways ==
    ASSUME NEW T \in SUBSET Tenants, NEW D \in SUBSET (T \X DeviceNames),
           NEW C \in SUBSET Clients
    PROVE  ClientsSpec(T, D, C) => [](ApiInv /\ CallersInv)
<1>1. ClientsInit(T, D) => ApiInv /\ CallersInv
  BY ClientsStart
<1>2. (ApiInv /\ CallersInv) /\ [RunningNext(C)]_vars => (ApiInv /\ CallersInv)'
  BY CallersStep
<1> QED
  BY <1>1, <1>2, PTL DEF ClientsSpec

\* CreateCommandWithKey: whoever calls, whatever fails and is repeated, from any
\* tenants and devices, a tenant has at most one command for an idempotency
\* key, and no transaction about to commit holds one that is taken.
THEOREM KeySafe ==
    ASSUME NEW T \in SUBSET Tenants, NEW D \in SUBSET (T \X DeviceNames),
           NEW C \in SUBSET Clients
    PROVE  ClientsSpec(T, D, C) => []OneCommandPerKey
<1>1. ApiInv => OneCommandPerKey
  BY DEF ApiInv
<1> QED
  BY <1>1, CallersAlways, PTL

\* createCommandHandler, CreateCommandWithKey: a caller answered 201 finds its
\* own command under the id it was given, and one answered 409 used a key that
\* another command of the tenant has.
THEOREM AnswerSafe ==
    ASSUME NEW T \in SUBSET Tenants, NEW D \in SUBSET (T \X DeviceNames),
           NEW C \in SUBSET Clients
    PROVE  ClientsSpec(T, D, C) => []AnswerIsTrue
<1>1. ApiInv /\ CallersInv => AnswerIsTrue
  <2>1. SUFFICES ASSUME CallersInv, NEW c \in Callers
                 PROVE  /\ heard[c].status = 201 => commands[heard[c].id] = want[c]
                        /\ heard[c].status = 409 =>
                              \E i \in StoredAs(want[c]) : ~Matches(commands[i], want[c])
    BY DEF AnswerIsTrue
  <2>2. heard[c] # Silent => want[c].op = "command" /\ Told(heard[c], want[c])
    BY <2>1, CommandFacts DEF CallersInv, CallerInv
  <2> QED  BY <2>2, ReplyFacts DEF Told
<1> QED
  BY <1>1, CallersAlways, PTL

-----------------------------------------------------------------------------
(* The plan of the demo                                                    *)

LEMMA PlanFacts ==
    /\ Len(TenantOrder) \in Nat \ {0} /\ Len(Plan) \in Nat \ {0}
    /\ Len(TenantOrder) <= Len(Plan) /\ DOMAIN Plan = 1..Len(Plan)
    /\ \A j \in 1..Len(TenantOrder) : TenantOrder[j] \in Tenants
    /\ \A i, j \in 1..Len(TenantOrder) : TenantOrder[i] = TenantOrder[j] => i = j
    /\ \A i \in DOMAIN Plan :
          /\ Plan[i] \in Requests /\ Plan[i].op # "command"
          /\ \E j \in 1..Len(TenantOrder) : Plan[i].tenant = TenantOrder[j]
<1>Division.
      ASSUME NEW L \in Nat, NEW P \in Nat \ {0}, NEW i \in 1..(L * P)
      PROVE  ((i - 1) \div P) + 1 \in 1..L /\ (i - 1) % P \in 0..(P - 1)
  <2>1. PICK q \in Nat : q = (i - 1) \div P
    OBVIOUS
  <2>2. /\ (i - 1) % P \in 0..(P - 1)
        /\ i - 1 = P * q + ((i - 1) % P)
    BY <2>1
  <2>3. P * q <= i - 1 /\ i - 1 < L * P /\ P * q \in Nat /\ L * P \in Nat
    BY <2>2
  <2>4. q < L
    <3>1. SUFFICES ASSUME L <= q PROVE FALSE
      BY <2>1
    <3>2. L * P <= P * q
      BY <3>1
    <3> QED  BY <2>3, <3>2
  <2> QED
    BY <2>1, <2>2, <2>4
<1> DEFINE L == Len(TenantOrder)
           P == PerTenant
           Tenant(i) == TenantOrder[((i - 1) \div P) + 1]
           Of(i) == (i - 1) % P
           Entry(i) == [op |-> IF Of(i) = 0 THEN "tenant" ELSE "device", tenant |-> Tenant(i),
                        device |-> IF Of(i) = 0 THEN None ELSE DeviceOrder[Of(i)],
                        key |-> None, payload |-> None, check |-> "ok"]
<1>1. Plan = [i \in 1..(L * P) |-> Entry(i)]
  BY DEF Plan
<1>2. /\ L \in Nat \ {0} /\ \A j \in 1..L : TenantOrder[j] \in Tenants
      /\ \A i, j \in 1..L : TenantOrder[i] = TenantOrder[j] => i = j
  BY ClientsAssumption
<1>3. P \in Nat \ {0} /\ \A j \in 1..(P - 1) : DeviceOrder[j] \in DeviceNames
  BY ClientsAssumption DEF PerTenant
<1>4. PICK n \in Nat \ {0} : n = L * P /\ L <= n
  <2>1. L * P \in Nat /\ L <= L * P /\ L * P # 0
    BY <1>2, <1>3
  <2> QED  BY <2>1
<1>5. ASSUME NEW i \in 1..n
      PROVE  /\ Entry(i) \in Requests /\ Entry(i).op # "command"
             /\ \E j \in 1..L : Entry(i).tenant = TenantOrder[j]
  <2>1. PICK j \in 1..L : j = ((i - 1) \div P) + 1
    BY <1>2, <1>3, <1>4, <1>Division, Zenon
  <2>2. PICK m \in 0..(P - 1) : m = (i - 1) % P
    BY <1>2, <1>3, <1>4, <1>Division, Zenon
  <2>3. Entry(i) = [op |-> IF m = 0 THEN "tenant" ELSE "device", tenant |-> TenantOrder[j],
                    device |-> IF m = 0 THEN None ELSE DeviceOrder[m],
                    key |-> None, payload |-> None, check |-> "ok"]
    BY <2>1, <2>2
  <2>4. TenantOrder[j] \in Tenants /\ (m # 0 => DeviceOrder[m] \in DeviceNames)
    BY <1>2, <1>3
  <2> HIDE DEF Entry, L, P
  <2>5. Entry(i).tenant = TenantOrder[j] /\ Entry(i).op # "command"
    BY <2>3
  <2>6. CASE m = 0
    BY <2>3, <2>4, <2>6 DEF Requests, TenantRequests
  <2>7. CASE m # 0
    BY <2>3, <2>4, <2>7 DEF Requests, DeviceRequests
  <2> QED  BY <2>5, <2>6, <2>7
<1> HIDE DEF Entry, L, P
<1>6. Plan = [i \in 1..n |-> Entry(i)]
  BY <1>1, <1>4
<1>7. DOMAIN Plan = 1..n /\ Len(Plan) = n /\ \A i \in 1..n : Plan[i] = Entry(i)
  BY <1>4, <1>6
<1>8. ASSUME NEW i \in DOMAIN Plan
      PROVE  /\ Plan[i] \in Requests /\ Plan[i].op # "command"
             /\ \E j \in 1..L : Plan[i].tenant = TenantOrder[j]
  <2>1. i \in 1..n /\ Plan[i] = Entry(i)
    BY <1>7
  <2> QED  BY <1>5, <2>1, Zenon
<1>9. Len(Plan) \in Nat \ {0} /\ L <= Len(Plan) /\ DOMAIN Plan = 1..Len(Plan)
  BY <1>4, <1>7
<1> QED
  BY <1>2, <1>8, <1>9, Zenon DEF L

-----------------------------------------------------------------------------
(* The demo process                                                        *)

BusType == [tenant : Tenants \cup {None}, link : {"off", "up", "down"},
            handler : BOOLEAN, granted : BOOLEAN, onConnect : BOOLEAN]

Phases == {"create", "await", "connect", "dial", "subscribe", "suback", "lost", "backoff",
           "run", "publish", "commanded", "stopped"}

DemoTypes ==
    /\ outage \in BOOLEAN
    /\ process \in {"up", "ending", "closed", "down"}
    /\ step \in Phases
    /\ at \in 1..Len(Plan)
    /\ building \subseteq Buses /\ agents \subseteq Buses /\ building \cap agents = {}
    /\ bus \in [Buses -> BusType]
    /\ factory \in {"open", "busy", "closed"}

\* The mutex of the factory, and what Close and the end of the process leave.
ProcessInv ==
    /\ factory = "busy" <=> step = "dial"
    /\ factory = "closed" <=> process = "closed"
    /\ process = "down" => step = "stopped" /\ building = {} /\ agents = {} /\ at = 1

\* The MQTT clients in B are those of the first n tenants.
Covers(B, n) ==
    /\ \A b \in B : \E j \in 1..n : bus[b].tenant = TenantOrder[j]
    /\ \A j \in 1..n : \E b \in B : bus[b].tenant = TenantOrder[j]

Handled(B) == \A b \in B : bus[b].handler = TRUE

\* How far EnsureTopology is tells which clients there are.
StepInv ==
    /\ step \in {"create", "await", "backoff"} => building = {} /\ agents = {}
    /\ step \in {"connect", "dial"} =>
          /\ agents = {} /\ at <= Len(TenantOrder)
          /\ Covers(building, at - 1) /\ Handled(building)
    /\ step \in {"subscribe", "suback", "lost"} =>
          /\ agents = {} /\ at <= Len(TenantOrder)
          /\ Covers(building, at)
          /\ \A b \in building :
                bus[b].handler = TRUE \/ (step = "subscribe" /\ bus[b].tenant = TenantOrder[at])
    /\ step \in {"run", "publish", "commanded"} =>
          building = {} /\ Covers(agents, Len(TenantOrder)) /\ Handled(agents)
    /\ step = "stopped" =>
          /\ building = {}
          /\ agents = {} \/ (Covers(agents, Len(TenantOrder)) /\ Handled(agents))

\* Each MQTT client: listed or off; subscribed unless something is pending.
BusInv(b) ==
    /\ bus[b].granted = TRUE => bus[b].link = "up" /\ bus[b].handler = TRUE
    /\ b \notin building \cup agents => bus[b] = Off
    /\ process = "closed" => bus[b].link = "off"
    /\ bus[b].handler = TRUE /\ bus[b].link = "up" /\ bus[b].onConnect = FALSE =>
          \/ bus[b].granted = TRUE
          \/ step = "suback" /\ b \in building /\ bus[b].tenant = TenantOrder[at]

OneEach ==
    \A b, o \in building \cup agents : bus[b].tenant = bus[o].tenant => b = o

\* The rows of the plan, and the request under way for one of them.
RowsInv ==
    /\ step \in {"create", "await"} => \A i \in 1..(at - 1) : Taken(Plan[i])
    /\ \/ step \in {"create", "await", "backoff"}
       \/ step = "stopped" /\ agents = {}
       \/ \A i \in DOMAIN Plan : Taken(Plan[i])

AskInv ==
    /\ \A k \in Calls : call[k].client = Demo =>
          (step = "await" /\ call[k].request = Plan[at]) \/ step = "commanded"
    /\ step = "await" /\ heard[Demo].status \in {201, 409} => Taken(Plan[at])

DemoInv ==
    /\ DemoTypes /\ ProcessInv /\ StepInv /\ OneEach /\ RowsInv /\ AskInv
    /\ \A b \in Buses : BusInv(b)

\* What the server and the callers do reaches the demo only through its answer.
LEMMA DemoWaits ==
    ASSUME ApiInv, Grows, DemoInv, UNCHANGED demoVars, outage' \in BOOLEAN,
           Kept(Demo) \/ Answered(Demo)
    PROVE  DemoInv'
<1>1. /\ process' = process /\ step' = step /\ at' = at /\ building' = building
      /\ agents' = agents /\ bus' = bus /\ factory' = factory
  BY DEF demoVars
<1>2. DemoTypes' /\ ProcessInv'
  BY <1>1, Zenon DEF DemoInv, DemoTypes, ProcessInv
<1>3. StepInv' /\ OneEach'
  BY <1>1, ZenonT(30) DEF DemoInv, StepInv, Covers, Handled, OneEach
<1>4. \A b \in Buses : BusInv(b)'
  BY <1>1 DEF DemoInv, BusInv
<1>5. \A i \in DOMAIN Plan : Taken(Plan[i]) => Taken(Plan[i])'
  BY PlanFacts, TakenGrows
<1>6. at \in DOMAIN Plan /\ 1..(at - 1) \subseteq DOMAIN Plan
  BY PlanFacts DEF DemoInv, DemoTypes
<1>7. RowsInv'
  BY <1>1, <1>5, <1>6 DEF DemoInv, RowsInv
<1>8. AskInv'
  <2>1. CASE Kept(Demo)
    <3>1. \A k \in Calls : call'[k].client = Demo =>
             (step = "await" /\ call'[k].request = Plan[at]) \/ step = "commanded"
      BY <2>1 DEF Kept, DemoInv, AskInv
    <3>2. step = "await" /\ heard'[Demo].status \in {201, 409} => Taken(Plan[at])'
      BY <1>1, <1>5, <1>6, <2>1, ZenonT(30) DEF Kept, DemoInv, AskInv
    <3> QED  BY <1>1, <3>1, <3>2, Zenon DEF AskInv
  <2>2. CASE Answered(Demo)
    <3>1. \A k \in Calls : call'[k].client # Demo
      BY <2>2 DEF Answered
    <3>2. PICK k \in Calls, r \in Requests, reply \in Replies :
             /\ call[k].client = Demo /\ call[k].request = r
             /\ heard'[Demo] = reply /\ Told(reply, r)'
      BY <2>2, Zenon DEF Answered
    <3>3. step = "await" => r = Plan[at]
      BY <3>2, Zenon DEF DemoInv, AskInv
    <3>4. step = "await" /\ reply.status \in {201, 409} => Taken(r)'
      BY <1>6, <3>2, <3>3, PlanFacts DEF Told
    <3>5. PICK p : p = Plan[at]
      OBVIOUS
    <3>6. step = "await" /\ reply.status \in {201, 409} => Taken(p)'
      BY <3>3, <3>4, <3>5, Zenon
    <3>7. step' = "await" /\ heard'[Demo].status \in {201, 409} => Taken(Plan[at])'
      BY <1>1, <3>2, <3>5, <3>6, Zenon
    <3> QED  BY <3>1, <3>7 DEF AskInv
  <2> QED  BY <2>1, <2>2
<1> QED
  BY <1>2, <1>3, <1>4, <1>7, <1>8 DEF DemoInv

\* Steps of EnsureTopology and Run that leave every MQTT client as it is.
LEMMA BusesKept ==
    ASSUME DemoInv, bus' = bus, building' = building, agents' = agents,
           process' = "closed" => process = "closed",
           \/ step' = step /\ at' = at
           \/ step # "suback"
    PROVE  OneEach' /\ \A b \in Buses : BusInv(b)'
BY DEF DemoInv, OneEach, BusInv

\* Where such a step may lead.
LEMMA PlaceKept ==
    ASSUME DemoInv, bus' = bus, building' = building, agents' = agents, at' \in Nat,
           \/ step' = step /\ at' = at
           \/ /\ step' \in {"create", "await", "backoff"} /\ building = {} /\ agents = {}
           \/ step = "await" /\ step' = "connect" /\ at' = 1
           \/ step = "connect" /\ step' = "dial" /\ at' = at
           \/ step = "backoff" /\ step' = "stopped"
           \/ /\ step \in {"run", "publish", "commanded"}
              /\ step' \in {"run", "publish", "commanded", "stopped"}
    PROVE  StepInv'
<1>0. StepInv /\ 1 <= Len(TenantOrder)
  BY PlanFacts DEF DemoInv
<1>3. CASE step' = step /\ at' = at
  BY <1>0, <1>3, Zenon DEF StepInv, Covers, Handled
<1>4. CASE step' \in {"create", "await", "backoff"} /\ building = {} /\ agents = {}
  BY <1>4, Zenon DEF StepInv
<1>5. CASE step = "await" /\ step' = "connect" /\ at' = 1
  <2>1. building' = {} /\ agents' = {} /\ 1 <= Len(TenantOrder)
    BY <1>0, <1>5, Zenon DEF StepInv
  <2>2. Covers(building, at - 1)' /\ Handled(building)'
    BY <1>5, <2>1 DEF Covers, Handled
  <2> QED  BY <1>5, <2>1, <2>2, Zenon DEF StepInv
<1>6. CASE step = "connect" /\ step' = "dial" /\ at' = at
  BY <1>0, <1>6, Zenon DEF StepInv, Covers, Handled
<1>7. CASE step = "backoff" /\ step' = "stopped"
  BY <1>0, <1>7, Zenon DEF StepInv
<1>8. CASE /\ step \in {"run", "publish", "commanded"}
           /\ step' \in {"run", "publish", "commanded", "stopped"}
  BY <1>0, <1>8, Zenon DEF StepInv, Covers, Handled
<1> QED
  BY <1>3, <1>4, <1>5, <1>6, <1>7, <1>8

\* The rows of the plan, when no request of the demo is under way.
LEMMA RowsKept ==
    ASSUME DemoInv, Grows, ApiInv,
           \/ step' = step /\ at' = at /\ agents' = agents
           \/ step' = "create" /\ at' = 1
           \/ step = "create" /\ step' = "await" /\ at' = at
           \/ step' = "backoff"
           \/ step' = "stopped" /\ agents' = {}
           \/ /\ step \notin {"create", "await", "backoff", "stopped"}
              /\ step' \notin {"create", "await"}
    PROVE  RowsInv'
<1>1. \A i \in DOMAIN Plan : Taken(Plan[i]) => Taken(Plan[i])'
  BY PlanFacts, TakenGrows
<1>2. at \in 1..Len(Plan) /\ at \in DOMAIN Plan /\ 1..(at - 1) \subseteq DOMAIN Plan
  BY PlanFacts DEF DemoInv, DemoTypes
<1> QED
  BY <1>1, <1>2 DEF DemoInv, RowsInv

\* A step of the demo that sends and hears nothing.
LEMMA AskKept ==
    ASSUME DemoInv, UNCHANGED apiVars,
           \/ step' = step /\ at' = at
           \/ step \notin {"await", "commanded"} /\ step' # "await"
    PROVE  AskInv'
<1>1. call' = call /\ heard' = heard /\ tenants' = tenants /\ devices' = devices
      /\ commands' = commands
  BY DEF apiVars
<1>2. CASE step' = step /\ at' = at
  <2>1. PICK p : p = Plan[at]
    OBVIOUS
  <2>2. Taken(p)' <=> Taken(p)
    BY <1>1, Zenon DEF Taken, StoredAs
  <2> QED  BY <1>1, <1>2, <2>1, <2>2 DEF DemoInv, AskInv
<1>3. CASE step \notin {"await", "commanded"} /\ step' # "await"
  BY <1>1, <1>3 DEF DemoInv, AskInv
<1> QED
  BY <1>2, <1>3

\* EnsureTopology sends the next request of its plan.
LEMMA CreateNextStep ==
    ASSUME ApiInv, DemoInv, CreateNext
    PROVE  DemoInv'
<1>1. /\ step = "create" /\ step' = "await" /\ at' = at /\ Send(Demo, Plan[at])
      /\ UNCHANGED <<outage, process, building, agents, bus, factory>>
  BY DEF CreateNext
<1>2. Demo \in Clients /\ Plan[at] \in Requests /\ Accept(Demo, Plan[at])
  BY <1>1, SendIsAccept, ClientsAssumption
<1>3. Grows /\ AskedFor(Demo, Plan[at])
  BY <1>2, AcceptView
<1>4. DemoTypes' /\ ProcessInv'
  BY <1>1, Zenon DEF DemoInv, DemoTypes, ProcessInv, Phases
<1>5. building = {} /\ agents = {} /\ at \in Nat
  BY <1>1 DEF DemoInv, StepInv, DemoTypes
<1>6. StepInv' /\ OneEach' /\ \A b \in Buses : BusInv(b)'
  BY <1>1, <1>5, BusesKept, PlaceKept
<1>7. RowsInv'
  BY <1>1, <1>3, RowsKept, Zenon
<1>8. AskInv'
  BY <1>1, <1>3, ReplyFacts DEF AskInv, AskedFor
<1> QED
  BY <1>4, <1>6, <1>7, <1>8 DEF DemoInv

\* It goes on when the row is there, and starts over when it cannot know.
LEMMA CreatedStep ==
    ASSUME ApiInv, DemoInv, Created
    PROVE  DemoInv'
<1>1. /\ step = "await" /\ heard[Demo] # Waiting /\ heard' = [heard EXCEPT ![Demo] = Silent]
      /\ call' = call /\ UNCHANGED Tables
      /\ UNCHANGED <<outage, process, building, agents, bus, factory>>
      /\ \/ step' = "backoff" /\ at' = at
         \/ postJSON(heard[Demo]) /\ at < Len(Plan) /\ step' = "create" /\ at' = at + 1
         \/ postJSON(heard[Demo]) /\ at >= Len(Plan) /\ step' = "connect" /\ at' = 1
  <2>1. at \in Nat /\ Len(Plan) \in Nat
    BY PlanFacts DEF DemoInv, DemoTypes
  <2> QED  BY <2>1 DEF Created, Tables
<1>2. Grows /\ Forgot(Demo)
  BY <1>1, ReadView, ClientsAssumption, Zenon
<1>3. at \in 1..Len(Plan) /\ Len(Plan) \in Nat \ {0} /\ DOMAIN Plan = 1..Len(Plan)
  BY PlanFacts DEF DemoInv, DemoTypes
<1>4. at' \in 1..Len(Plan)
  BY <1>1, <1>3
<1>5. DemoTypes' /\ ProcessInv'
  BY <1>1, <1>4, Zenon DEF DemoInv, DemoTypes, ProcessInv, Phases
<1>6. building = {} /\ agents = {} /\ at' \in Nat
  BY <1>1, <1>4 DEF DemoInv, StepInv
<1>7. StepInv' /\ OneEach' /\ \A b \in Buses : BusInv(b)'
  BY <1>1, <1>6, BusesKept, PlaceKept, Zenon
<1>8. \A i \in DOMAIN Plan : Taken(Plan[i]) => Taken(Plan[i])'
  BY <1>2, PlanFacts, TakenGrows, Zenon
<1>9. /\ \A i \in 1..(at - 1) : Taken(Plan[i])
      /\ postJSON(heard[Demo]) => Taken(Plan[at])
  BY <1>1 DEF DemoInv, RowsInv, AskInv, postJSON
<1>10. postJSON(heard[Demo]) => \A i \in 1..at : Taken(Plan[i])'
  <2>1. ASSUME postJSON(heard[Demo]), NEW i \in 1..at
        PROVE  Taken(Plan[i])'
    <3>1. i \in DOMAIN Plan /\ Taken(Plan[i])
      BY <1>3, <1>9, <2>1
    <3> QED  BY <1>8, <3>1
  <2> QED  BY <2>1
<1>11. RowsInv'
  <2>1. CASE step' = "backoff"
    BY <2>1 DEF RowsInv
  <2>2. CASE postJSON(heard[Demo]) /\ at < Len(Plan) /\ step' = "create" /\ at' = at + 1
    <3>1. 1..(at' - 1) = 1..at
      BY <1>3, <2>2
    <3> QED  BY <1>10, <2>2, <3>1, Zenon DEF RowsInv
  <2>3. CASE postJSON(heard[Demo]) /\ at >= Len(Plan) /\ step' = "connect" /\ at' = 1
    <3>0. PICK n \in Nat : n = Len(Plan)
      BY <1>3, Zenon
    <3>1. at = n
      <4>1. at \in 1..n
        BY <1>3, <3>0
      <4>2. at >= n
        BY <2>3, <3>0
      <4> QED  BY <4>1, <4>2
    <3>2. DOMAIN Plan = 1..at
      BY <1>3, <3>0, <3>1, Zenon
    <3> QED  BY <1>10, <2>3, <3>2 DEF RowsInv
  <2> QED  BY <1>1, <2>1, <2>2, <2>3
<1>12. AskInv'
  BY <1>1, <1>2 DEF AskInv, Forgot
<1> QED
  BY <1>5, <1>7, <1>11, <1>12 DEF DemoInv

\* A burst sends a command, or has its answer.
LEMMA CommandSteps ==
    ASSUME ApiInv, DemoInv, Commanded \/ \E i \in Devices : EmitCommand(i)
    PROVE  DemoInv'
<1>0. Demo \in Clients
  BY ClientsAssumption, Zenon
<1>1. /\ \/ step = "run" /\ step' = "commanded"
         \/ step = "commanded" /\ step' = "run"
      /\ UNCHANGED <<outage, process, at, building, agents, bus, factory>>
  BY Zenon DEF Commanded, EmitCommand
<1>2. /\ Grows
      /\ \/ Forgot(Demo)
         \/ step' = "commanded"
  <2>1. CASE Commanded
    <3>1. /\ heard[Demo] # Waiting /\ call' = call /\ UNCHANGED Tables
          /\ heard' = [heard EXCEPT ![Demo] = Silent]
      BY <2>1 DEF Commanded, Tables
    <3> QED  BY <1>0, <3>1, ReadView, Zenon
  <2>2. CASE \E i \in Devices : EmitCommand(i)
    <3>1. PICK i \in Devices : EmitCommand(i)
      BY <2>2
    <3> DEFINE q == [Plan[i] EXCEPT !.op = "command", !.payload = CHOOSE p \in Payloads : TRUE]
    <3>2. createCommandHandler(Demo, q) /\ step' = "commanded"
      BY <3>1, Zenon DEF EmitCommand
    <3> HIDE DEF q
    <3>3. q \in Requests /\ Accept(Demo, q)
      BY <3>2, SendIsAccept, Zenon
    <3> QED  BY <1>0, <3>2, <3>3, AcceptView
  <2> QED  BY <2>1, <2>2
<1>3. DemoTypes' /\ ProcessInv' /\ at \in Nat
  BY <1>1 DEF DemoInv, DemoTypes, ProcessInv, Phases
<1>4. StepInv' /\ OneEach' /\ \A b \in Buses : BusInv(b)'
  BY <1>1, <1>3, BusesKept, PlaceKept
<1>5. RowsInv'
  BY <1>1, <1>2, RowsKept, Zenon
<1>6. AskInv'
  BY <1>1, <1>2 DEF AskInv, Forgot
<1> QED
  BY <1>3, <1>4, <1>5, <1>6 DEF DemoInv

\* The steps that concern neither the API nor a single MQTT client.
LEMMA PlainSteps ==
    ASSUME ApiInv, DemoInv,
           \/ NewClient /\ factory = "open"
           \/ Backoff \/ Published \/ RunEnds \/ Signal \/ Start
           \/ \E i \in Devices : EmitTelemetry(i)
    PROVE  DemoInv'
<1>0. /\ UNCHANGED apiVars /\ outage' = outage /\ bus' = bus /\ building' = building
      /\ agents' = agents
  BY Zenon DEF NewClient, Backoff, Published, RunEnds, Signal, Start, EmitTelemetry, BusUnchanged,
     ProcessUnchanged, apiVars
<1>1. Grows
  BY <1>0, SameView, Zenon
<1>2. at \in 1..Len(Plan) /\ Len(Plan) \in Nat \ {0} /\ DOMAIN Plan = 1..Len(Plan)
  BY PlanFacts, Zenon DEF DemoInv, DemoTypes
<1>3. /\ at' \in 1..Len(Plan) /\ step' \in Phases
      /\ process' \in {"up", "ending", "closed", "down"} /\ factory' \in {"open", "busy", "closed"}
      /\ process' = "closed" => process = "closed"
  BY <1>2 DEF NewClient, Backoff, Published, RunEnds, Signal, Start, EmitTelemetry, BusUnchanged,
     DemoInv, DemoTypes, Phases, Devices
<1>4. DemoTypes'
  BY <1>0, <1>3, Zenon DEF DemoInv, DemoTypes
<1>5. ProcessInv'
  <2>1. process # "down" \/ Signal \/ Start
    BY Zenon DEF NewClient, Backoff, Published, RunEnds, EmitTelemetry, DemoInv, ProcessInv
  <2> QED  BY <1>0, <2>1, Zenon DEF NewClient, Backoff, Published, RunEnds, Signal, Start, EmitTelemetry,
     BusUnchanged, DemoInv, ProcessInv
<1>6. \/ step' = step /\ at' = at
      \/ /\ step' = "create" /\ at' = 1 /\ building = {} /\ agents = {}
         /\ step \in {"backoff", "stopped"}
      \/ step = "connect" /\ step' = "dial" /\ at' = at
      \/ step = "backoff" /\ step' = "stopped" /\ agents = {}
      \/ step \in {"run", "publish"} /\ step' \in {"run", "publish", "stopped"}
  BY DEF NewClient, Backoff, Published, RunEnds, Signal, Start, EmitTelemetry, DemoInv, ProcessInv,
     StepInv
<1>7. at' \in Nat
  BY <1>3
<1>8. OneEach' /\ \A b \in Buses : BusInv(b)'
  BY <1>0, <1>3, <1>6, BusesKept, Zenon
<1>9. StepInv'
  BY <1>0, <1>6, <1>7, PlaceKept, Zenon
<1>10. RowsInv'
  BY <1>0, <1>1, <1>6, RowsKept, Zenon
<1>11. AskInv'
  BY <1>0, <1>6, AskKept
<1> QED
  BY <1>4, <1>5, <1>8, <1>9, <1>10, <1>11, Zenon DEF DemoInv

\* An attempt fails: its MQTT clients are thrown away.
LEMMA DiscardSteps ==
    ASSUME ApiInv, DemoInv,
           \/ NewClient /\ factory = "closed"
           \/ ConnectFails \/ SubscribeFails
    PROVE  DemoInv'
<1>1. /\ step \in {"connect", "dial", "lost"} /\ step' = "backoff" /\ Discard /\ at' = at
      /\ UNCHANGED <<apiVars, outage, process, agents>>
      /\ factory' = IF step = "dial" THEN "open" ELSE factory
  BY DEF NewClient, ConnectFails, SubscribeFails, BusUnchanged
<1>2. Grows
  BY <1>1, SameView, Zenon
<1>3. /\ bus' = [b \in Buses |-> IF b \in building THEN Off ELSE bus[b]] /\ building' = {}
      /\ agents = {} /\ agents' = {}
  BY <1>1 DEF Discard, DemoInv, StepInv
<1>4. Off \in BusType
  BY DEF Off, BusType
<1>5. DemoTypes'
  BY <1>1, <1>3, <1>4 DEF DemoInv, DemoTypes, Phases
<1>6. ProcessInv'
  BY <1>1, <1>3, Zenon DEF DemoInv, DemoTypes, ProcessInv
<1>7. StepInv' /\ OneEach'
  BY <1>1, <1>3, Zenon DEF StepInv, OneEach
<1>8. ASSUME NEW b \in Buses
      PROVE  BusInv(b)'
  <2>1. bus'[b] = Off
    BY <1>3 DEF DemoInv, BusInv
  <2> QED  BY <2>1 DEF BusInv, Off
<1>9. RowsInv'
  BY <1>1 DEF RowsInv
<1>10. AskInv'
  BY <1>1, AskKept
<1> QED
  BY <1>5, <1>6, <1>7, <1>8, <1>9, <1>10, Zenon DEF DemoInv

\* NewClient returns a client for the next tenant.
LEMMA ConnectedStep ==
    ASSUME ApiInv, DemoInv, Connected
    PROVE  DemoInv'
  \* A client that is off is not among those of the tenants covered so far.
<1>OffIsUnused.
      ASSUME NEW B, NEW n \in 0..Len(TenantOrder), Covers(B, n), NEW b \in B
      PROVE  bus[b] # Off
  <2> USE <1>OffIsUnused
  <2>1. PICK j \in 1..n : bus[b].tenant = TenantOrder[j]
    BY Zenon DEF Covers
  <2>2. TenantOrder[j] \in Tenants
    BY PlanFacts
  <2> QED
    BY <2>1, <2>2, ApiAssumption DEF Off
<1> DEFINE t == TenantOrder[at]
           new == [tenant |-> t, link |-> "up", handler |-> FALSE, granted |-> FALSE,
                   onConnect |-> TRUE]
<1>1. PICK b \in Buses :
        /\ bus[b] = Off /\ bus' = [bus EXCEPT ![b] = new] /\ building' = building \cup {b}
        /\ step = "dial" /\ step' = "subscribe" /\ factory' = "open" /\ at' = at
        /\ UNCHANGED <<apiVars, outage, process, agents>>
  BY Zenon DEF Connected, BusUnchanged, Off
<1>2. Grows
  BY <1>1, SameView, Zenon
<1>3. /\ agents = {} /\ at <= Len(TenantOrder) /\ Covers(building, at - 1) /\ Handled(building)
      /\ factory = "busy" /\ process # "closed" /\ process # "down"
  BY <1>1, Zenon DEF DemoInv, StepInv, ProcessInv
<1>4. /\ at \in 1..Len(TenantOrder) /\ Len(TenantOrder) \in Nat /\ t \in Tenants
      /\ at \in 1..Len(Plan) /\ at - 1 \in 0..Len(TenantOrder)
  BY <1>3, PlanFacts DEF DemoInv, DemoTypes
<1>5. b \notin building
  BY <1>1, <1>3, <1>4, <1>OffIsUnused, Zenon
<1>6. new \in BusType
  BY <1>4, Zenon DEF BusType
<1>7. /\ bus' \in [Buses -> BusType] /\ bus'[b] = new
      /\ \A o \in Buses \ {b} : bus'[o] = bus[o]
  BY <1>1, <1>6, Zenon DEF DemoInv, DemoTypes
<1>8. /\ new.tenant = t /\ new.link = "up" /\ new.handler = FALSE /\ new.granted = FALSE
      /\ new.onConnect = TRUE
  BY Zenon
<1> HIDE DEF t, new
<1>9. DemoTypes'
  BY <1>1, <1>3, <1>7, Zenon DEF DemoInv, DemoTypes, Phases
<1>10. ProcessInv'
  BY <1>1, <1>3 DEF DemoInv, ProcessInv
<1>11. building \subseteq Buses
  BY DEF DemoInv, DemoTypes
<1>12. \A o \in building : o # b /\ bus'[o] = bus[o]
  BY <1>5, <1>7, <1>11, Zenon
<1>13. \A o \in building : \E j \in 1..(at - 1) : bus'[o].tenant = TenantOrder[j]
  BY <1>3, <1>12 DEF Covers
<1>14. StepInv'
  <2>1. \A o \in building' : \E j \in 1..at : bus'[o].tenant = TenantOrder[j]
    BY <1>1, <1>4, <1>7, <1>8, <1>13 DEF t
  <2>2. ASSUME NEW j \in 1..at
        PROVE  \E o \in building' : bus'[o].tenant = TenantOrder[j]
    <3>1. CASE j = at
      BY <1>1, <1>7, <1>8, <3>1, Zenon DEF t
    <3>2. CASE j # at
      <4>1. j \in 1..(at - 1)
        BY <1>4, <3>2
      <4> QED  BY <1>1, <1>3, <1>12, <4>1 DEF Covers
    <3> QED  BY <3>1, <3>2, Zenon
  <2>3. Covers(building, at)'
    BY <1>1, <2>1, <2>2, Zenon DEF Covers
  <2>4. \A o \in building' : bus'[o].handler = TRUE \/ bus'[o].tenant = TenantOrder[at]
    BY <1>1, <1>3, <1>7, <1>8, <1>12, Zenon DEF Handled, t
  <2> QED  BY <1>1, <1>3, <2>3, <2>4, Zenon DEF StepInv
<1>15. OneEach'
  <2>1. \A o \in building : bus'[o].tenant # t
    <3>1. \A j \in 1..(at - 1) : TenantOrder[j] # t
      BY <1>4, PlanFacts DEF t
    <3> QED  BY <1>13, <3>1, Zenon
  <2>2. \A o, p \in building : bus'[o].tenant = bus'[p].tenant => o = p
    BY <1>12, Zenon DEF DemoInv, OneEach
  <2>3. bus'[b].tenant = t
    BY <1>7, <1>8
  <2> QED  BY <1>1, <1>3, <2>1, <2>2, <2>3 DEF OneEach
<1>16. ASSUME NEW o \in Buses
       PROVE  BusInv(o)'
  <2>1. CASE o = b
    BY <1>1, <1>3, <1>7, <1>8, <2>1, Zenon DEF BusInv
  <2>2. CASE o # b
    BY <1>1, <1>7, <2>2, Zenon DEF BusInv, DemoInv
  <2> QED  BY <2>1, <2>2, Zenon
<1>17. RowsInv'
  BY <1>1, <1>2, RowsKept, Zenon
<1>18. AskInv'
  BY <1>1, AskKept, Zenon
<1> QED
  BY <1>9, <1>10, <1>14, <1>15, <1>16, <1>17, <1>18, Zenon DEF DemoInv

\* Tells a bus of building from the others by its tenant.
LEMMA CurrentIsOne ==
    ASSUME DemoInv, NEW b \in Current
    PROVE  /\ b \in Buses /\ b \in building /\ bus[b].tenant = TenantOrder[at]
           /\ \A o \in building : bus[o].tenant = TenantOrder[at] => o = b
BY DEF DemoInv, DemoTypes, OneEach, Current

\* Subscribe keeps the handler and sends SUBSCRIBE.
LEMMA SubscribeStep ==
    ASSUME ApiInv, DemoInv, Subscribe
    PROVE  DemoInv'
<1>1. PICK b \in Current :
        /\ bus' = [bus EXCEPT ![b].handler = TRUE]
        /\ step = "subscribe" /\ step' = IF bus[b].link = "up" THEN "suback" ELSE "lost"
        /\ building' = building /\ at' = at /\ factory' = factory
        /\ UNCHANGED <<apiVars, outage, process, agents>>
  BY Zenon DEF Subscribe, BusUnchanged
<1>2. Grows
  BY <1>1, SameView, Zenon
<1>3. /\ b \in Buses /\ b \in building /\ bus[b].tenant = TenantOrder[at]
      /\ \A o \in building : bus[o].tenant = TenantOrder[at] => o = b
  BY CurrentIsOne
<1>4. /\ bus' \in [Buses -> BusType]
      /\ \A o \in Buses \ {b} : bus'[o] = bus[o]
      /\ bus'[b].tenant = bus[b].tenant /\ bus'[b].link = bus[b].link
      /\ bus'[b].granted = bus[b].granted /\ bus'[b].onConnect = bus[b].onConnect
      /\ bus'[b].handler = TRUE
  BY <1>1, <1>3, ZenonT(30) DEF DemoInv, DemoTypes, BusType
<1>5. /\ agents = {} /\ at <= Len(TenantOrder) /\ Covers(building, at)
      /\ \A o \in building : bus[o].handler = TRUE \/ bus[o].tenant = TenantOrder[at]
      /\ building \subseteq Buses
  BY <1>1 DEF DemoInv, StepInv, DemoTypes
<1>6. DemoTypes' /\ ProcessInv'
  BY <1>1, <1>4 DEF DemoInv, DemoTypes, ProcessInv, Phases
<1>7. \A o \in Buses : bus'[o].tenant = bus[o].tenant
  BY <1>4
<1>8. StepInv'
  <2>1. Covers(building, at)'
    BY <1>1, <1>5, <1>7 DEF Covers
  <2>2. \A o \in building : bus'[o].handler = TRUE
    BY <1>3, <1>4, <1>5
  <2> QED  BY <1>1, <1>5, <2>1, <2>2 DEF StepInv
<1>9. OneEach'
  BY <1>1, <1>5, <1>7 DEF DemoInv, OneEach
<1>10. ASSUME NEW o \in Buses
       PROVE  BusInv(o)'
  <2>1. CASE o = b
    BY <1>1, <1>3, <1>4, <2>1 DEF BusInv, DemoInv
  <2>2. CASE o # b
    BY <1>1, <1>4, <2>2 DEF BusInv, DemoInv
  <2> QED  BY <2>1, <2>2
<1>11. RowsInv'
  BY <1>1, <1>2, RowsKept
<1>12. AskInv'
  BY <1>1, AskKept
<1> QED
  BY <1>6, <1>8, <1>9, <1>10, <1>11, <1>12 DEF DemoInv

\* The SUBACK arrives; after the last one the agents are installed.
LEMMA SubscribedStep ==
    ASSUME ApiInv, DemoInv, Subscribed
    PROVE  DemoInv'
<1>1. PICK b \in Current :
        /\ bus' = [bus EXCEPT ![b].granted = TRUE] /\ bus[b].link = "up"
        /\ step = "suback" /\ factory' = factory
        /\ UNCHANGED <<apiVars, outage, process>>
        /\ \/ /\ at < Len(TenantOrder) /\ step' = "connect" /\ at' = at + 1
              /\ building' = building /\ agents' = agents
           \/ /\ ~(at < Len(TenantOrder)) /\ step' = "run" /\ at' = at
              /\ building' = {} /\ agents' = building
  BY Zenon DEF Subscribed
<1>2. Grows
  BY <1>1, SameView
<1>3. /\ b \in Buses /\ b \in building /\ bus[b].tenant = TenantOrder[at]
      /\ \A o \in building : bus[o].tenant = TenantOrder[at] => o = b
  BY CurrentIsOne
<1>4. /\ bus' \in [Buses -> BusType]
      /\ \A o \in Buses \ {b} : bus'[o] = bus[o]
      /\ bus'[b].tenant = bus[b].tenant /\ bus'[b].link = bus[b].link
      /\ bus'[b].handler = bus[b].handler /\ bus'[b].onConnect = bus[b].onConnect
      /\ bus'[b].granted = TRUE
  BY <1>1, <1>3, Zenon DEF DemoInv, DemoTypes, BusType
<1>5. /\ agents = {} /\ at <= Len(TenantOrder) /\ Covers(building, at)
      /\ \A o \in building : bus[o].handler = TRUE
      /\ building \subseteq Buses
  BY <1>1 DEF DemoInv, StepInv, DemoTypes
<1>6. \A o \in Buses : bus'[o].tenant = bus[o].tenant /\ bus'[o].handler = bus[o].handler
  BY <1>4, Zenon
<1>7. /\ at \in 1..Len(Plan) /\ Len(Plan) \in Nat /\ Len(TenantOrder) \in Nat
      /\ Len(TenantOrder) <= Len(Plan)
  BY PlanFacts DEF DemoInv, DemoTypes
<1>8. at' \in 1..Len(Plan)
  BY <1>1, <1>7
<1>9. DemoTypes'
  BY <1>1, <1>4, <1>5, <1>8 DEF DemoInv, DemoTypes, Phases
<1>10. ProcessInv'
  BY <1>1 DEF DemoInv, ProcessInv
<1>11. StepInv'
  <2>1. CASE step' = "connect"
    <3>1. /\ at' - 1 = at /\ at' <= Len(TenantOrder) /\ building' = building /\ agents' = {}
      BY <1>1, <1>5, <1>7, <2>1
    <3>2. Covers(building, at - 1)' /\ Handled(building)'
      BY <1>5, <1>6, <3>1 DEF Covers, Handled
    <3> QED  BY <2>1, <3>1, <3>2 DEF StepInv
  <2>2. CASE step' = "run"
    <3>1. at = Len(TenantOrder)
      BY <1>1, <1>5, <1>7, <2>2
    <3>2. building' = {} /\ agents' = building
      BY <1>1, <2>2, Zenon
    <3>3. Covers(agents, Len(TenantOrder))' /\ Handled(agents)'
      BY <1>5, <1>6, <3>1, <3>2 DEF Covers, Handled
    <3> QED  BY <2>2, <3>2, <3>3 DEF StepInv
  <2> QED  BY <1>1, <2>1, <2>2, Zenon
<1>12. building' \cup agents' = building \cup agents
  BY <1>1, <1>5
<1>13. OneEach'
  BY <1>5, <1>6, <1>12, Zenon DEF DemoInv, OneEach
<1>14. ASSUME NEW o \in Buses
       PROVE  BusInv(o)'
  <2>1. CASE o = b
    BY <1>1, <1>3, <1>4, <1>5, <1>12, <2>1, Zenon DEF BusInv, DemoInv
  <2>2. CASE o # b
    BY <1>1, <1>3, <1>4, <1>12, <2>2 DEF BusInv, DemoInv
  <2> QED  BY <2>1, <2>2
<1>15. RowsInv'
  BY <1>1, <1>2, RowsKept
<1>16. AskInv'
  BY <1>1, AskKept, Zenon
<1> QED
  BY <1>9, <1>10, <1>11, <1>13, <1>14, <1>15, <1>16 DEF DemoInv

\* Steps that leave the tenant and the handler of every MQTT client.
LEMMA TenantsKept ==
    ASSUME DemoInv, building' = building, agents' = agents, at' = at,
           step' = step \/ (step = "suback" /\ step' = "lost"),
           \A b \in Buses : bus'[b].tenant = bus[b].tenant /\ bus'[b].handler = bus[b].handler
    PROVE  StepInv' /\ OneEach'
<1>1. building \subseteq Buses /\ agents \subseteq Buses /\ StepInv /\ OneEach
  BY DEF DemoInv, DemoTypes
<1>2. \A b \in building \cup agents :
         bus'[b].tenant = bus[b].tenant /\ bus'[b].handler = bus[b].handler
  BY <1>1, Zenon
<1>3. /\ Covers(building, at) => Covers(building, at)'
      /\ Covers(building, at - 1) => Covers(building, at - 1)'
      /\ Covers(agents, Len(TenantOrder)) => Covers(agents, Len(TenantOrder))'
  BY <1>2 DEF Covers
<1>4. (Handled(building) => Handled(building)') /\ (Handled(agents) => Handled(agents)')
  BY <1>2 DEF Handled
<1>5. OneEach'
  BY <1>1, <1>2, Zenon DEF OneEach
<1>6. step \in {"subscribe", "suback", "lost"} =>
         \A b \in building : bus'[b].handler = TRUE
            \/ (step = "subscribe" /\ step' = "subscribe" /\ bus'[b].tenant = TenantOrder[at])
  BY <1>1, <1>2 DEF StepInv
<1> QED
  BY <1>1, <1>3, <1>4, <1>5, <1>6, Zenon DEF StepInv

\* A callback of an MQTT client: its connection is lost, replaced, or
\* subscribed again.
LEMMA LinkSteps ==
    ASSUME ApiInv, DemoInv, NEW b \in Buses, LinkLost(b) \/ Reconnected(b) \/ OnConnect(b)
    PROVE  DemoInv'
<1>1. /\ building' = building /\ agents' = agents /\ at' = at /\ factory' = factory
      /\ UNCHANGED <<apiVars, outage, process>>
  BY DEF LinkLost, Reconnected, OnConnect, LinkUnchanged
<1>2. /\ step' = step \/ (step = "suback" /\ step' = "lost" /\ b \in Current)
      /\ step = "suback" /\ step' = "suback" /\ b \in Current => ~LinkLost(b)
  BY DEF LinkLost, Reconnected, OnConnect
<1>3. Grows
  BY <1>1, SameView
<1>4. bus \in [Buses -> BusType] /\ bus[b] \in BusType
  BY Zenon DEF DemoInv, DemoTypes
<1>5. /\ bus' \in [Buses -> BusType]
      /\ \A o \in Buses \ {b} : bus'[o] = bus[o]
      /\ bus'[b].tenant = bus[b].tenant /\ bus'[b].handler = bus[b].handler
      /\ \/ /\ LinkLost(b) /\ bus[b].link = "up"
            /\ bus'[b].link = "down" /\ bus'[b].granted = FALSE
         \/ /\ Reconnected(b) /\ bus[b].link = "down" /\ bus'[b].onConnect = TRUE
            /\ bus'[b].link = "up" /\ bus'[b].granted = bus[b].granted
         \/ /\ OnConnect(b) /\ bus[b].onConnect = TRUE /\ bus'[b].link = bus[b].link
            /\ bus'[b].granted = (bus[b].granted \/ (bus[b].handler /\ bus[b].link = "up"))
  <2>1. CASE LinkLost(b)
    BY <1>4, <2>1, Zenon DEF LinkLost, BusType
  <2>2. CASE Reconnected(b)
    BY <1>4, <2>2, Zenon DEF Reconnected, BusType
  <2>3. CASE OnConnect(b)
    BY <1>4, <2>3, Zenon DEF OnConnect, BusType
  <2> QED  BY <2>1, <2>2, <2>3, Zenon
<1>6. \A o \in Buses : bus'[o].tenant = bus[o].tenant /\ bus'[o].handler = bus[o].handler
  BY <1>5, Zenon
<1>7. DemoTypes' /\ ProcessInv'
  BY <1>1, <1>2, <1>5, Zenon DEF DemoInv, DemoTypes, ProcessInv, Phases
<1>8. StepInv' /\ OneEach'
  BY <1>1, <1>2, <1>6, TenantsKept, ZenonT(30)
<1>10. ASSUME NEW o \in Buses \ {b}
       PROVE  BusInv(o)'
  <2>1. bus'[o] = bus[o] /\ BusInv(o)
    BY <1>5, Zenon DEF DemoInv
  <2>2. step = "suback" /\ o \in building /\ bus[o].tenant = TenantOrder[at] => b \notin Current
    BY CurrentIsOne
  <2> QED  BY <1>1, <1>2, <2>1, <2>2, ZenonT(30) DEF BusInv
<1>11. BusInv(b)'
  <2>1. BusInv(b)
    BY Zenon DEF DemoInv
  <2>2. b \in building \cup agents
    BY <1>5, <2>1 DEF BusInv, Off
  <2>3. CASE LinkLost(b)
    BY <1>1, <1>5, <2>1, <2>2, <2>3 DEF BusInv, LinkLost, Reconnected
  <2>4. CASE Reconnected(b)
    BY <1>1, <1>5, <2>1, <2>2, <2>4 DEF BusInv, LinkLost, Reconnected
  <2>5. CASE OnConnect(b)
    BY <1>1, <1>2, <1>5, <2>1, <2>2, <2>5, ZenonT(30) DEF BusInv
  <2> QED  BY <2>3, <2>4, <2>5
<1>12. RowsInv'
  BY <1>1, <1>2, <1>3, RowsKept, Zenon
<1>13. AskInv'
  BY <1>1, <1>2, AskKept
<1> QED
  BY <1>7, <1>8, <1>10, <1>11, <1>12, <1>13 DEF DemoInv

\* Close disconnects every client; the topology loop may go on.
LEMMA CloseStep ==
    ASSUME ApiInv, DemoInv, Close
    PROVE  DemoInv'
<1>1. /\ building' = building /\ agents' = agents /\ at' = at /\ factory' = "closed"
      /\ UNCHANGED <<apiVars, outage>> /\ process' = "closed"
      /\ process = "ending" /\ factory = "open"
      /\ step' = IF step = "suback" THEN "lost" ELSE step
      /\ bus' = [b \in Buses |-> IF bus[b].link = "off" THEN bus[b]
                                 ELSE [bus[b] EXCEPT !.link = "off", !.granted = FALSE,
                                                     !.onConnect = FALSE]]
  BY Zenon DEF Close, CloseBuses, ProcessUnchanged, apiVars
<1>2. Grows
  BY <1>1, SameView, Zenon
<1>3. bus \in [Buses -> BusType] /\ building \subseteq Buses /\ agents \subseteq Buses
  BY Zenon DEF DemoInv, DemoTypes
<1>4. ASSUME NEW b \in Buses
      PROVE  /\ bus'[b] \in BusType /\ bus'[b].link = "off"
             /\ bus'[b].tenant = bus[b].tenant /\ bus'[b].handler = bus[b].handler
             /\ bus[b].link = "off" => bus'[b] = bus[b]
             /\ bus[b].link # "off" => bus'[b].granted = FALSE
  <2>1. bus[b] \in BusType
    BY <1>3
  <2>2. CASE bus[b].link = "off"
    BY <1>1, <2>1, <2>2, Zenon
  <2>3. CASE bus[b].link # "off"
    <3>1. bus'[b] = [bus[b] EXCEPT !.link = "off", !.granted = FALSE, !.onConnect = FALSE]
      BY <1>1, <2>3, Zenon
    <3> QED  BY <2>1, <2>3, <3>1, ZenonT(30) DEF BusType
  <2> QED  BY <2>2, <2>3, Zenon
<1>5. DemoTypes'
  BY <1>1, <1>4, ZenonT(30) DEF DemoInv, DemoTypes, Phases
<1>6. ProcessInv'
  BY <1>1, ZenonT(30) DEF DemoInv, ProcessInv
<1>7. StepInv' /\ OneEach'
  BY <1>1, <1>4, TenantsKept, ZenonT(30)
<1>9. ASSUME NEW b \in Buses
      PROVE  BusInv(b)'
  <2>1. bus[b].link # "off" => b \in building \cup agents
    BY DEF DemoInv, BusInv, Off
  <2> QED  BY <1>1, <1>4, <2>1, Zenon DEF BusInv, DemoInv
<1>10. RowsInv'
  BY <1>1, <1>2, RowsKept, ZenonT(30)
<1>11. AskInv'
  BY <1>1, AskKept, Zenon
<1> QED
  BY <1>5, <1>6, <1>7, <1>9, <1>10, <1>11 DEF DemoInv

\* The end of the process leaves nothing.
LEMMA ExitStep ==
    ASSUME ApiInv, DemoInv, Exit
    PROVE  DemoInv'
<1>1. /\ process' = "down" /\ step' = "stopped" /\ at' = 1 /\ building' = {} /\ agents' = {}
      /\ factory' = "open" /\ outage' = outage /\ bus' = [b \in Buses |-> Off]
      /\ heard' = [heard EXCEPT ![Demo] = Silent] /\ UNCHANGED Tables
      /\ call' = [k \in Calls |-> IF call[k].client = Demo THEN [call[k] EXCEPT !.client = None]
                                                           ELSE call[k]]
  BY DEF Exit, ProcessUnchanged, Tables
<1>2. Forgot(Demo)
  BY <1>1, CutView, ClientsAssumption, Zenon
<1>3. Off \in BusType /\ 1 \in 1..Len(Plan)
  BY PlanFacts DEF Off, BusType
<1>4. DemoTypes' /\ ProcessInv' /\ StepInv' /\ OneEach' /\ RowsInv'
  BY <1>1, <1>3 DEF DemoInv, DemoTypes, ProcessInv, StepInv, OneEach, RowsInv, Phases
<1>5. AskInv'
  BY <1>1, <1>2 DEF AskInv, Forgot
<1>6. \A b \in Buses : BusInv(b)'
  BY <1>1 DEF BusInv, Off
<1> QED
  BY <1>4, <1>5, <1>6 DEF DemoInv

LEMMA DemoStep ==
    ASSUME ApiInv, DemoInv, DemoNext
    PROVE  DemoInv'
<1>1. NewClient => factory = "open" \/ factory = "closed"
  BY DEF NewClient
<1>2. CASE CreateNext \/ Created \/ Commanded \/ \E i \in Devices : EmitCommand(i)
  BY <1>2, CreateNextStep, CreatedStep, CommandSteps
<1>3. CASE \/ NewClient /\ factory = "open"
           \/ Backoff \/ Published \/ RunEnds \/ Signal \/ Start
           \/ \E i \in Devices : EmitTelemetry(i)
  BY <1>3, PlainSteps
<1>4. CASE (NewClient /\ factory = "closed") \/ ConnectFails \/ SubscribeFails
  BY <1>4, DiscardSteps
<1>5. CASE Connected \/ Subscribe \/ Subscribed
  BY <1>5, ConnectedStep, SubscribeStep, SubscribedStep
<1>6. CASE \E b \in Buses : LinkLost(b) \/ Reconnected(b) \/ OnConnect(b)
  BY <1>6, LinkSteps
<1>7. CASE Close \/ Exit
  BY <1>7, CloseStep, ExitStep, Zenon
<1> QED
  BY <1>1, <1>2, <1>3, <1>4, <1>5, <1>6, <1>7, Zenon DEF DemoNext, DemoRun

LEMMA ClientsStep ==
    ASSUME ApiInv, DemoInv, NEW C, [RunningNext(C)]_vars
    PROVE  DemoInv'
<1>0. Demo \in Clients /\ Callers \subseteq Clients \ {Demo} /\ outage \in BOOLEAN
  BY ClientsAssumption DEF DemoInv, DemoTypes
<1>1. CASE UNCHANGED vars \/ OutageEnds
  <2>1. UNCHANGED apiVars /\ UNCHANGED demoVars /\ outage' \in BOOLEAN
    BY <1>0, <1>1, Zenon DEF vars, OutageEnds
  <2> QED  BY <1>0, <2>1, SameView, DemoWaits
<1>2. CASE Serve \/ (outage /\ (\E k \in Calls : Fail(k)) /\ UNCHANGED <<want, outage, demoVars>>)
  <2>1. PICK k \in Calls : Progress(k) \/ Fail(k)
    BY <1>2 DEF Serve
  <2>2. UNCHANGED demoVars /\ outage' = outage
    BY <1>2, Zenon DEF Serve
  <2>3. Grows
    BY <2>1, ServerSteps DEF ServeStep
  <2>4. Kept(Demo) \/ Answered(Demo)
    BY <1>0, <2>1, ServeView
  <2> QED  BY <1>0, <2>2, <2>3, <2>4, DemoWaits, Zenon
<1>3. CASE (\E d \in Clients : GiveUp(d)) /\ UNCHANGED <<want, outage, demoVars>>
  <2>1. PICK d \in Clients : GiveUp(d)
    BY <1>3
  <2>2. Grows /\ (Kept(Demo) \/ Answered(Demo))
    BY <1>0, <2>1, GiveUpView
  <2> QED  BY <1>0, <1>3, <2>2, DemoWaits, Zenon
<1>4. CASE DemoNext
  BY <1>4, DemoStep
<1>5. CASE \E c \in C \cap Callers : CallerNext(c)
  <2>1. PICK c \in Callers : CallerNext(c)
    BY <1>5
  <2>2. /\ \E r \in CommandRequests : Accept(c, r)
        /\ UNCHANGED demoVars /\ outage' = outage
    BY <2>1, Zenon DEF CallerNext, Retry, Ask, createCommandHandler, CallerUnchanged
  <2>3. Grows /\ Kept(Demo)
    BY <1>0, <2>2, AcceptView, CommandFacts
  <2> QED  BY <1>0, <2>2, <2>3, DemoWaits, Zenon
<1> QED
  BY <1>1, <1>2, <1>3, <1>4, <1>5, Zenon DEF RunningNext, RequestLost

LEMMA DemoStarts ==
    ASSUME NEW T, NEW D, ClientsInit(T, D)
    PROVE  DemoInv
<1>1. /\ outage = TRUE /\ process = "up" /\ step = "create" /\ at = 1 /\ building = {}
      /\ agents = {} /\ bus = [b \in Buses |-> Off] /\ factory = "open"
      /\ call = [k \in Calls |-> Free]
  BY Zenon DEF ClientsInit, DemoStart, ApiInit
<1>2. Off \in BusType /\ 1 \in 1..Len(Plan)
  BY PlanFacts DEF Off, BusType
<1>3. DemoTypes /\ ProcessInv /\ StepInv /\ OneEach
  BY <1>1, <1>2, Zenon DEF DemoTypes, ProcessInv, StepInv, OneEach, Phases
<1>4. RowsInv
  BY <1>1 DEF RowsInv
<1>5. AskInv
  BY <1>1, FreeFacts, ApiAssumption, ClientsAssumption, Zenon DEF AskInv
<1>6. \A b \in Buses : BusInv(b)
  BY <1>1 DEF BusInv, Off
<1> QED
  BY <1>3, <1>4, <1>5, <1>6 DEF DemoInv

\* What the invariant says of the agents.
LEMMA DemoIsSound ==
    ASSUME ApiInv, CallersInv, DemoInv
    PROVE  AgentsAreSound
<1>1. \A b \in Buses : BusInv(b)
  BY DEF DemoInv
<1>2. ClientsTypeOK
  <2>1. \A b \in Buses : bus[b].granted \in BOOLEAN /\ bus[b].handler \in BOOLEAN
    BY Zenon DEF DemoInv, DemoTypes, BusType
  <2>2. \A b \in Buses : bus[b].granted => bus[b].link = "up" /\ bus[b].handler
    BY <1>1, <2>1 DEF BusInv
  <2>3. factory = "busy" => step = "dial"
    BY Zenon DEF DemoInv, ProcessInv
  <2> QED  BY <2>2, <2>3, Zenon DEF ClientsTypeOK, CallersInv, DemoInv, DemoTypes, BusType, Phases
<1>3. ASSUME NEW b \in Buses, bus[b].link # "off"
      PROVE  /\ process # "closed"
             /\ b \in building \cup agents
             /\ \A o \in Buses \ {b} : bus[o].link # "off" => bus[o].tenant # bus[b].tenant
  <2>1. \A o \in Buses : bus[o].link # "off" => o \in building \cup agents
    BY <1>1 DEF BusInv, Off
  <2> QED  BY <1>1, <1>3, <2>1, Zenon DEF BusInv, DemoInv, OneEach
<1>4. ASSUME agents # {} \/ step \in {"run", "publish", "commanded"}, NEW i \in DOMAIN Plan
      PROVE  /\ Taken(Plan[i])
             /\ \E b \in agents : bus[b].tenant = Plan[i].tenant /\ bus[b].handler
  <2>1. step \in {"run", "publish", "commanded", "stopped"}
    BY <1>4, Zenon DEF DemoInv, DemoTypes, Phases, StepInv
  <2>2. Covers(agents, Len(TenantOrder)) /\ Handled(agents)
    BY <1>4, <2>1 DEF DemoInv, StepInv
  <2>3. Taken(Plan[i])
    BY <1>4, <2>1, Zenon DEF DemoInv, RowsInv
  <2>4. PICK j \in 1..Len(TenantOrder) : Plan[i].tenant = TenantOrder[j]
    BY <1>4, PlanFacts, Zenon
  <2>5. PICK b \in agents : bus[b].tenant = TenantOrder[j]
    BY <2>2, Zenon DEF Covers
  <2> QED  BY <2>2, <2>3, <2>4, <2>5, Zenon DEF Handled
<1>5. ASSUME NEW b \in agents, bus[b].link = "up", ~bus[b].onConnect
      PROVE  bus[b].granted
  <2>1. /\ b \in Buses /\ bus[b].onConnect \in BOOLEAN
        /\ bus[b].handler = TRUE /\ b \notin building
    <3>1. step \in {"run", "publish", "commanded", "stopped"}
      BY <1>5, Zenon DEF DemoInv, DemoTypes, Phases, StepInv
    <3>2. Handled(agents) /\ building = {}
      BY <1>5, <3>1, Zenon DEF DemoInv, StepInv
    <3> QED  BY <3>2, Zenon DEF Handled, DemoInv, DemoTypes, BusType
  <2>2. bus[b].onConnect = FALSE
    BY <1>5, <2>1
  <2> QED  BY <1>1, <1>5, <2>1, <2>2 DEF BusInv
<1>6. ApiTypeOK
  BY DEF ApiInv
<1> QED
  BY <1>2, <1>3, <1>4, <1>5, <1>6, Zenon DEF AgentsAreSound

\* EnsureTopology, closeAgents, mqttBus.OnConnect, mqttBusFactory.Close: however
\* often the topology is built, interrupted and torn down, for any tenants,
\* devices and MQTT clients, a tenant never has two clients that may be
\* connected, installed agents find every row of the plan, an agent on an open
\* connection is subscribed once no callback is pending, and after Close
\* nothing is connected.
THEOREM AgentsSafe ==
    ASSUME NEW T \in SUBSET Tenants, NEW D \in SUBSET (T \X DeviceNames),
           NEW C \in SUBSET Clients
    PROVE  ClientsSpec(T, D, C) => []AgentsAreSound
<1>1. ClientsInit(T, D) => DemoInv
  BY DemoStarts
<1>2. (ApiInv /\ CallersInv) /\ DemoInv /\ [RunningNext(C)]_vars => DemoInv'
  BY ClientsStep
<1>3. (ApiInv /\ CallersInv) /\ DemoInv => AgentsAreSound
  BY DemoIsSound
<1> QED
  BY <1>1, <1>2, <1>3, CallersAlways, PTL DEF ClientsSpec

=============================================================================
