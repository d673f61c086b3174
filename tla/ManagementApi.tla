---------------------------- MODULE ManagementApi ---------------------------
(***************************************************************************)
(* Creating tenants, devices and commands over the management API: the     *)
(* handlers of management-api (adminapi/server.go), the gRPC methods of    *)
(* iot-core (core/service.go) and the transactions of postgres_store.go.   *)
(*                                                                         *)
(* Every statement is a step, so requests of several clients, and requests *)
(* whose client has long given up, run side by side.  A unique index makes *)
(* an INSERT wait for the transaction that holds the key and then see what *)
(* became of it.                                                           *)
(***************************************************************************)
EXTENDS Naturals

CONSTANTS
    Tenants,
    DeviceNames,      \* device ids within a tenant
    Keys,             \* idempotency keys
    Payloads,         \* command payloads, normalised by PostgreSQL
    None,             \* no device, no key, no payload, no client, no request
    Clients,          \* who sends requests
    Calls,            \* bound: requests being served at a time
    Ids               \* bound: commands ever created, 1..n

VARIABLES
    tenants,          \* rows of tenants
    devices,          \* rows of devices, each <<tenant, device>>
    commands,         \* rows of commands: per id the request it came from
    call,             \* per request being served: how far it is
    heard             \* per client: "silent", "waiting" or the latest status

apiVars == <<tenants, devices, commands, call, heard>>

\* check says which validation a request fails: none, the service's, or the
\* store's, for a payload that PostgreSQL writes out too long.
TenantRequests ==
    [op : {"tenant"}, tenant : Tenants, device : {None}, key : {None},
     payload : {None}, check : {"ok", "service"}]
DeviceRequests ==
    [op : {"device"}, tenant : Tenants, device : DeviceNames, key : {None},
     payload : {None}, check : {"ok", "service"}]
CommandRequests ==
    [op : {"command"}, tenant : Tenants, device : DeviceNames,
     key : Keys \cup {None}, payload : Payloads, check : {"ok", "service", "store"}]
Requests == TenantRequests \cup DeviceRequests \cup CommandRequests

ASSUME ApiAssumption ==
    /\ None \notin Tenants \cup DeviceNames \cup Keys \cup Payloads \cup Clients
    /\ None \notin Requests
    /\ Ids \subseteq Nat \ {0}

Free == [pc |-> "free", client |-> None, request |-> None, id |-> 0]

-----------------------------------------------------------------------------
(* From the outcome of a transaction to the status the client sees         *)

\* The error classes of the service; anything unexpected is Internal.
mapRepoError(outcome) ==
    CASE outcome = "invalid" -> "InvalidArgument"
      [] outcome = "missing" -> "NotFound"
      [] outcome \in {"exists", "conflict"} -> "AlreadyExists"
      [] outcome = "expired" -> "DeadlineExceeded"
      [] OTHER -> "Internal"

httpStatusFromGRPC(code) ==
    CASE code = "InvalidArgument" -> 400
      [] code = "NotFound" -> 404
      [] code = "AlreadyExists" -> 409
      [] code = "DeadlineExceeded" -> 504
      [] code = "Unavailable" -> 502
      [] OTHER -> 500

\* What a handler writes; without an answer from iot-core gRPC says Unavailable.
StatusOf(outcome) ==
    IF outcome = "created" THEN 201
    ELSE httpStatusFromGRPC(IF outcome = "gone" THEN "Unavailable" ELSE mapRepoError(outcome))

Reply(status, id) == [status |-> status, id |-> id]
Silent == Reply(0, 0)
Waiting == Reply(1, 0)

\* The request ends; its client hears of it if it still listens.
Finish(k, outcome, id) ==
    /\ call' = [call EXCEPT ![k] = Free]
    /\ heard' = IF call[k].client = None THEN heard
                ELSE [heard EXCEPT ![call[k].client] =
                        Reply(StatusOf(outcome), IF outcome = "created" THEN id ELSE 0)]

Goto(k, pc) == call' = [call EXCEPT ![k].pc = pc] /\ UNCHANGED heard

-----------------------------------------------------------------------------
(* The handlers                                                            *)

ApiInit(T, D) ==
    /\ tenants = T /\ devices = D
    /\ commands = [i \in Ids |-> None]
    /\ call = [k \in Calls |-> Free]
    /\ heard = [c \in Clients |-> Silent]

\* Decoded and sent on to iot-core, under a deadline.
Accept(c, r) ==
    /\ heard[c] # Waiting
    /\ \E k \in Calls :
          /\ call[k] = Free
          /\ call' = [call EXCEPT ![k] =
                [pc |-> "service", client |-> c, request |-> r, id |-> 0]]
    /\ heard' = [heard EXCEPT ![c] = Waiting]
    /\ UNCHANGED <<tenants, devices, commands>>

createTenantHandler(c, r) == r \in TenantRequests /\ Accept(c, r)
createDeviceHandler(c, r) == r \in DeviceRequests /\ Accept(c, r)
createCommandHandler(c, r) == r \in CommandRequests /\ Accept(c, r)

Send(c, r) ==
    createTenantHandler(c, r) \/ createDeviceHandler(c, r) \/ createCommandHandler(c, r)

\* The client's or the gateway's timeout.  The cancellation reaches the
\* transaction late, or not at all if it has committed.
GiveUp(c) ==
    /\ \E k \in Calls :
          call[k].client = c /\ call' = [call EXCEPT ![k].client = None]
    /\ heard' = [heard EXCEPT ![c] = Reply(503, 0)]
    /\ UNCHANGED <<tenants, devices, commands>>

-----------------------------------------------------------------------------
(* CreateTenant, CreateDevice, CreateCommand                               *)

Serving(k, op, pc) == call[k].pc = pc /\ call[k].request.op = op

\* The service checks the request before it goes to the store.
Validated(k, op, next) ==
    /\ Serving(k, op, "service")
    /\ IF call[k].request.check = "service" THEN Finish(k, "invalid", 0) ELSE Goto(k, next)
    /\ UNCHANGED <<tenants, devices, commands>>

CreateTenant(k) == Validated(k, "tenant", "insert")
CreateDevice(k) == Validated(k, "device", "parent")
CreateCommand(k) == Validated(k, "command", "parent")

\* The row a command or a device hangs on is looked up first.
RequireParent(k, op, exists) ==
    /\ Serving(k, op, "parent")
    /\ IF exists THEN Goto(k, "insert") ELSE Finish(k, "missing", 0)
    /\ UNCHANGED <<tenants, devices, commands>>

requireTenant(k) == RequireParent(k, "device", call[k].request.tenant \in tenants)
requireDevice(k) ==
    RequireParent(k, "command", <<call[k].request.tenant, call[k].request.device>> \in devices)

\* The primary keys, and the partial unique index on (tenant_id, idempotency_key).
SameKey(r, s) ==
    /\ r.op = s.op
    /\ r.tenant = s.tenant
    /\ r.op = "device" => r.device = s.device
    /\ r.op = "command" => r.key = s.key /\ r.key # None

Holding(k) == {j \in Calls \ {k} : call[j].pc = "commit" /\ SameKey(call[j].request, call[k].request)}

StoredAs(r) == {i \in Ids : commands[i] # None /\ SameKey(commands[i], r)}

Taken(r) ==
    CASE r.op = "tenant" -> r.tenant \in tenants
      [] r.op = "device" -> <<r.tenant, r.device>> \in devices
      [] r.op = "command" -> StoredAs(r) # {}

\* The uuids not in use; a new command takes the least one.
Fresh == {i \in Ids : commands[i] = None /\ \A j \in Calls : call[j].id # i}

\* An INSERT goes on when no other transaction holds its key.
Inserting(k, op) == Serving(k, op, "insert") /\ Holding(k) = {}

InsertRow(k, op) ==
    /\ Inserting(k, op)
    /\ IF Taken(call[k].request) THEN Finish(k, "exists", 0) ELSE Goto(k, "commit")
    /\ UNCHANGED <<tenants, devices, commands>>

CreateTenantContext(k) == InsertRow(k, "tenant")
CreateDeviceContext(k) == InsertRow(k, "device")

InsertCommand(k) ==
    /\ IF call[k].request.check = "store" THEN Finish(k, "invalid", 0)
       ELSE IF Taken(call[k].request) THEN Goto(k, "select")
       ELSE /\ \E i \in Fresh :
                  /\ \A j \in Fresh : i <= j
                  /\ call' = [call EXCEPT ![k].pc = "commit", ![k].id = i]
            /\ UNCHANGED heard
    /\ UNCHANGED <<tenants, devices, commands>>

\* Seeded fault: the key is looked up before the INSERT instead of being left
\* to the index.
InsertChecked(k) == Serving(k, "command", "insert") /\ InsertCommand(k)

\* The stored form of the payload is checked, then INSERT ... ON CONFLICT DO
\* NOTHING.
CreateCommandWithKey(k) == Inserting(k, "command") /\ InsertCommand(k)

Matches(r, s) == r.device = s.device /\ r.payload = s.payload

\* Seeded fault: the command of the key is returned whatever it says.
SelectUnmatched(k) ==
    /\ call[k].pc = "select"
    /\ \E i \in StoredAs(call[k].request) :
          call' = [call EXCEPT ![k].pc = "found", ![k].id = i] /\ UNCHANGED heard
    /\ UNCHANGED <<tenants, devices, commands>>

\* Seeded fault: a command that is not the same one is inserted again.
SelectStartsOver(k) ==
    /\ call[k].pc = "select"
    /\ \E i \in StoredAs(call[k].request) :
          IF Matches(commands[i], call[k].request)
          THEN call' = [call EXCEPT ![k].pc = "found", ![k].id = i] /\ UNCHANGED heard
          ELSE Goto(k, "insert")
    /\ UNCHANGED <<tenants, devices, commands>>

\* The INSERT returned no row: the command of the key, if it is the
\* same one.
Select(k) ==
    /\ call[k].pc = "select"
    /\ \E i \in StoredAs(call[k].request) :
          IF Matches(commands[i], call[k].request)
          THEN call' = [call EXCEPT ![k].pc = "found", ![k].id = i] /\ UNCHANGED heard
          ELSE Finish(k, "conflict", 0)
    /\ UNCHANGED <<tenants, devices, commands>>

Store(r, i) ==
    /\ tenants' = IF r.op = "tenant" THEN tenants \cup {r.tenant} ELSE tenants
    /\ devices' = IF r.op = "device" THEN devices \cup {<<r.tenant, r.device>>} ELSE devices
    /\ commands' = IF r.op = "command" THEN [commands EXCEPT ![i] = r] ELSE commands

\* An error on COMMIT may come after the rows became visible.
Commit(k) ==
    /\ call[k].pc = "commit"
    /\ Store(call[k].request, call[k].id)
    /\ Finish(k, "created", call[k].id) \/ Finish(k, "internal", 0)

CommitFound(k) ==
    /\ call[k].pc = "found"
    /\ Finish(k, "created", call[k].id)
    /\ UNCHANGED <<tenants, devices, commands>>

\* Any statement fails, the deadline of the request passes, or iot-core dies:
\* the transaction is rolled back.
Fail(k) ==
    /\ call[k].pc # "free"
    /\ \E outcome \in {"internal", "expired", "gone"} : Finish(k, outcome, 0)
    /\ UNCHANGED <<tenants, devices, commands>>

Progress(k) ==
    \/ CreateTenant(k) \/ CreateDevice(k) \/ CreateCommand(k)
    \/ requireTenant(k) \/ requireDevice(k)
    \/ CreateTenantContext(k) \/ CreateDeviceContext(k)
    \/ CreateCommandWithKey(k) \/ Select(k) \/ Commit(k) \/ CommitFound(k)

-----------------------------------------------------------------------------
(* Properties                                                              *)

Replies == [status : {0, 1, 201, 400, 404, 409, 500, 502, 503, 504}, id : Ids \cup {0}]

\* Type invariant: what is stored came from a valid request, every parent is
\* there, and a client that waits has exactly one request being served.
ApiTypeOK ==
    /\ tenants \subseteq Tenants
    /\ devices \subseteq tenants \X DeviceNames
    /\ commands \in [Ids -> CommandRequests \cup {None}]
    /\ \A i \in Ids : commands[i] # None =>
          commands[i].check = "ok" /\ <<commands[i].tenant, commands[i].device>> \in devices
    /\ call \in [Calls -> {Free} \cup
          [pc : {"service", "parent", "insert", "select", "commit", "found"},
           client : Clients \cup {None}, request : Requests, id : Ids \cup {0}]]
    /\ heard \in [Clients -> Replies]
    /\ \A c \in Clients : heard[c] = Waiting <=> \E k \in Calls : call[k].client = c
    /\ \A j, k \in Calls : call[j].client = call[k].client => j = k \/ call[k].client = None

\* CreateCommandWithKey: however requests with one key overlap, fail and are
\* repeated, the tenant has at most one command for it, counting those about
\* to be committed.
OneCommandPerKey ==
    /\ \A i, j \in Ids :
          (commands[i] # None /\ commands[j] # None /\ SameKey(commands[i], commands[j]))
             => i = j
    /\ \A k \in Calls :
          call[k].pc = "commit" => Holding(k) = {} /\ ~Taken(call[k].request)

=============================================================================
