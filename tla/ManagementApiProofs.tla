------------------------- MODULE ManagementApiProofs ------------------------
(***************************************************************************)
(* Proofs about ManagementApi, for any number of requests served at a time *)
(* and any clients.                                                        *)
(*                                                                         *)
(* A step adds rows, never takes one away, and either changes no claim on  *)
(* a key, or claims a free one, or turns a claim into a row.  What a       *)
(* client sees of a step is one of four things: nothing, its answer, that  *)
(* its request was accepted, or that its answer is gone.                   *)
(***************************************************************************)
EXTENDS ManagementApi, TLAPS

-----------------------------------------------------------------------------
(* Requests                                                                *)

\* What each kind of request carries.
LEMMA RequestFacts ==
    ASSUME NEW r \in Requests
    PROVE  /\ r # None
           /\ r.op \in {"tenant", "device", "command"}
           /\ r.tenant \in Tenants
           /\ r.op = "tenant" => r \in TenantRequests
           /\ r.op = "device" => r \in DeviceRequests /\ r.device \in DeviceNames
           /\ r.op = "command" => r \in CommandRequests /\ r.device \in DeviceNames
           /\ r.op # "command" => r.check # "store"
           /\ r.check \in {"ok", "service", "store"}
<1>1. r # None
  BY ApiAssumption
<1>2. CASE r \in TenantRequests
  BY <1>1, <1>2 DEF TenantRequests
<1>3. CASE r \in DeviceRequests
  BY <1>1, <1>3 DEF DeviceRequests
<1>4. CASE r \in CommandRequests
  BY <1>1, <1>4 DEF CommandRequests
<1> QED
  BY <1>2, <1>3, <1>4 DEF Requests

\* A command is one of the requests.
LEMMA CommandFacts ==
    ASSUME NEW r \in CommandRequests
    PROVE  r \in Requests /\ r.op = "command"
BY DEF CommandRequests, Requests

-----------------------------------------------------------------------------
(* Requests being served                                                   *)

Work == [pc : {"service", "parent", "insert", "select", "commit", "found"},
         client : Clients \cup {None}, request : Requests, id : Ids \cup {0}]

LEMMA FreeFacts ==
    /\ Free.pc = "free" /\ Free.client = None /\ Free.request = None /\ Free.id = 0
    /\ Free \notin Work
BY DEF Free, Work

LEMMA WorkFacts ==
    ASSUME ApiTypeOK, NEW k \in Calls
    PROVE  /\ call[k] = Free \/ call[k] \in Work
           /\ call[k].pc = "free" <=> call[k] = Free
           /\ call[k].pc # "free" => call[k] \in Work /\ call[k].request \in Requests
           /\ call[k].client \in Clients \cup {None}
           /\ call[k].id \in Ids \cup {0}
           /\ call[k].client # None => call[k].pc # "free"
<1>1. call[k] = Free \/ call[k] \in Work
  BY DEF ApiTypeOK, Work
<1>2. CASE call[k] = Free
  BY <1>2, FreeFacts
<1>3. CASE call[k] \in Work
  BY <1>3, FreeFacts DEF Work
<1> QED
  BY <1>1, <1>2, <1>3

\* What a request being served has been through.
CallInv(k) ==
    LET r == call[k].request
        pc == call[k].pc
    IN /\ pc \notin {"free", "service"} => r.check # "service"
       /\ pc \in {"insert", "select", "commit", "found"} =>
             /\ r.op = "device" => r.tenant \in tenants
             /\ r.op = "command" => <<r.tenant, r.device>> \in devices
       /\ pc \in {"select", "commit", "found"} => r.check = "ok"
       /\ pc \in {"select", "found"} => r.op = "command"
       /\ pc = "commit" /\ r.op = "command" =>
             /\ call[k].id \in Ids /\ commands[call[k].id] = None
             /\ \A j \in Calls \ {k} : call[j].id # call[k].id
       /\ pc = "found" => call[k].id \in Ids /\ commands[call[k].id] = r

ApiInv == ApiTypeOK /\ OneCommandPerKey /\ \A k \in Calls : CallInv(k)

-----------------------------------------------------------------------------
(* Clients and the requests served for them                                *)

ServeTypes ==
    /\ call \in [Calls -> {Free} \cup Work]
    /\ heard \in [Clients -> Replies]
    /\ \A c \in Clients : heard[c] = Waiting <=> \E k \in Calls : call[k].client = c
    /\ \A j, k \in Calls : call[j].client = call[k].client => j = k \/ call[k].client = None

TableTypes ==
    /\ tenants \subseteq Tenants
    /\ devices \subseteq tenants \X DeviceNames
    /\ commands \in [Ids -> CommandRequests \cup {None}]
    /\ \A i \in Ids : commands[i] # None =>
          commands[i].check = "ok" /\ <<commands[i].tenant, commands[i].device>> \in devices

LEMMA TypeParts == ApiTypeOK <=> TableTypes /\ ServeTypes
BY Zenon DEF ApiTypeOK, TableTypes, ServeTypes, Work

LEMMA TypePartsNext == TableTypes' /\ ServeTypes' => ApiTypeOK'
BY Zenon DEF ApiTypeOK, TableTypes, ServeTypes, Work

Outcomes == {"created", "invalid", "missing", "exists", "conflict", "internal", "expired", "gone"}

\* The status of each outcome; none of them reads as silence or waiting.
LEMMA StatusFacts ==
    /\ StatusOf("created") = 201
    /\ StatusOf("invalid") = 400 /\ StatusOf("missing") = 404
    /\ StatusOf("exists") = 409 /\ StatusOf("conflict") = 409
    /\ StatusOf("internal") = 500 /\ StatusOf("expired") = 504 /\ StatusOf("gone") = 502
BY DEF StatusOf, httpStatusFromGRPC, mapRepoError

LEMMA ReplyFacts ==
    /\ \A outcome \in Outcomes, i \in Ids \cup {0} :
          Reply(StatusOf(outcome), i) \in Replies /\ Reply(StatusOf(outcome), i) # Waiting
    /\ Silent \in Replies /\ Waiting \in Replies /\ Reply(503, 0) \in Replies
    /\ Silent # Waiting /\ Reply(503, 0) # Waiting
    /\ Silent.status = 0 /\ Waiting.status = 1
    /\ \A s, i : Reply(s, i).status = s /\ Reply(s, i).id = i
<1>1. \A outcome \in Outcomes : StatusOf(outcome) \in {201, 400, 404, 409, 500, 502, 504}
  BY StatusFacts DEF Outcomes
<1>2. \A s, i : Reply(s, i).status = s /\ Reply(s, i).id = i
  BY DEF Reply
<1>3. /\ Silent.status = 0 /\ Waiting.status = 1
      /\ Silent # Waiting /\ Reply(503, 0) # Waiting
  BY DEF Reply, Silent, Waiting
<1>4. Silent \in Replies /\ Waiting \in Replies /\ Reply(503, 0) \in Replies
  BY DEF Reply, Silent, Waiting, Replies
<1>5. ASSUME NEW outcome \in Outcomes, NEW i \in Ids \cup {0}
      PROVE  Reply(StatusOf(outcome), i) \in Replies /\ Reply(StatusOf(outcome), i) # Waiting
  BY <1>1, <1>2, <1>3 DEF Reply, Replies
<1> QED
  BY <1>2, <1>3, <1>4, <1>5

-----------------------------------------------------------------------------
(* The tables and the keys being claimed                                   *)

Tables == <<tenants, devices, commands>>

\* Rows are added, never changed or taken away.
Grows ==
    /\ tenants \subseteq tenants' /\ devices \subseteq devices'
    /\ \A i \in Ids : commands[i] # None => commands'[i] = commands[i]

LEMMA TakenGrows ==
    ASSUME Grows, NEW r \in Requests, Taken(r)
    PROVE  Taken(r)'
<1>1. r.op \in {"tenant", "device", "command"}
  BY RequestFacts
<1>2. \A i \in StoredAs(r) : i \in StoredAs(r)'
  BY DEF StoredAs, Grows
<1> QED
  BY <1>1, <1>2, Zenon DEF Taken, Grows

\* A step that claims no key leaves one command per key.
LEMMA NoNewClaim ==
    ASSUME OneCommandPerKey, UNCHANGED Tables,
           \A j \in Calls : call'[j].pc = "commit" =>
              call[j].pc = "commit" /\ call'[j].request = call[j].request
    PROVE  OneCommandPerKey'
<1>1. tenants' = tenants /\ devices' = devices /\ commands' = commands
  BY DEF Tables
<1>2. ASSUME NEW j \in Calls, call'[j].pc = "commit"
      PROVE  Holding(j)' = {} /\ ~Taken(call[j].request)'
  <2>1. call[j].pc = "commit" /\ call'[j].request = call[j].request
    BY <1>2
  <2>2. Holding(j) = {} /\ ~Taken(call[j].request)
    BY <2>1 DEF OneCommandPerKey
  <2>3. Holding(j)' \subseteq Holding(j)
    BY <2>1 DEF Holding
  <2>4. ~Taken(call[j].request)'
    BY <1>1, <2>1, <2>2, Zenon DEF Taken, StoredAs
  <2> QED  BY <2>2, <2>3, <2>4
<1> QED
  BY <1>1, <1>2 DEF OneCommandPerKey

-----------------------------------------------------------------------------
(* One step of the server                                                  *)

\* The others keep what they have been through.
LEMMA CallKept ==
    ASSUME ApiInv, NEW j \in Calls, Grows,
           call'[j].pc = call[j].pc, call'[j].request = call[j].request,
           call'[j].id = call[j].id,
           call[j].pc = "commit" /\ call[j].request.op = "command" =>
              /\ commands'[call[j].id] = commands[call[j].id]
              /\ \A m \in Calls \ {j} : call'[m].id # call[j].id
    PROVE  CallInv(j)'
<1>1. CallInv(j) /\ call[j].pc # "free" => call[j].request \in Requests
  BY WorkFacts DEF ApiInv
<1>2. CallInv(j)
  BY DEF ApiInv
<1>3. commands[call[j].id] # None /\ call[j].id \in Ids =>
         commands'[call[j].id] = commands[call[j].id]
  BY DEF Grows
<1>4. call[j].pc = "found" => call[j].request # None
  BY <1>1, <1>2, ApiAssumption
<1> QED
  BY <1>2, <1>3, <1>4, SMTT(30) DEF CallInv, Grows

\* Without a change of the tables, and when no other request takes its id.
LEMMA CallKeptQuietly ==
    ASSUME ApiInv, NEW j \in Calls, UNCHANGED Tables,
           call'[j].pc = call[j].pc, call'[j].request = call[j].request,
           call'[j].id = call[j].id,
           \A m \in Calls \ {j} :
              \/ call'[m].id = call[m].id
              \/ call'[m].id = 0
              \/ call'[m].id \in Fresh
              \/ call'[m].id \in Ids /\ commands[call'[m].id] # None
    PROVE  CallInv(j)' /\ Grows
<1>1. Grows
  BY DEF Grows, Tables
<1>2. ASSUME call[j].pc = "commit" /\ call[j].request.op = "command"
      PROVE  /\ commands'[call[j].id] = commands[call[j].id]
             /\ \A m \in Calls \ {j} : call'[m].id # call[j].id
  <2>1. /\ call[j].id \in Ids /\ commands[call[j].id] = None
        /\ \A m \in Calls \ {j} : call[m].id # call[j].id
    BY <1>2, Zenon DEF ApiInv, CallInv
  <2>2. 0 \notin Ids
    BY ApiAssumption
  <2>3. \A i \in Fresh : i # call[j].id
    BY DEF Fresh
  <2> QED  BY <2>1, <2>2, <2>3 DEF Tables
<1> QED
  BY <1>1, <1>2, CallKept

\* What the client is told is so.
Told(reply, r) ==
    /\ reply.status \in {201, 409} /\ r.op # "command" => Taken(r)
    /\ reply.status = 201 /\ r.op = "command" => reply.id \in Ids /\ commands[reply.id] = r
    /\ reply.status = 409 /\ r.op = "command" =>
          \E i \in StoredAs(r) : ~Matches(commands[i], r)

\* What a step of the server does to the request it serves and its client.
Ends(k, r) ==
    /\ call'[k] = Free
    /\ \E reply \in Replies :
          /\ reply.status \notin {0, 1}
          /\ \A c \in Clients : heard'[c] = IF call[k].client = c THEN reply ELSE heard[c]
          /\ Told(reply, r)'

Moves(k) ==
    /\ call'[k].client = call[k].client /\ call'[k].request = call[k].request
    /\ heard' = heard

ServeStep(k, r) ==
    /\ ApiInv' /\ Grows
    /\ \A j \in Calls \ {k} : call'[j] = call[j]
    /\ Ends(k, r) \/ Moves(k)

\* Every step of the server keeps the tables and the requests in order, and
\* what it tells a client is so.
LEMMA ServerSteps ==
    \A k \in Calls : \A r :
        /\ ApiInv
        /\ r = call[k].request
        /\ Progress(k) \/ Fail(k)
        => ServeStep(k, r)
  \* Sharing a key goes both ways.
<1>SameKeySym.
      ASSUME NEW r, NEW s, SameKey(r, s)
      PROVE  SameKey(s, r)
  BY <1>SameKeySym DEF SameKey
  \* A request ends: its place is free and its client, if it still listens, has
  \* the answer.
<1>FinishEffect.
      ASSUME ServeTypes, NEW k \in Calls, NEW outcome \in Outcomes, NEW id \in Ids \cup {0},
             Finish(k, outcome, id)
      PROVE  /\ call'[k] = Free /\ \A j \in Calls \ {k} : call'[j] = call[j]
             /\ \A c \in Clients : heard'[c] =
                   IF call[k].client = c
                   THEN Reply(StatusOf(outcome), IF outcome = "created" THEN id ELSE 0)
                   ELSE heard[c]
             /\ call' \in [Calls -> {Free} \cup Work]
             /\ heard' \in [Clients -> Replies]
  <2> USE <1>FinishEffect
  <2> DEFINE reply == Reply(StatusOf(outcome), IF outcome = "created" THEN id ELSE 0)
  <2>1. reply \in Replies
    BY ReplyFacts
  <2>2. call' = [call EXCEPT ![k] = Free]
    BY DEF Finish
  <2>3. heard' = IF call[k].client = None THEN heard ELSE [heard EXCEPT ![call[k].client] = reply]
    BY DEF Finish
  <2>4. None \notin Clients
    BY ApiAssumption
  <2> HIDE DEF reply
  <2>5. \A c \in Clients : heard'[c] = IF call[k].client = c THEN reply ELSE heard[c]
    BY <2>3, <2>4 DEF ServeTypes
  <2>6. heard' \in [Clients -> Replies]
    BY <2>1, <2>3, Zenon DEF ServeTypes
  <2>7. /\ call'[k] = Free /\ \A j \in Calls \ {k} : call'[j] = call[j]
        /\ call' \in [Calls -> {Free} \cup Work]
    BY <2>2 DEF ServeTypes
  <2> QED
    BY <2>5, <2>6, <2>7 DEF reply
<1>FinishTyped.
      ASSUME ServeTypes, NEW k \in Calls, NEW outcome \in Outcomes, NEW id \in Ids \cup {0},
             Finish(k, outcome, id)
      PROVE  ServeTypes'
  <2> USE <1>FinishTyped
  <2>1. Free.client = None /\ None \notin Clients
    BY FreeFacts, ApiAssumption
  <2>2. Reply(StatusOf(outcome), IF outcome = "created" THEN id ELSE 0) # Waiting
    BY ReplyFacts
  <2> DEFINE reply == Reply(StatusOf(outcome), IF outcome = "created" THEN id ELSE 0)
  <2>3. /\ call'[k] = Free /\ \A j \in Calls \ {k} : call'[j] = call[j]
        /\ \A c \in Clients : heard'[c] = IF call[k].client = c THEN reply ELSE heard[c]
        /\ call' \in [Calls -> {Free} \cup Work]
        /\ heard' \in [Clients -> Replies]
    BY <1>FinishEffect
  <2>4. Waiting' = Waiting
    BY DEF Waiting, Reply
  <2> HIDE DEF reply
  <2>5. \A c \in Clients : heard'[c] = Waiting <=> \E j \in Calls : call'[j].client = c
    BY <2>1, <2>2, <2>3 DEF ServeTypes, reply
  <2>6. \A i, j \in Calls : call'[i].client = call'[j].client => i = j \/ call'[j].client = None
    BY <2>1, <2>3 DEF ServeTypes
  <2> QED
    BY <2>3, <2>4, <2>5, <2>6 DEF ServeTypes
  \* Nothing changes for the clients while each request keeps its own.
<1>SameClients.
      ASSUME ServeTypes, call' \in [Calls -> {Free} \cup Work], heard' = heard,
             \A j \in Calls : call'[j].client = call[j].client
      PROVE  ServeTypes'
  <2> USE <1>SameClients
  <2>1. Waiting' = Waiting
    BY DEF Waiting, Reply
  <2>2. \A c \in Clients : heard'[c] = Waiting <=> \E j \in Calls : call'[j].client = c
    BY DEF ServeTypes
  <2>3. \A i, j \in Calls : call'[i].client = call'[j].client => i = j \/ call'[j].client = None
    BY DEF ServeTypes
  <2> QED
    BY <2>1, <2>2, <2>3 DEF ServeTypes
  \* A request goes on to another statement.
<1>GotoEffect.
      ASSUME ServeTypes, NEW k \in Calls, call[k].pc # "free",
             NEW pc \in {"parent", "insert", "select", "commit", "found"}, Goto(k, pc)
      PROVE  /\ call'[k].pc = pc /\ call'[k].client = call[k].client
             /\ call'[k].request = call[k].request /\ call'[k].id = call[k].id
             /\ \A j \in Calls \ {k} : call'[j] = call[j]
             /\ heard' = heard
             /\ ServeTypes'
  <2> USE <1>GotoEffect
  <2>1. call[k] \in Work /\ call \in [Calls -> {Free} \cup Work]
    BY FreeFacts DEF ServeTypes
  <2> DEFINE new == [call[k] EXCEPT !.pc = pc]
  <2>2. call' = [call EXCEPT ![k] = new] /\ heard' = heard
    BY <2>1, Zenon DEF Goto
  <2>3. /\ new \in Work /\ new.pc = pc /\ new.client = call[k].client
        /\ new.request = call[k].request /\ new.id = call[k].id
    BY <2>1 DEF Work
  <2> HIDE DEF new
  <2>4. /\ call'[k] = new /\ \A j \in Calls \ {k} : call'[j] = call[j]
        /\ call' \in [Calls -> {Free} \cup Work]
    BY <2>1, <2>2, <2>3
  <2>5. ServeTypes'
    BY <2>2, <2>3, <2>4, <1>SameClients
  <2> QED
    BY <2>2, <2>3, <2>4, <2>5
  \* It goes on with the id of a command.
<1>TakeEffect.
      ASSUME ServeTypes, NEW k \in Calls, call[k].pc # "free",
             NEW pc \in {"commit", "found"}, NEW i \in Ids, UNCHANGED heard,
             call' = [call EXCEPT ![k].pc = pc, ![k].id = i]
      PROVE  /\ call'[k].pc = pc /\ call'[k].client = call[k].client
             /\ call'[k].request = call[k].request /\ call'[k].id = i
             /\ \A j \in Calls \ {k} : call'[j] = call[j]
             /\ ServeTypes'
  <2> USE <1>TakeEffect
  <2>1. call[k] \in Work /\ call \in [Calls -> {Free} \cup Work]
    BY FreeFacts DEF ServeTypes
  <2> DEFINE new == [call[k] EXCEPT !.pc = pc, !.id = i]
  <2>2. call' = [call EXCEPT ![k] = new]
    BY <2>1, Zenon
  <2>3. /\ new \in Work /\ new.pc = pc /\ new.client = call[k].client
        /\ new.request = call[k].request /\ new.id = i
    BY <2>1, Zenon DEF Work
  <2> HIDE DEF new
  <2>4. /\ call'[k] = new /\ \A j \in Calls \ {k} : call'[j] = call[j]
        /\ call' \in [Calls -> {Free} \cup Work]
    BY <2>1, <2>2, <2>3, ZenonT(30)
  <2>5. ServeTypes'
    BY <2>3, <2>4, <1>SameClients
  <2> QED
    BY <2>3, <2>4, <2>5
  \* A request ends without a change of the tables.
<1>EndStep.
      ASSUME ApiInv, NEW k \in Calls, UNCHANGED Tables, NEW r, r = call[k].request,
             NEW outcome \in Outcomes, NEW id \in Ids \cup {0}, Finish(k, outcome, id),
             Told(Reply(StatusOf(outcome), IF outcome = "created" THEN id ELSE 0), r)
      PROVE  ServeStep(k, r)
  <2> USE <1>EndStep
  <2> DEFINE reply == Reply(StatusOf(outcome), IF outcome = "created" THEN id ELSE 0)
  <2>0. ServeTypes /\ TableTypes /\ OneCommandPerKey
    BY TypeParts DEF ApiInv
  <2>1. /\ call'[k] = Free /\ \A j \in Calls \ {k} : call'[j] = call[j]
        /\ \A c \in Clients : heard'[c] = IF call[k].client = c THEN reply ELSE heard[c]
    BY <2>0, <1>FinishEffect
  <2>2. ServeTypes'
    BY <2>0, <1>FinishTyped
  <2>3. TableTypes'
    BY <2>0 DEF TableTypes, Tables
  <2>4. OneCommandPerKey'
    BY <2>0, <2>1, FreeFacts, NoNewClaim
  <2>5. ASSUME NEW j \in Calls
        PROVE  CallInv(j)' /\ Grows
    <3>1. CASE j = k
      BY <2>1, <3>1, FreeFacts DEF CallInv, Grows, Tables
    <3>2. CASE j # k
      BY <2>1, <3>2, FreeFacts, CallKeptQuietly
    <3> QED  BY <3>1, <3>2
  <2>6. reply \in Replies /\ reply.status \notin {0, 1}
    BY ReplyFacts, StatusFacts DEF Outcomes
  <2>7. Told(reply, r)
    OBVIOUS
  <2> HIDE DEF reply
  <2>8. PICK a \in Replies : a = reply
    BY <2>6
  <2>9. Told(a, r)'
    <3>1. tenants' = tenants /\ devices' = devices /\ commands' = commands
      BY DEF Tables
    <3>2. StoredAs(r)' = StoredAs(r)
      BY <3>1 DEF StoredAs
    <3>3. Taken(r)' <=> Taken(r)
      BY <3>1, <3>2, Zenon DEF Taken
    <3>4. Told(a, r)
      BY <2>7, <2>8
    <3> QED  BY <3>1, <3>2, <3>3, <3>4 DEF Told
  <2>10. Ends(k, r)
    BY <2>1, <2>6, <2>8, <2>9, Zenon DEF Ends
  <2> QED
    BY <2>1, <2>2, <2>3, <2>4, <2>5, <2>10, TypePartsNext DEF ServeStep, ApiInv
  \* A request goes on, with its place in the protocol and its key in order.
<1>MoveStep.
        \A k \in Calls : \A r :
            /\ ApiInv
            /\ UNCHANGED Tables
            /\ call'[k].client = call[k].client
            /\ call'[k].request = call[k].request
            /\ \/ call'[k].id = call[k].id
               \/ call'[k].id \in Fresh
               \/ call'[k].id \in Ids /\ commands[call'[k].id] # None
            /\ \A j \in Calls \ {k} : call'[j] = call[j]
            /\ heard' = heard
            /\ ServeTypes'
            /\ CallInv(k)'
            /\ call'[k].pc = "commit" => Holding(k) = {} /\ ~Taken(call[k].request)
            => ServeStep(k, r)
      \* An INSERT that nobody held up claims a free key.
  <2>NewClaim.
        ASSUME OneCommandPerKey, UNCHANGED Tables, NEW k \in Calls,
               \A j \in Calls \ {k} : call'[j] = call[j],
               call'[k].request = call[k].request,
               Holding(k) = {}, ~Taken(call[k].request)
        PROVE  OneCommandPerKey'
    <3> USE <2>NewClaim
    <3>1. tenants' = tenants /\ devices' = devices /\ commands' = commands
      BY DEF Tables
    <3>2. ASSUME NEW j \in Calls, call'[j].pc = "commit"
          PROVE  Holding(j)' = {} /\ ~Taken(call[j].request)'
      <4>1. call'[j].request = call[j].request
        BY <3>2
      <4>2. ~Taken(call[j].request)
        BY <3>2 DEF OneCommandPerKey
      <4>3. ~Taken(call[j].request)'
        BY <3>1, <4>1, <4>2, Zenon DEF Taken, StoredAs
      <4>4. CASE j = k
        <5>1. Holding(k)' \subseteq Holding(k)
          BY DEF Holding
        <5> QED  BY <4>3, <4>4, <5>1
      <4>5. CASE j # k
        <5>1. call[j].pc = "commit" /\ Holding(j) = {}
          BY <3>2, <4>5 DEF OneCommandPerKey
        <5>2. ~SameKey(call[j].request, call[k].request)
          BY <4>5, <5>1 DEF Holding
        <5>3. ~SameKey(call[k].request, call[j].request)
          BY <5>2, <1>SameKeySym
        <5>4. Holding(j)' \subseteq Holding(j)
          BY <4>1, <4>5, <5>3 DEF Holding
        <5> QED  BY <4>3, <5>1, <5>4
      <4> QED  BY <4>4, <4>5
    <3> QED
      BY <3>1, <3>2 DEF OneCommandPerKey
  <2> SUFFICES ASSUME ApiInv, NEW k \in Calls, UNCHANGED Tables, NEW r,
                      call'[k].client = call[k].client, call'[k].request = call[k].request,
                      \/ call'[k].id = call[k].id
                      \/ call'[k].id \in Fresh
                      \/ call'[k].id \in Ids /\ commands[call'[k].id] # None,
                      \A j \in Calls \ {k} : call'[j] = call[j], heard' = heard, ServeTypes',
                      CallInv(k)',
                      call'[k].pc = "commit" => Holding(k) = {} /\ ~Taken(call[k].request)
               PROVE  ServeStep(k, r)
    OBVIOUS
  <2>0. ServeTypes /\ TableTypes /\ OneCommandPerKey
    BY TypeParts DEF ApiInv
  <2>2. TableTypes'
    BY <2>0 DEF TableTypes, Tables
  <2>3. OneCommandPerKey'
    <3>1. CASE call'[k].pc = "commit"
      BY <2>0, <3>1, <2>NewClaim
    <3>2. CASE call'[k].pc # "commit"
      BY <2>0, <3>2, NoNewClaim
    <3> QED  BY <3>1, <3>2
  <2>4. ASSUME NEW j \in Calls \ {k}
        PROVE  CallInv(j)'
    BY CallKeptQuietly
  <2>5. Grows
    BY DEF Grows, Tables
  <2> QED
    BY <2>2, <2>3, <2>4, <2>5, TypePartsNext DEF ServeStep, ApiInv, Moves
  \* The service and the lookup of the parent row.
<1>CheckSteps.
      ASSUME ApiInv, NEW k \in Calls, NEW r, r = call[k].request,
             \/ CreateTenant(k) \/ CreateDevice(k) \/ CreateCommand(k)
             \/ requireTenant(k) \/ requireDevice(k)
      PROVE  ServeStep(k, r)
  <2> USE <1>CheckSteps
  <2>0. /\ call[k].pc \in {"service", "parent"} /\ UNCHANGED Tables /\ call[k].pc # "free"
        /\ CallInv(k) /\ ServeTypes
    BY TypeParts DEF CreateTenant, CreateDevice, CreateCommand, requireTenant, requireDevice, Validated,
       RequireParent, Serving, Tables, ApiInv
  <2>1. \/ Finish(k, "invalid", 0)
        \/ Finish(k, "missing", 0)
        \/ Goto(k, "parent") /\ r.check # "service"
        \/ /\ Goto(k, "insert") /\ r.check # "service"
           /\ r.op = "device" => r.tenant \in tenants
           /\ r.op = "command" => <<r.tenant, r.device>> \in devices
    <3>1. CASE CreateTenant(k) \/ CreateDevice(k) \/ CreateCommand(k)
      BY <3>1, Zenon DEF CreateTenant, CreateDevice, CreateCommand, Validated, Serving
    <3>2. CASE requireTenant(k) \/ requireDevice(k)
      BY <2>0, <3>2 DEF requireTenant, requireDevice, RequireParent, Serving, CallInv
    <3> QED  BY <3>1, <3>2
  <2>2. CASE Finish(k, "invalid", 0)
    <3>1. Told(Reply(StatusOf("invalid"), IF "invalid" = "created" THEN 0 ELSE 0), r)
      BY StatusFacts, ReplyFacts DEF Told
    <3> QED  BY <2>0, <2>2, <3>1, <1>EndStep, Zenon DEF Outcomes
  <2>3. CASE Finish(k, "missing", 0)
    <3>1. Told(Reply(StatusOf("missing"), IF "missing" = "created" THEN 0 ELSE 0), r)
      BY StatusFacts, ReplyFacts DEF Told
    <3> QED  BY <2>0, <2>3, <3>1, <1>EndStep, Zenon DEF Outcomes
  <2>4. CASE Goto(k, "parent") /\ r.check # "service"
    <3>1. /\ call'[k].pc = "parent" /\ call'[k].client = call[k].client
          /\ call'[k].request = r /\ call'[k].id = call[k].id
          /\ \A j \in Calls \ {k} : call'[j] = call[j]
          /\ heard' = heard /\ ServeTypes'
      BY <2>0, <2>4, <1>GotoEffect, Zenon
    <3>2. CallInv(k)'
      BY <2>4, <3>1, Zenon DEF CallInv
    <3> QED  BY <2>0, <2>4, <3>1, <3>2, <1>MoveStep
  <2>5. CASE /\ Goto(k, "insert") /\ r.check # "service"
             /\ r.op = "device" => r.tenant \in tenants
             /\ r.op = "command" => <<r.tenant, r.device>> \in devices
    <3>1. /\ call'[k].pc = "insert" /\ call'[k].client = call[k].client
          /\ call'[k].request = r /\ call'[k].id = call[k].id
          /\ \A j \in Calls \ {k} : call'[j] = call[j]
          /\ heard' = heard /\ ServeTypes'
      BY <2>0, <2>5, <1>GotoEffect, Zenon
    <3>2. CallInv(k)'
      BY <2>0, <2>5, <3>1 DEF CallInv, Tables
    <3> QED  BY <2>0, <2>5, <3>1, <3>2, <1>MoveStep, Zenon
  <2> QED
    BY <2>1, <2>2, <2>3, <2>4, <2>5
  \* INSERT: a claim on the key, or what stands in its way.
<1>InsertSteps.
      ASSUME ApiInv, NEW k \in Calls, NEW r, r = call[k].request,
             CreateTenantContext(k) \/ CreateDeviceContext(k) \/ CreateCommandWithKey(k)
      PROVE  ServeStep(k, r)
  <2> USE <1>InsertSteps
  <2>0. /\ call[k].pc = "insert" /\ UNCHANGED Tables /\ CallInv(k) /\ ServeTypes
        /\ Holding(k) = {}
    BY TypeParts, Zenon DEF CreateTenantContext, CreateDeviceContext, CreateCommandWithKey, InsertRow, Inserting,
       InsertCommand, Serving, Tables, ApiInv
  <2>1. /\ r \in Requests /\ r.check # "service"
        /\ r.op = "device" => r.tenant \in tenants
        /\ r.op = "command" => <<r.tenant, r.device>> \in devices
    BY <2>0, WorkFacts DEF ApiInv, CallInv
  <2>2. \/ Finish(k, "exists", 0) /\ r.op # "command" /\ Taken(r)
        \/ Goto(k, "commit") /\ r.op # "command" /\ ~Taken(r)
        \/ Finish(k, "invalid", 0)
        \/ Goto(k, "select") /\ r.op = "command" /\ r.check # "store"
        \/ /\ r.op = "command" /\ r.check # "store" /\ ~Taken(r)
           /\ \E i \in Fresh : call' = [call EXCEPT ![k].pc = "commit", ![k].id = i]
           /\ UNCHANGED heard
    <3>1. CASE CreateTenantContext(k) \/ CreateDeviceContext(k)
      BY <3>1 DEF CreateTenantContext, CreateDeviceContext, InsertRow, Inserting, Serving
    <3>2. CASE CreateCommandWithKey(k)
      BY <3>2, Zenon DEF CreateCommandWithKey, InsertCommand, Inserting, Serving
    <3> QED  BY <3>1, <3>2
  <2>3. CASE Finish(k, "exists", 0) /\ r.op # "command" /\ Taken(r)
    <3>1. Told(Reply(StatusOf("exists"), IF "exists" = "created" THEN 0 ELSE 0), r)
      BY <2>3, StatusFacts, ReplyFacts, Zenon DEF Told
    <3> QED  BY <2>0, <2>3, <3>1, <1>EndStep, Zenon DEF Outcomes
  <2>4. CASE Goto(k, "commit") /\ r.op # "command" /\ ~Taken(r)
    <3>1. /\ call'[k].pc = "commit" /\ call'[k].client = call[k].client
          /\ call'[k].request = r /\ call'[k].id = call[k].id
          /\ \A j \in Calls \ {k} : call'[j] = call[j]
          /\ heard' = heard /\ ServeTypes'
      BY <2>0, <2>4, <1>GotoEffect
    <3>2. r.check = "ok"
      BY <2>1, <2>4, RequestFacts, Zenon
    <3>3. CallInv(k)'
      BY <2>0, <2>1, <2>4, <3>1, <3>2, Zenon DEF CallInv, Tables
    <3> QED  BY <2>0, <2>4, <3>1, <3>3, <1>MoveStep, Zenon
  <2>5. CASE Finish(k, "invalid", 0)
    <3>1. Told(Reply(StatusOf("invalid"), IF "invalid" = "created" THEN 0 ELSE 0), r)
      BY StatusFacts, ReplyFacts DEF Told
    <3> QED  BY <2>0, <2>5, <3>1, <1>EndStep, Zenon DEF Outcomes
  <2>6. CASE Goto(k, "select") /\ r.op = "command" /\ r.check # "store"
    <3>1. /\ call'[k].pc = "select" /\ call'[k].client = call[k].client
          /\ call'[k].request = r /\ call'[k].id = call[k].id
          /\ \A j \in Calls \ {k} : call'[j] = call[j]
          /\ heard' = heard /\ ServeTypes'
      BY <2>0, <2>6, <1>GotoEffect
    <3>2. r.check = "ok"
      BY <2>1, <2>6, RequestFacts, Zenon
    <3>3. CallInv(k)'
      BY <2>0, <2>1, <2>6, <3>1, <3>2 DEF CallInv, Tables
    <3> QED  BY <2>0, <2>6, <3>1, <3>3, <1>MoveStep, Zenon
  <2>7. CASE /\ r.op = "command" /\ r.check # "store" /\ ~Taken(r)
             /\ \E i \in Fresh : call' = [call EXCEPT ![k].pc = "commit", ![k].id = i]
             /\ UNCHANGED heard
    <3>1. PICK i \in Fresh : call' = [call EXCEPT ![k].pc = "commit", ![k].id = i]
      BY <2>7, Zenon
    <3>2. i \in Ids /\ commands[i] = None /\ \A j \in Calls : call[j].id # i
      BY DEF Fresh
    <3>4. /\ call'[k].pc = "commit" /\ call'[k].client = call[k].client
          /\ call'[k].request = r /\ call'[k].id = i
          /\ \A j \in Calls \ {k} : call'[j] = call[j]
          /\ heard' = heard /\ ServeTypes'
      BY <2>0, <2>7, <3>1, <3>2, <1>TakeEffect, Zenon
    <3>5. r.check = "ok"
      BY <2>1, <2>7, RequestFacts
    <3>6. CallInv(k)'
      BY <2>0, <2>1, <3>2, <3>4, <3>5 DEF CallInv, Tables
    <3> QED  BY <2>0, <2>7, <3>4, <3>6, <1>MoveStep, Zenon
  <2> QED
    BY <2>2, <2>3, <2>4, <2>5, <2>6, <2>7
  \* SELECT: the command of the key is the one asked for, or a conflict.
<1>SelectStep.
        \A k \in Calls : \A r :
            /\ ApiInv
            /\ r = call[k].request
            /\ Select(k)
            => ServeStep(k, r)
      \* Two commands that agree on what SameKey and Matches compare are the same.
  <2>MatchIsSame.
        ASSUME NEW r \in CommandRequests, NEW s \in CommandRequests,
               SameKey(r, s), Matches(r, s), r.check = s.check
        PROVE  r = s
    <3> USE <2>MatchIsSame
    <3> DEFINE Fields(q) == [op |-> q.op, tenant |-> q.tenant, device |-> q.device,
                             key |-> q.key, payload |-> q.payload, check |-> q.check]
    <3>1. r = Fields(r) /\ s = Fields(s)
      BY DEF CommandRequests
    <3>2. /\ r.op = s.op /\ r.tenant = s.tenant /\ r.device = s.device
          /\ r.key = s.key /\ r.payload = s.payload
      BY DEF SameKey, Matches, CommandRequests
    <3> QED
      BY <3>1, <3>2, Zenon
  <2> SUFFICES ASSUME ApiInv, NEW k \in Calls, NEW r, r = call[k].request, Select(k)
               PROVE  ServeStep(k, r)
    OBVIOUS
  <2>0. /\ call[k].pc = "select" /\ UNCHANGED Tables /\ CallInv(k) /\ ServeTypes
    BY TypeParts DEF Select, Tables, ApiInv
  <2>1. /\ r \in CommandRequests /\ r.check = "ok" /\ r.op = "command"
        /\ <<r.tenant, r.device>> \in devices
    <3>1. r \in Requests
      BY <2>0, WorkFacts DEF ApiInv
    <3> QED  BY <2>0, <3>1, RequestFacts, Zenon DEF CallInv
  <2>2. PICK i \in StoredAs(r) :
           IF Matches(commands[i], r)
           THEN call' = [call EXCEPT ![k].pc = "found", ![k].id = i] /\ UNCHANGED heard
           ELSE Finish(k, "conflict", 0)
    BY DEF Select
  <2>3. /\ i \in Ids /\ commands[i] # None /\ SameKey(commands[i], r)
        /\ commands[i] \in CommandRequests /\ commands[i].check = "ok"
    <3>1. i \in Ids /\ commands[i] # None /\ SameKey(commands[i], r) /\ TableTypes
      BY <2>2, TypeParts, Zenon DEF StoredAs, ApiInv
    <3> QED  BY <3>1, Zenon DEF TableTypes
  <2>4. CASE Matches(commands[i], r)
    <3>1. commands[i] = r
      BY <2>1, <2>3, <2>4, <2>MatchIsSame
    <3>2. call' = [call EXCEPT ![k].pc = "found", ![k].id = i] /\ UNCHANGED heard
      BY <2>2, <2>4
    <3>4. /\ call'[k].pc = "found" /\ call'[k].client = call[k].client
          /\ call'[k].request = r /\ call'[k].id = i
          /\ \A j \in Calls \ {k} : call'[j] = call[j]
          /\ heard' = heard /\ ServeTypes'
      BY <2>0, <2>3, <3>2, <1>TakeEffect, Zenon
    <3>5. CallInv(k)'
      BY <2>0, <2>1, <2>3, <3>1, <3>4 DEF CallInv, Tables
    <3> QED  BY <2>0, <2>3, <3>4, <3>5, <1>MoveStep
  <2>5. CASE ~Matches(commands[i], r)
    <3>1. Told(Reply(StatusOf("conflict"), IF "conflict" = "created" THEN 0 ELSE 0), r)
      BY <2>1, <2>2, <2>5, StatusFacts, ReplyFacts DEF Told
    <3> QED  BY <2>0, <2>2, <2>5, <3>1, <1>EndStep DEF Outcomes
  <2> QED
    BY <2>4, <2>5
  \* COMMIT of a new row, whether or not its success is reported.
<1>CommitStep.
        \A k \in Calls : \A r :
            /\ ApiInv
            /\ r = call[k].request
            /\ Commit(k)
            => ServeStep(k, r)
      \* What a taken key means for each kind of request.
  <2>TakenFacts.
        ASSUME NEW r \in Requests
        PROVE  /\ r.op = "tenant" => (Taken(r) <=> r.tenant \in tenants)
               /\ r.op = "device" => (Taken(r) <=> <<r.tenant, r.device>> \in devices)
               /\ r.op = "command" => (Taken(r) <=> StoredAs(r) # {})
    BY Zenon DEF Taken
    \* COMMIT takes the key that was claimed, and no other claim is on it.
  <2>ClaimStored.
        ASSUME ApiInv, NEW k \in Calls, call[k].pc = "commit",
               NEW r, r = call[k].request, NEW i, i = call[k].id, Store(r, i),
               call'[k] = Free, \A j \in Calls \ {k} : call'[j] = call[j]
        PROVE  /\ OneCommandPerKey' /\ Grows /\ TableTypes'
               /\ r.op = "command" => commands'[i] = r
               /\ r.op # "command" => Taken(r)'
    <3> USE <2>ClaimStored
    <3>1. /\ r \in Requests /\ r.check = "ok"
          /\ r.op = "device" => r.tenant \in tenants
          /\ r.op = "command" => <<r.tenant, r.device>> \in devices /\ i \in Ids /\ commands[i] = None
      BY WorkFacts, Zenon DEF ApiInv, CallInv
    <3>2. TableTypes
      BY TypeParts DEF ApiInv
    <3>3. /\ r.op \in {"tenant", "device", "command"} /\ r.tenant \in Tenants /\ r # None
          /\ r.op = "device" => r.device \in DeviceNames
          /\ r.op = "command" => r \in CommandRequests
      BY <3>1, RequestFacts
    <3>4. Holding(k) = {} /\ ~Taken(r)
      BY DEF ApiInv, OneCommandPerKey
    <3>5. /\ tenants' = IF r.op = "tenant" THEN tenants \cup {r.tenant} ELSE tenants
          /\ devices' = IF r.op = "device" THEN devices \cup {<<r.tenant, r.device>>} ELSE devices
          /\ commands' = IF r.op = "command" THEN [commands EXCEPT ![i] = r] ELSE commands
      BY Zenon DEF Store
    <3>6. Grows
      BY <3>1, <3>2, <3>5 DEF Grows, TableTypes
    <3>7. TableTypes'
      <4>1. CASE r.op = "tenant"
        BY <3>2, <3>3, <3>5, <4>1, Zenon DEF TableTypes
      <4>2. CASE r.op = "device"
        BY <3>1, <3>2, <3>3, <3>5, <4>2 DEF TableTypes
      <4>3. CASE r.op = "command"
        <5>1. /\ tenants' = tenants /\ devices' = devices
              /\ commands' = [commands EXCEPT ![i] = r] /\ i \in Ids /\ r \in CommandRequests
              /\ r.check = "ok" /\ <<r.tenant, r.device>> \in devices
          BY <3>1, <3>3, <3>5, <4>3
        <5> QED  BY <3>2, <5>1 DEF TableTypes
      <4> QED  BY <3>3, <4>1, <4>2, <4>3
    <3>8. ASSUME NEW j \in Ids, NEW m \in Ids, commands'[j] # None, commands'[m] # None,
                 SameKey(commands'[j], commands'[m])
          PROVE  j = m
      <4>1. CASE r.op # "command"
        BY <3>5, <3>8, <4>1, Zenon DEF ApiInv, OneCommandPerKey
      <4>2. CASE r.op = "command"
        <5>1. commands' = [commands EXCEPT ![i] = r] /\ StoredAs(r) = {} /\ i \in Ids
          BY <3>1, <3>4, <3>5, <4>2, <2>TakenFacts
        <5>2. \A n \in Ids \ {i} : commands'[n] = commands[n]
          BY <3>2, <5>1 DEF TableTypes
        <5>3. commands'[i] = r
          BY <3>2, <5>1 DEF TableTypes
        <5>4. \A n \in Ids : commands[n] # None => ~SameKey(commands[n], r) /\ ~SameKey(r, commands[n])
          BY <5>1, <1>SameKeySym DEF StoredAs
        <5> QED  BY <3>8, <5>2, <5>3, <5>4, ZenonT(30) DEF ApiInv, OneCommandPerKey
      <4> QED  BY <4>1, <4>2
    <3>9. ASSUME NEW j \in Calls, call'[j].pc = "commit"
          PROVE  Holding(j)' = {} /\ ~Taken(call[j].request)'
      <4>1. j # k /\ call'[j] = call[j]
        BY <3>9, FreeFacts, Zenon
      <4>2. Holding(j) = {} /\ ~Taken(call[j].request)
        BY <3>9, <4>1 DEF ApiInv, OneCommandPerKey
      <4>3. Holding(j)' \subseteq Holding(j)
        BY <4>1, FreeFacts DEF Holding
      <4>4. ~SameKey(r, call[j].request) /\ ~SameKey(call[j].request, r)
        BY <4>1, <4>2, <1>SameKeySym DEF Holding
      <4>5. call[j].request \in Requests
        BY <3>9, <4>1, WorkFacts DEF ApiInv
      <4>6. PICK q \in Requests : q = call[j].request
        BY <4>5
      <4>7. ~Taken(q) /\ ~SameKey(r, q)
        BY <4>2, <4>4, <4>6
      <4>8. ~Taken(q)'
        <5>1. CASE q.op = "tenant"
          BY <3>5, <4>7, <5>1 DEF Taken, SameKey
        <5>2. CASE q.op = "device"
          BY <3>5, <4>7, <5>2 DEF Taken, SameKey
        <5>3. CASE q.op = "command"
          <6>1. StoredAs(q) = {}
            BY <4>7, <5>3, <2>TakenFacts, Zenon
          <6>2. \A n \in Ids : commands'[n] = commands[n] \/ commands'[n] = r
            BY <3>2, <3>5 DEF TableTypes
          <6>3. StoredAs(q)' = {}
            BY <4>7, <6>1, <6>2, Zenon DEF StoredAs
          <6> QED  BY <5>3, <6>3 DEF Taken
        <5> QED  BY <5>1, <5>2, <5>3, RequestFacts
      <4> QED  BY <4>1, <4>2, <4>3, <4>6, <4>8
    <3>10. OneCommandPerKey'
      BY <3>8, <3>9 DEF OneCommandPerKey
    <3>11. r.op = "command" => commands'[i] = r
      BY <3>1, <3>2, <3>5 DEF TableTypes
    <3>12. r.op # "command" => Taken(r)'
      BY <3>3, <3>5, Zenon DEF Taken
    <3> QED
      BY <3>6, <3>7, <3>10, <3>11, <3>12, Zenon
  <2> SUFFICES ASSUME ApiInv, NEW k \in Calls, NEW r, r = call[k].request, Commit(k)
               PROVE  ServeStep(k, r)
    OBVIOUS
  <2>0. /\ call[k].pc = "commit" /\ CallInv(k) /\ ServeTypes /\ TableTypes
    BY TypeParts DEF Commit, ApiInv
  <2>1. PICK i \in Ids \cup {0} : i = call[k].id
    BY WorkFacts, Zenon DEF ApiInv
  <2>2. /\ r \in Requests /\ r.check = "ok"
        /\ r.op = "command" => i \in Ids /\ commands[i] = None /\ \A j \in Calls \ {k} : call[j].id # i
    BY <2>0, <2>1, WorkFacts, Zenon DEF ApiInv, CallInv
  <2>3. Store(r, i)
    BY <2>1, Zenon DEF Commit
  <2>4. PICK outcome \in {"created", "internal"} : \E id \in Ids \cup {0} :
           Finish(k, outcome, id) /\ (outcome = "created" => id = i)
    BY <2>1 DEF Commit
  <2>5. PICK id \in Ids \cup {0} : Finish(k, outcome, id) /\ (outcome = "created" => id = i)
    BY <2>4
  <2>6. outcome \in Outcomes
    BY DEF Outcomes
  <2> DEFINE reply == Reply(StatusOf(outcome), IF outcome = "created" THEN id ELSE 0)
  <2>7. /\ call'[k] = Free /\ \A j \in Calls \ {k} : call'[j] = call[j]
        /\ \A c \in Clients : heard'[c] = IF call[k].client = c THEN reply ELSE heard[c]
    BY <2>0, <2>5, <2>6, <1>FinishEffect
  <2>8. ServeTypes'
    BY <2>0, <2>5, <2>6, <1>FinishTyped, Zenon
  <2>9. /\ OneCommandPerKey' /\ Grows /\ TableTypes'
        /\ r.op = "command" => commands'[i] = r
        /\ r.op # "command" => Taken(r)'
    BY <2>0, <2>1, <2>3, <2>7, <2>ClaimStored
  <2>10. ASSUME NEW j \in Calls
         PROVE  CallInv(j)'
    <3>1. CASE j = k
      BY <2>7, <3>1, FreeFacts, Zenon DEF CallInv
    <3>2. CASE j # k
      <4>1. ASSUME call[j].pc = "commit" /\ call[j].request.op = "command"
            PROVE  /\ commands'[call[j].id] = commands[call[j].id]
                   /\ \A m \in Calls \ {j} : call'[m].id # call[j].id
        <5>1. call[j].id \in Ids /\ \A m \in Calls \ {j} : call[m].id # call[j].id
          BY <4>1, Zenon DEF ApiInv, CallInv
        <5>2. r.op = "command" => call[j].id # i
          BY <2>1, <3>2, <5>1
        <5>3. commands' = IF r.op = "command" THEN [commands EXCEPT ![i] = r] ELSE commands
          BY <2>3 DEF Store
        <5>4. commands'[call[j].id] = commands[call[j].id]
          BY <2>0, <5>1, <5>2, <5>3 DEF TableTypes
        <5>5. 0 \notin Ids
          BY ApiAssumption
        <5> QED  BY <2>7, <5>1, <5>4, <5>5, FreeFacts, Zenon
      <4> QED  BY <2>7, <2>9, <3>2, <4>1, CallKept, Zenon
    <3> QED  BY <3>1, <3>2
  <2>11. reply \in Replies /\ reply.status \notin {0, 1}
    BY <2>6, ReplyFacts, StatusFacts
  <2>12. /\ reply.status \in {201, 500}
         /\ reply.status = 201 => reply.id = i
    BY <2>5, ReplyFacts, StatusFacts
  <2> HIDE DEF reply
  <2>13. PICK a \in Replies : a = reply
    BY <2>11
  <2>14. Told(a, r)'
    BY <2>2, <2>9, <2>12, <2>13 DEF Told
  <2>15. Ends(k, r)
    BY <2>7, <2>11, <2>13, <2>14 DEF Ends
  <2> QED
    BY <2>7, <2>8, <2>9, <2>10, <2>15, TypePartsNext DEF ServeStep, ApiInv
<1> SUFFICES ASSUME ApiInv, NEW k \in Calls, NEW r, r = call[k].request, Progress(k) \/ Fail(k)
             PROVE  ServeStep(k, r)
  OBVIOUS
<1>1. CASE CommitFound(k)
  <2>1. /\ call[k].pc = "found" /\ UNCHANGED Tables /\ Finish(k, "created", call[k].id)
        /\ call[k].id \in Ids /\ commands[call[k].id] = r /\ r.op = "command"
    BY <1>1, Zenon DEF CommitFound, Tables, ApiInv, CallInv
  <2>2. PICK i \in Ids : i = call[k].id
    BY <2>1, Zenon
  <2>3. Told(Reply(StatusOf("created"), IF "created" = "created" THEN i ELSE 0), r)
    BY <2>1, <2>2, StatusFacts, ReplyFacts DEF Told
  <2> QED  BY <2>1, <2>2, <2>3, <1>EndStep DEF Outcomes
<1>2. CASE Fail(k)
  <2>1. PICK outcome \in {"internal", "expired", "gone"} : Finish(k, outcome, 0)
    BY <1>2 DEF Fail
  <2>2. Told(Reply(StatusOf(outcome), IF outcome = "created" THEN 0 ELSE 0), r)
    BY StatusFacts, ReplyFacts DEF Told
  <2>3. UNCHANGED Tables
    BY <1>2 DEF Fail, Tables
  <2> QED  BY <2>1, <2>2, <2>3, <1>EndStep, Zenon DEF Outcomes
<1> QED
  BY <1>1, <1>2, <1>CheckSteps, <1>InsertSteps, <1>SelectStep, <1>CommitStep DEF Progress

-----------------------------------------------------------------------------
(* The other steps                                                         *)

\* Steps that leave the tables alone and serve nobody: a request comes in, a
\* client gives up, reads its answer or ends.
LEMMA QuietSteps ==
    ASSUME ApiInv, UNCHANGED Tables, ServeTypes',
           \A k \in Calls :
              \/ /\ call'[k].pc = call[k].pc /\ call'[k].request = call[k].request
                 /\ call'[k].id = call[k].id
              \/ call'[k].pc = "service" /\ call'[k].id = 0
    PROVE  ApiInv' /\ Grows
<1>1. TableTypes /\ OneCommandPerKey
  BY TypeParts, Zenon DEF ApiInv
<1>2. TableTypes' /\ Grows
  BY <1>1, Zenon DEF TableTypes, Tables, Grows
<1>3. OneCommandPerKey'
  BY <1>1, NoNewClaim
<1>4. ASSUME NEW k \in Calls
      PROVE  CallInv(k)'
  <2>1. CASE call'[k].pc = "service"
    BY <2>1 DEF CallInv
  <2>2. CASE call'[k].pc # "service"
    BY <2>2, CallKeptQuietly, Zenon
  <2> QED  BY <2>1, <2>2
<1> QED
  BY <1>2, <1>3, <1>4, TypePartsNext, Zenon DEF ApiInv

-----------------------------------------------------------------------------
(* What a client sees of a step                                            *)

Kept(c) ==
    /\ heard'[c] = heard[c]
    /\ \A k \in Calls : call'[k].client = c =>
          call[k].client = c /\ call'[k].request = call[k].request

Answered(c) ==
    /\ \A k \in Calls : call'[k].client # c
    /\ \E k \in Calls, r \in Requests, reply \in Replies :
          /\ call[k].client = c /\ call[k].request = r
          /\ heard'[c] = reply /\ reply.status \notin {0, 1}
          /\ Told(reply, r)'

Forgot(c) ==
    /\ heard'[c] = Silent
    /\ \A k \in Calls : call'[k].client # c

AskedFor(c, r) ==
    /\ heard'[c] = Waiting
    /\ \A k \in Calls : call'[k].client = c => call'[k].request = r

\* What was told stays so.
LEMMA ToldGrows ==
    ASSUME Grows, NEW r \in Requests, NEW reply, Told(reply, r)
    PROVE  Told(reply, r)'
<1>1. r # None
  BY RequestFacts
<1>2. Taken(r) => Taken(r)'
  BY TakenGrows
<1>3. \A i \in StoredAs(r) : i \in StoredAs(r)' /\ commands'[i] = commands[i]
  BY DEF StoredAs, Grows
<1>4. reply.id \in Ids /\ commands[reply.id] = r => commands'[reply.id] = r
  BY <1>1 DEF Grows
<1> QED
  BY <1>2, <1>3, <1>4 DEF Told

LEMMA ServeView ==
    ASSUME ApiInv, NEW k \in Calls, NEW c \in Clients, Progress(k) \/ Fail(k)
    PROVE  Kept(c) \/ Answered(c)
<1>1. ServeTypes /\ c # None
  BY TypeParts, ApiAssumption DEF ApiInv
<1>2. PICK r : r = call[k].request
  OBVIOUS
<1>3. ServeStep(k, r)
  BY <1>2, ServerSteps
<1>4. \A j \in Calls \ {k} : call'[j] = call[j]
  BY <1>3 DEF ServeStep
<1>5. CASE Moves(k)
  BY <1>4, <1>5 DEF Moves, Kept
<1>6. CASE Ends(k, r)
  <2>1. PICK reply \in Replies :
          /\ reply.status \notin {0, 1}
          /\ \A d \in Clients : heard'[d] = IF call[k].client = d THEN reply ELSE heard[d]
          /\ Told(reply, r)'
    BY <1>6 DEF Ends
  <2>2. call'[k].client = None
    BY <1>6, FreeFacts DEF Ends
  <2>3. CASE call[k].client = c
    <3>1. \A j \in Calls : call'[j].client # c
      BY <1>1, <1>4, <2>2, <2>3 DEF ServeTypes
    <3>2. r \in Requests
      BY <1>1, <1>2, <2>3, WorkFacts DEF ApiInv
    <3> QED  BY <1>2, <2>1, <2>3, <3>1, <3>2 DEF Answered
  <2>4. CASE call[k].client # c
    BY <1>1, <1>4, <2>1, <2>2, <2>4 DEF Kept
  <2> QED  BY <2>3, <2>4
<1> QED
  BY <1>3, <1>5, <1>6 DEF ServeStep

LEMMA GiveUpView ==
    \A d \in Clients : \A c \in Clients :
        /\ ApiInv
        /\ GiveUp(d)
        => ApiInv' /\ Grows /\ (Kept(c) \/ Answered(c))
  \* A client that gives up hears nothing more of its request.
<1>GiveUpEffect.
      ASSUME ServeTypes, NEW c \in Clients, GiveUp(c)
      PROVE  /\ ServeTypes'
             /\ \A d \in Clients \ {c} : heard'[d] = heard[d]
             /\ heard'[c] = Reply(503, 0)
             /\ UNCHANGED <<tenants, devices, commands>>
             /\ \A k \in Calls :
                   /\ call'[k].pc = call[k].pc /\ call'[k].request = call[k].request
                   /\ call'[k].id = call[k].id
                   /\ call'[k].client = IF call[k].client = c THEN None ELSE call[k].client
  <2> USE <1>GiveUpEffect
  <2>1. PICK k \in Calls : call[k].client = c /\ call' = [call EXCEPT ![k].client = None]
    BY Zenon DEF GiveUp
  <2>2. c # None
    BY ApiAssumption
  <2>3. call[k] \in Work /\ call \in [Calls -> {Free} \cup Work]
    BY <2>1, <2>2, FreeFacts DEF ServeTypes
  <2> DEFINE new == [call[k] EXCEPT !.client = None]
  <2>4. call' = [call EXCEPT ![k] = new]
    BY <2>1, <2>3, Zenon
  <2>5. /\ new \in Work /\ new.pc = call[k].pc /\ new.request = call[k].request
        /\ new.id = call[k].id /\ new.client = None
    BY <2>3 DEF Work
  <2> HIDE DEF new
  <2>6. /\ call'[k] = new /\ \A j \in Calls \ {k} : call'[j] = call[j]
        /\ call' \in [Calls -> {Free} \cup Work]
    BY <2>3, <2>4, <2>5
  <2>7. \A j \in Calls \ {k} : call[j].client # c
    BY <2>1, <2>2 DEF ServeTypes
  <2>8. /\ heard'[c] = Reply(503, 0) /\ \A d \in Clients \ {c} : heard'[d] = heard[d]
        /\ heard' \in [Clients -> Replies]
    BY ReplyFacts DEF GiveUp, ServeTypes
  <2>9. \A d \in Clients : heard'[d] = Waiting <=> \E j \in Calls : call'[j].client = d
    BY <2>1, <2>5, <2>6, <2>7, <2>8, ReplyFacts, ApiAssumption DEF ServeTypes
  <2>10. \A i, j \in Calls : call'[i].client = call'[j].client => i = j \/ call'[j].client = None
    BY <2>5, <2>6 DEF ServeTypes
  <2>11. ServeTypes'
    BY <2>6, <2>8, <2>9, <2>10 DEF ServeTypes, Waiting, Reply
  <2> QED
    BY <2>1, <2>5, <2>6, <2>7, <2>8, <2>11 DEF GiveUp
<1> SUFFICES ASSUME ApiInv, NEW d \in Clients, NEW c \in Clients, GiveUp(d)
             PROVE  ApiInv' /\ Grows /\ (Kept(c) \/ Answered(c))
  OBVIOUS
<1>1. ServeTypes /\ c # None
  BY TypeParts, ApiAssumption DEF ApiInv
<1>2. /\ ServeTypes'
      /\ \A e \in Clients \ {d} : heard'[e] = heard[e]
      /\ heard'[d] = Reply(503, 0)
      /\ UNCHANGED Tables
      /\ \A k \in Calls :
            /\ call'[k].pc = call[k].pc /\ call'[k].request = call[k].request
            /\ call'[k].id = call[k].id
            /\ call'[k].client = IF call[k].client = d THEN None ELSE call[k].client
  BY <1>1, <1>GiveUpEffect, ZenonT(30) DEF Tables
<1>3. ApiInv' /\ Grows
  BY <1>2, QuietSteps
<1>4. CASE c = d
  <2>1. PICK k \in Calls : call[k].client = d
    BY Zenon DEF GiveUp
  <2>2. PICK r \in Requests : r = call[k].request
    BY <1>1, <1>4, <2>1, WorkFacts DEF ApiInv
  <2>3. PICK reply \in Replies : reply = Reply(503, 0)
    BY ReplyFacts
  <2>4. reply.status = 503
    BY <2>3, ReplyFacts
  <2>5. Told(reply, r)'
    BY <2>4 DEF Told
  <2>6. Answered(c)
    BY <1>1, <1>2, <1>4, <2>1, <2>2, <2>3, <2>4, <2>5 DEF Answered
  <2> QED  BY <1>3, <2>6
<1>5. CASE c # d
  BY <1>1, <1>2, <1>3, <1>5 DEF Kept
<1> QED
  BY <1>4, <1>5

LEMMA AcceptView ==
    \A c \in Clients : \A r \in Requests :
        /\ ApiInv
        /\ Accept(c, r)
        => /\ ApiInv' /\ Grows /\ AskedFor(c, r)
           /\ \A d \in Clients \ {c} : Kept(d)
  \* A new request takes a free place, and its client waits.
<1>AcceptEffect.
      ASSUME ServeTypes, NEW c \in Clients, NEW r \in Requests, Accept(c, r)
      PROVE  /\ ServeTypes'
             /\ \A d \in Clients \ {c} : heard'[d] = heard[d]
             /\ heard'[c] = Waiting
             /\ UNCHANGED <<tenants, devices, commands>>
             /\ \E k \in Calls :
                   /\ call[k] = Free
                   /\ call'[k].pc = "service" /\ call'[k].client = c
                   /\ call'[k].request = r /\ call'[k].id = 0
                   /\ \A j \in Calls \ {k} : call'[j] = call[j]
  <2> USE <1>AcceptEffect
  <2> DEFINE new == [pc |-> "service", client |-> c, request |-> r, id |-> 0]
  <2>1. PICK k \in Calls : call[k] = Free /\ call' = [call EXCEPT ![k] = new]
    BY Zenon DEF Accept
  <2>2. /\ new \in Work /\ new.pc = "service" /\ new.client = c /\ new.request = r
        /\ new.id = 0
    BY DEF Work
  <2> HIDE DEF new
  <2>3. /\ call'[k] = new /\ \A j \in Calls \ {k} : call'[j] = call[j]
        /\ call' \in [Calls -> {Free} \cup Work]
    BY <2>1, <2>2 DEF ServeTypes
  <2>4. heard' = [heard EXCEPT ![c] = Waiting] /\ heard[c] # Waiting
    BY DEF Accept
  <2>5. /\ heard'[c] = Waiting /\ \A d \in Clients \ {c} : heard'[d] = heard[d]
        /\ heard' \in [Clients -> Replies]
    BY <2>4, ReplyFacts DEF ServeTypes
  <2>6. \A j \in Calls : call[j].client # c
    BY <2>4 DEF ServeTypes
  <2>7. c # None
    BY ApiAssumption
  <2>8. call[k].client = None
    BY <2>1, FreeFacts, Zenon
  <2>9. \A d \in Clients : heard'[d] = Waiting <=> \E j \in Calls : call'[j].client = d
    BY <2>2, <2>3, <2>5, <2>6, <2>8, ApiAssumption DEF ServeTypes
  <2>10. \A i, j \in Calls : call'[i].client = call'[j].client => i = j \/ call'[j].client = None
    BY <2>2, <2>3, <2>6, <2>7 DEF ServeTypes
  <2>11. ServeTypes'
    BY <2>3, <2>5, <2>9, <2>10 DEF ServeTypes, Waiting, Reply
  <2> QED
    BY <2>1, <2>2, <2>3, <2>5, <2>11 DEF Accept
<1> SUFFICES ASSUME ApiInv, NEW c \in Clients, NEW r \in Requests, Accept(c, r)
             PROVE  /\ ApiInv' /\ Grows /\ AskedFor(c, r)
                    /\ \A d \in Clients \ {c} : Kept(d)
  OBVIOUS
<1>1. ServeTypes /\ c # None /\ heard[c] # Waiting
  BY TypeParts, ApiAssumption, Zenon DEF ApiInv, Accept
<1>2. /\ ServeTypes'
      /\ \A d \in Clients \ {c} : heard'[d] = heard[d]
      /\ heard'[c] = Waiting
      /\ UNCHANGED Tables
      /\ \E k \in Calls :
            /\ call[k] = Free
            /\ call'[k].pc = "service" /\ call'[k].client = c
            /\ call'[k].request = r /\ call'[k].id = 0
            /\ \A j \in Calls \ {k} : call'[j] = call[j]
  BY <1>1, <1>AcceptEffect DEF Tables
<1>3. PICK k \in Calls :
            /\ call[k] = Free
            /\ call'[k].pc = "service" /\ call'[k].client = c
            /\ call'[k].request = r /\ call'[k].id = 0
            /\ \A j \in Calls \ {k} : call'[j] = call[j]
  BY <1>2, Zenon
<1>4. ApiInv' /\ Grows
  BY <1>2, <1>3, QuietSteps
<1>5. \A j \in Calls : call[j].client # c
  BY <1>1 DEF ServeTypes
<1> QED
  BY <1>2, <1>3, <1>4, <1>5, Zenon DEF AskedFor, Kept

LEMMA ReadView ==
    \A c \in Clients :
        /\ ApiInv
        /\ heard[c] # Waiting
        /\ call' = call
        /\ UNCHANGED Tables
        /\ heard' = [heard EXCEPT ![c] = Silent]
        => /\ ApiInv' /\ Grows /\ Forgot(c)
           /\ \A d \in Clients \ {c} : Kept(d)
  \* The demo has read its answer.
<1>ReadEffect.
      ASSUME ServeTypes, NEW c \in Clients, heard[c] # Waiting, call' = call,
             heard' = [heard EXCEPT ![c] = Silent]
      PROVE  /\ ServeTypes'
             /\ \A d \in Clients \ {c} : heard'[d] = heard[d]
             /\ heard'[c] = Silent
  <2> USE <1>ReadEffect
  <2>1. /\ heard'[c] = Silent /\ \A d \in Clients \ {c} : heard'[d] = heard[d]
        /\ heard' \in [Clients -> Replies]
    BY ReplyFacts DEF ServeTypes
  <2>2. \A d \in Clients : heard'[d] = Waiting <=> \E j \in Calls : call'[j].client = d
    BY <2>1, ReplyFacts DEF ServeTypes
  <2> QED
    BY <2>1, <2>2 DEF ServeTypes, Waiting, Reply
<1> SUFFICES ASSUME ApiInv, NEW c \in Clients, heard[c] # Waiting, call' = call, UNCHANGED Tables,
                    heard' = [heard EXCEPT ![c] = Silent]
             PROVE  /\ ApiInv' /\ Grows /\ Forgot(c)
                    /\ \A d \in Clients \ {c} : Kept(d)
  BY Zenon
<1>1. ServeTypes
  BY TypeParts DEF ApiInv
<1>2. /\ ServeTypes'
      /\ \A d \in Clients \ {c} : heard'[d] = heard[d]
      /\ heard'[c] = Silent
  BY <1>1, <1>ReadEffect, Zenon
<1>3. ApiInv' /\ Grows
  BY <1>2, QuietSteps
<1> QED
  BY <1>1, <1>2, <1>3, Zenon DEF Forgot, Kept, ServeTypes

LEMMA CutView ==
    \A c \in Clients :
        /\ ApiInv
        /\ heard' = [heard EXCEPT ![c] = Silent]
        /\ UNCHANGED Tables
        /\ call' = [k \in Calls |-> IF call[k].client = c THEN [call[k] EXCEPT !.client = None]
                                                          ELSE call[k]]
        => /\ ApiInv' /\ Grows /\ Forgot(c)
           /\ \A d \in Clients \ {c} : Kept(d)
  \* A process that ends leaves its requests behind.
<1>CutEffect.
      ASSUME ServeTypes, NEW c \in Clients, heard' = [heard EXCEPT ![c] = Silent],
             call' = [k \in Calls |-> IF call[k].client = c THEN [call[k] EXCEPT !.client = None]
                                                            ELSE call[k]]
      PROVE  /\ ServeTypes'
             /\ \A d \in Clients \ {c} : heard'[d] = heard[d]
             /\ heard'[c] = Silent
             /\ \A k \in Calls :
                   /\ call'[k].pc = call[k].pc /\ call'[k].request = call[k].request
                   /\ call'[k].id = call[k].id
                   /\ call'[k].client = IF call[k].client = c THEN None ELSE call[k].client
  <2> USE <1>CutEffect
  <2>1. c # None
    BY ApiAssumption
  <2>2. ASSUME NEW k \in Calls
        PROVE  /\ call'[k] \in {Free} \cup Work
               /\ call'[k].pc = call[k].pc /\ call'[k].request = call[k].request
               /\ call'[k].id = call[k].id
               /\ call'[k].client = IF call[k].client = c THEN None ELSE call[k].client
    <3>1. CASE call[k].client = c
      <4>1. call[k] \in Work
        BY <2>1, <3>1, FreeFacts DEF ServeTypes
      <4>2. call'[k] = [call[k] EXCEPT !.client = None]
        BY <3>1
      <4> QED  BY <3>1, <4>1, <4>2 DEF Work
    <3>2. CASE call[k].client # c
      BY <3>2 DEF ServeTypes
    <3> QED  BY <3>1, <3>2
  <2>3. call' \in [Calls -> {Free} \cup Work]
    BY <2>2
  <2>4. /\ heard'[c] = Silent /\ \A d \in Clients \ {c} : heard'[d] = heard[d]
        /\ heard' \in [Clients -> Replies]
    BY ReplyFacts DEF ServeTypes
  <2>5. \A d \in Clients : heard'[d] = Waiting <=> \E j \in Calls : call'[j].client = d
    BY <2>2, <2>4, ReplyFacts, ApiAssumption DEF ServeTypes
  <2>6. \A i, j \in Calls : call'[i].client = call'[j].client => i = j \/ call'[j].client = None
    BY <2>2 DEF ServeTypes
  <2>7. ServeTypes'
    BY <2>3, <2>4, <2>5, <2>6 DEF ServeTypes, Waiting, Reply
  <2> QED
    BY <2>2, <2>4, <2>7
<1> SUFFICES ASSUME ApiInv, NEW c \in Clients, heard' = [heard EXCEPT ![c] = Silent], UNCHANGED Tables,
                    call' = [k \in Calls |-> IF call[k].client = c THEN [call[k] EXCEPT !.client = None]
                                                                   ELSE call[k]]
             PROVE  /\ ApiInv' /\ Grows /\ Forgot(c)
                    /\ \A d \in Clients \ {c} : Kept(d)
  BY Zenon
<1>1. ServeTypes /\ None \notin Clients
  BY TypeParts, ApiAssumption DEF ApiInv
<1>2. /\ ServeTypes'
      /\ \A d \in Clients \ {c} : heard'[d] = heard[d]
      /\ heard'[c] = Silent
      /\ \A k \in Calls :
            /\ call'[k].pc = call[k].pc /\ call'[k].request = call[k].request
            /\ call'[k].id = call[k].id
            /\ call'[k].client = IF call[k].client = c THEN None ELSE call[k].client
  BY <1>1, <1>CutEffect, Zenon
<1>3. ApiInv' /\ Grows
  BY <1>2, QuietSteps
<1> QED
  BY <1>1, <1>2, <1>3 DEF Forgot, Kept

LEMMA SameView ==
    ASSUME ApiInv, UNCHANGED apiVars
    PROVE  ApiInv' /\ Grows /\ \A c \in Clients : Kept(c)
<1>1. ServeTypes
  BY TypeParts DEF ApiInv
<1>2. call' = call /\ heard' = heard /\ UNCHANGED Tables
  BY DEF apiVars, Tables
<1>3. ServeTypes'
  BY <1>1, <1>2 DEF ServeTypes, Waiting, Reply
<1>4. ApiInv' /\ Grows
  BY <1>2, <1>3, QuietSteps
<1> QED
  BY <1>2, <1>4 DEF Kept

=============================================================================
