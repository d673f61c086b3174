----------------------- MODULE CommandDeliveryProofs ------------------------
(***************************************************************************)
(* Proofs about CommandDelivery, for any number of cores, workers and      *)
(* commands: what a published command still needs is somewhere on its way; *)
(* what is delivered was sent down; and a second downlink takes a          *)
(* disturbance.  And about AckUplink, for any number of callbacks,         *)
(* messages and attempts: what it acknowledges is settled in the tables.   *)
(***************************************************************************)
EXTENDS CommandProofs, AckUplink

-----------------------------------------------------------------------------
(* No event is dropped                                                     *)

\* A row is only marked published when its event is in the topic, and the event
\* of a published row is that of its latest attempt.
PublishedHasEvent ==
    /\ \A d \in Cores : dispatcher[d].pc = "mark" =>
          \E i \in 1..Len(topic) : topic[i] = EventOf(d)
    /\ \A c \in Commands : commands[c].status = "published" =>
          \E i \in 1..Len(topic) :
             topic[i] = [cmd |-> c, attempt |-> commands[c].attempts]

\* The fence of MarkCommandPublished compares the attempt, and no attempt is
\* counted while the row is published.
LEMMA PublishedHasEventStep ==
    ASSUME TypeOK, DeliveryTypeOK, PublishedHasEvent, [DeliveryNext]_vars
    PROVE  PublishedHasEvent'
<1>0. [Next]_storeVars
  BY DeliveryStepIsStoreStep
<1>1. ASSUME NEW e, \E i \in 1..Len(topic) : topic[i] = e
      PROVE  \E i \in 1..Len(topic') : topic'[i] = e
  <2>1. PICK i \in 1..Len(topic) : topic[i] = e
    BY <1>1, Zenon
  <2>2. i \in 1..Len(topic') /\ topic'[i] = e
    BY <2>1, TopicMoves
  <2> QED  BY <2>2
<1>2. ASSUME NEW d \in Cores, dispatcher'[d].pc = "mark"
      PROVE  \E i \in 1..Len(topic') : topic'[i] = EventOf(d)'
  <2>1. dispatcher'[d] # Idle
    BY <1>2 DEF Idle
  <2>2. CASE dispatcher'[d] = dispatcher[d]
    <3>1. EventOf(d)' = EventOf(d)
      BY <2>2 DEF EventOf
    <3>2. \E i \in 1..Len(topic) : topic[i] = EventOf(d)
      BY <1>2, <2>2 DEF PublishedHasEvent
    <3> QED  BY <1>1, <3>1, <3>2
  <2> QED
    BY <1>2, <2>1, <2>2, DispatcherMoves
<1>3. ASSUME NEW c \in Commands, commands'[c].status = "published"
      PROVE  \E i \in 1..Len(topic') :
                topic'[i] = [cmd |-> c, attempt |-> commands'[c].attempts]
  <2>1. commands'[c].attempts = commands[c].attempts
    BY <1>0, <1>3, StatusMoves, Zenon
  <2>2. CASE commands[c].status = "published"
    BY <1>1, <2>1, <2>2, Zenon DEF PublishedHasEvent
  <2>3. CASE commands[c].status # "published"
    <3>1. ~Tame
      BY <1>3, <2>3 DEF Tame
    <3>2. ASSUME NEW d \in Cores, \/ Claim(d) \/ PublishCommand(d) \/ PublishFails(d)
                                  \/ CoreCrash(d)
          PROVE  commands'[c].status = commands[c].status
      <4>1. CASE Claim(d)
        BY <4>1, SMTT(30) DEF Claim, ClaimCommand, UpdateCommand, SetClaimed, TypeOK, Row
      <4> QED
        BY <3>2, <4>1 DEF PublishCommand, PublishFails, CoreCrash, storeVars
    <3>3. PICK d \in Cores :
             /\ MarkPublished(d)
             /\ MarkCommandPublished(dispatcher[d].cmd, dispatcher[d].attempt)
      BY <1>3, <2>3, <3>1, <3>2, StepKinds, Zenon
    <3>4. c = dispatcher[d].cmd /\ commands[c].attempts = dispatcher[d].attempt
      BY <1>3, <2>3, <3>3, SMTT(30)
      DEF MarkCommandPublished, UpdateCommandsWithEvent, HeldByClaim
    <3>5. EventOf(d) = [cmd |-> c, attempt |-> commands[c].attempts]
      BY <3>4 DEF EventOf
    <3>6. dispatcher[d].pc = "mark"
      BY <3>3 DEF MarkPublished
    <3> QED
      BY <1>1, <2>1, <3>5, <3>6, Zenon DEF PublishedHasEvent
  <2> QED  BY <2>2, <2>3
<1> QED
  BY <1>2, <1>3 DEF PublishedHasEvent

\* Offset i is behind the group: it is committed, some worker is further on, or
\* some worker is about to commit it.
Passed(i) ==
    \/ i <= committed
    \/ \E w \in Workers :
          /\ ~At(w, "fetch")
          /\ i < worker[w].offset \/ (i = worker[w].offset /\ At(w, "commit"))

Dealt(e) == commands[e.cmd].status \in Past \/ e \in dlq

\* What the group has left behind was delivered, has ended or is a dead letter.
\* Offsets in hand count as well as the committed one: after a rebalance an old
\* owner may commit an offset that lies before or after the committed one.
PassedIsDealt == \A i \in 1..Len(topic) : Passed(i) => Dealt(topic[i])

\* Only the workers and the group's coordinator touch the workers' state.
LEMMA WorkerKinds ==
    ASSUME [DeliveryNext]_vars
    PROVE  \/ UNCHANGED <<worker, committed, owner, downlinks, disturbed>>
           \/ \E w \in Workers : WorkerStep(w) \/ WorkerCrash(w) \/ Rebalance(w)
<1>1. ASSUME NEW d \in Cores, \/ Claim(d) \/ PublishCommand(d) \/ PublishFails(d)
                              \/ MarkPublished(d) \/ Reschedule(d) \/ CoreCrash(d)
      PROVE  UNCHANGED <<worker, committed, owner, downlinks, disturbed>>
  BY <1>1, ZenonT(30) DEF Claim, PublishCommand, PublishFails, MarkPublished,
     Reschedule, CoreCrash, DispatchUnchanged, kafkaVars, ghostVars
<1>2. ASSUME NEW d \in Cores, Scan(d)
      PROVE  UNCHANGED <<worker, committed, owner, downlinks, disturbed>>
  BY <1>2 DEF Scan, ScanRequeue, ScanFail, ScanExpire, ScanError, ScanUnchanged,
              kafkaVars, ghostVars
<1>3. LoopsUnchanged \/ UNCHANGED vars \/ Replay
         => UNCHANGED <<worker, committed, owner, downlinks, disturbed>>
  BY DEF LoopsUnchanged, Replay, vars, kafkaVars, ghostVars
<1> QED
  BY <1>1, <1>2, <1>3 DEF DeliveryNext, DeployedNext, Create, Ack, Clock

\* A worker's step leaves the topic and the other workers alone.
LEMMA WorkerStepFrame ==
    ASSUME DeliveryTypeOK, NEW w \in Workers,
           WorkerStep(w) \/ WorkerCrash(w) \/ Rebalance(w)
    PROVE  topic' = topic /\ \A v \in Workers \ {w} : worker'[v] = worker[v]
<1>1. worker \in [Workers -> {Waiting} \cup Working(Len(topic))]
  BY DEF DeliveryTypeOK, Working
<1>2. topic' = topic
  BY Zenon DEF WorkerStep, Fetch, Downlink, DownlinkFails, MarkSent, Requeue,
     DeadLetter, Commit, WorkerCrash, Rebalance, WorkerUnchanged
<1>3. ASSUME NEW v \in Workers \ {w} PROVE worker'[v] = worker[v]
  BY <1>1, <1>3, ZenonT(30) DEF WorkerStep, Fetch, Downlink, DownlinkFails, MarkSent,
     Requeue, DeadLetter, Commit, WorkerCrash, Rebalance, Step
<1> QED  BY <1>2, <1>3

\* The group leaves no event behind that still has to be delivered.
LEMMA PassedIsDealtStep ==
    ASSUME TypeOK, DeliveryTypeOK, RowsExist, PassedIsDealt, [DeliveryNext]_vars
    PROVE  PassedIsDealt'
  \* What is settled stays settled.
<1>DealtStays.
      ASSUME TypeOK, DeliveryTypeOK, [DeliveryNext]_vars, NEW e \in Events, Dealt(e)
      PROVE  Dealt(e)'
  <2> USE <1>DealtStays
  <2>1. e.cmd \in Commands /\ [Next]_storeVars
    BY DeliveryStepIsStoreStep, Zenon DEF Events
  <2> QED
    BY <2>1, StatusMoves, TopicMoves DEF Dealt
  \* A worker passes an offset only by fetching an event that needs no delivery,
  \* by marking its command sent, or by dead-lettering it.
<1>WorkerPasses.
      ASSUME TypeOK, DeliveryTypeOK, RowsExist, NEW w \in Workers,
             WorkerStep(w) \/ WorkerCrash(w) \/ Rebalance(w),
             NEW i \in 1..Len(topic), Passed(i)'
      PROVE  Passed(i) \/ Dealt(topic[i])'
  <2> USE <1>WorkerPasses
  <2>0. /\ worker \in [Workers -> {Waiting} \cup Working(Len(topic))]
        /\ topic' = topic /\ \A v \in Workers \ {w} : worker'[v] = worker[v]
        /\ committed \in Nat /\ Len(topic) \in Nat
    BY WorkerStepFrame DEF DeliveryTypeOK, Working
  <2> DEFINE Ahead(v) ==
               /\ ~At(v, "fetch")
               /\ i < worker[v].offset \/ (i = worker[v].offset /\ At(v, "commit"))
  <2>1. ASSUME committed' = committed, Ahead(w)' => Passed(i) \/ Dealt(topic[i])'
        PROVE  Passed(i) \/ Dealt(topic[i])'
    <3>1. CASE i <= committed'
      BY <2>1, <3>1 DEF Passed
    <3>2. ASSUME NEW v \in Workers, Ahead(v)' PROVE Passed(i) \/ Dealt(topic[i])'
      <4>1. CASE v = w
        BY <2>1, <3>2, <4>1, Zenon
      <4>2. CASE v # w
        <5>1. Ahead(v)
          BY <2>0, <3>2, <4>2, Zenon DEF At
        <5> QED  BY <5>1, Zenon DEF Passed
      <4> QED  BY <4>1, <4>2, Zenon
    <3> QED  BY <3>1, <3>2, Zenon DEF Passed
  <2>2. CASE Fetch(w)
    <3>1. /\ committed' = committed
          /\ worker'[w].offset = committed + 1
          /\ worker'[w].pc = "commit" => ~Deliverable(topic[committed + 1].cmd)
          /\ commands' = commands
      BY <2>0, <2>2 DEF Fetch, storeVars
    <3>2. ASSUME Ahead(w)' PROVE Passed(i) \/ Dealt(topic[i])'
      <4>1. CASE i <= committed
        BY <4>1, Zenon DEF Passed
      <4>2. CASE ~(i <= committed)
        <5>1. i = committed + 1 /\ ~Deliverable(topic[i].cmd)
          BY <2>0, <3>1, <3>2, <4>2 DEF At
        <5>2. topic[i].cmd \in Commands /\ commands[topic[i].cmd].status # "absent"
          BY EventsTyped, Zenon DEF RowsExist
        <5>3. commands[topic[i].cmd].status \in Status
          BY <5>2, Zenon DEF TypeOK, Row
        <5>4. commands[topic[i].cmd].status \in Past
          BY <5>1, <5>2, <5>3 DEF Deliverable, Status, Active, Past
        <5> QED  BY <2>0, <3>1, <5>4, Zenon DEF Dealt
      <4> QED  BY <4>1, <4>2, Zenon
    <3> QED  BY <2>1, <3>1, <3>2, Zenon
  <2>3. ASSUME Downlink(w) \/ DownlinkFails(w) \/ Requeue(w) \/ MarkSent(w) \/ DeadLetter(w)
        PROVE  /\ committed' = committed /\ ~At(w, "fetch")
               /\ worker'[w].offset = worker[w].offset
               /\ At(w, "commit")' => MarkSent(w) \/ DeadLetter(w)
    <3>1. ~At(w, "fetch") /\ committed' = committed
      BY <2>3, Zenon DEF Downlink, DownlinkFails, Requeue, MarkSent, DeadLetter, At
    <3>2. worker[w] \in Working(Len(topic))
      BY <3>1, InHandTyped, Zenon
    <3>3. PICK pc : Step(w, pc) /\ (pc = "commit" => MarkSent(w) \/ DeadLetter(w))
      BY <2>3 DEF Downlink, DownlinkFails, Requeue, MarkSent, DeadLetter
    <3>4. worker'[w] = [worker[w] EXCEPT !.pc = pc]
      BY <2>0, <3>3 DEF Step
    <3> QED
      BY <3>1, <3>2, <3>3, <3>4 DEF Working, At
  <2>4. CASE Downlink(w) \/ DownlinkFails(w) \/ Requeue(w)
    <3>1. ~(MarkSent(w) \/ DeadLetter(w))
      BY <2>4, ZenonT(30) DEF Downlink, DownlinkFails, Requeue, MarkSent, DeadLetter, At
    <3>2. Ahead(w)' => Passed(i)
      BY <2>3, <2>4, <3>1, ZenonT(30) DEF Passed
    <3> QED  BY <2>1, <2>3, <2>4, <3>2, ZenonT(30)
  <2>5. CASE MarkSent(w) \/ DeadLetter(w)
    <3>1. Dealt(InHand(w))'
      <4>1. InHand(w)' = InHand(w) /\ InHand(w).cmd \in Commands
        BY <2>0, <2>3, <2>5, InHandTyped, ZenonT(30) DEF InHand
      <4>2. CASE DeadLetter(w)
        BY <4>1, <4>2, ZenonT(30) DEF DeadLetter, Dealt
      <4>3. CASE MarkSent(w)
        <5> DEFINE c == InHand(w).cmd
        <5>0. MarkCommandSent(c) /\ At(w, "sent")
          BY <4>3 DEF MarkSent
        <5>1. c \in Commands /\ commands[c] \in Row
          BY <4>1 DEF TypeOK
        <5>2. commands[c].status # "absent"
          BY <2>3, <2>5, InHandTyped, ZenonT(30) DEF RowsExist, InHand, Working
        <5>3. commands'[c].status \in Past
          <6>1. CASE commands[c].status \in {"created", "published"}
            BY <5>0, <5>1, <6>1, ZenonT(30)
            DEF MarkCommandSent, UpdateCommandsWithEvent, SetSent, Row, Past
          <6>2. CASE commands[c].status \notin {"created", "published"}
            BY <5>0, <5>1, <5>2, <6>2, ZenonT(30)
            DEF MarkCommandSent, UpdateCommandsWithEvent, Row, Status, Active, Past
          <6> QED  BY <6>1, <6>2
        <5> QED  BY <4>1, <5>3 DEF Dealt
      <4> QED  BY <2>5, <4>2, <4>3
    <3>2. ASSUME Ahead(w)' PROVE Passed(i) \/ Dealt(topic[i])'
      <4>1. CASE i < worker[w].offset
        BY <2>3, <2>5, <4>1, ZenonT(30) DEF Passed
      <4>2. CASE i = worker[w].offset
        BY <2>0, <2>3, <2>5, <3>1, <4>2, ZenonT(30) DEF InHand
      <4> QED  BY <2>3, <2>5, <3>2, <4>1, <4>2, ZenonT(30)
    <3> QED  BY <2>1, <2>3, <2>5, <3>2, Zenon
  <2>6. CASE Commit(w)
    <3>1. ~At(w, "fetch") /\ At(w, "commit") /\ committed' = worker[w].offset
      BY <2>6 DEF Commit, At
    <3>2. worker'[w].pc = "fetch"
      BY <2>0, <2>6 DEF Commit, Waiting
    <3>3. CASE i <= committed'
      <4>1. worker[w].offset \in Nat
        BY <2>0, <3>1, InHandTyped DEF Working
      <4>2. i < worker[w].offset \/ i = worker[w].offset
        BY <3>1, <3>3, <4>1
      <4> QED  BY <3>1, <4>2, ZenonT(30) DEF Passed
    <3>4. ASSUME NEW v \in Workers, Ahead(v)' PROVE Passed(i)
      <4>1. v # w
        BY <3>2, <3>4 DEF At
      <4>2. Ahead(v)
        BY <2>0, <3>4, <4>1 DEF At
      <4> QED  BY <4>2, ZenonT(30) DEF Passed
    <3> QED  BY <3>3, <3>4 DEF Passed
  <2>7. CASE WorkerCrash(w)
    <3>1. At(w, "fetch")'
      BY <2>0, <2>7 DEF WorkerCrash, Waiting, At
    <3>2. committed' = committed
      BY <2>7 DEF WorkerCrash
    <3> QED  BY <2>1, <3>1, <3>2, Zenon
  <2>8. CASE Rebalance(w)
    <3>1. committed' = committed /\ worker' = worker
      BY <2>8 DEF Rebalance
    <3> QED  BY <3>1, Zenon DEF Passed, At
  <2> QED
    BY <2>2, <2>4, <2>5, <2>6, <2>7, <2>8, Zenon DEF WorkerStep
<1> SUFFICES ASSUME NEW i \in 1..Len(topic'), Passed(i)'
             PROVE  Dealt(topic[i])'
  BY DEF PassedIsDealt
<1>1. i \in 1..Len(topic) /\ (Passed(i) \/ Dealt(topic[i])')
  <2>1. CASE UNCHANGED <<worker, committed, owner, downlinks, disturbed>>
    <3>1. Passed(i)
      BY <2>1, Zenon DEF Passed, At
    <3>2. ASSUME NEW w \in Workers, ~At(w, "fetch") PROVE worker[w].offset \in 1..Len(topic)
      BY <3>2, InHandTyped DEF Working
    <3>3. committed \in 0..Len(topic) /\ Len(topic) \in Nat
      BY DEF DeliveryTypeOK
    <3>4. i <= Len(topic)
      BY <3>1, <3>2, <3>3 DEF Passed
    <3> QED  BY <3>1, <3>3, <3>4
  <2>2. ASSUME NEW w \in Workers, WorkerStep(w) \/ WorkerCrash(w) \/ Rebalance(w)
        PROVE  i \in 1..Len(topic) /\ (Passed(i) \/ Dealt(topic[i])')
    BY <2>2, WorkerStepFrame, <1>WorkerPasses, Zenon
  <2> QED  BY <2>1, <2>2, WorkerKinds
<1>2. topic[i] \in Events /\ topic'[i] = topic[i]
  BY <1>1, EventsTyped, TopicMoves
<1>3. CASE Passed(i)
  <2>1. Dealt(topic[i])
    BY <1>1, <1>3 DEF PassedIsDealt
  <2>2. ASSUME NEW e \in Events, e = topic[i], e = topic'[i] PROVE Dealt(topic[i])'
    BY <2>1, <2>2, <1>DealtStays
  <2> QED  BY <1>2, <2>2
<1> QED  BY <1>1, <1>3, Zenon

\* Where the group stands, what the topic holds and what the rows say agree.
PendingInv == RowsExist /\ PublishedHasEvent /\ PassedIsDealt

\* Nothing is published before the first claim.
LEMMA PendingInit == DeliveryInit => PendingInv
<1> SUFFICES ASSUME DeliveryInit PROVE PendingInv
  OBVIOUS
<1>1. /\ topic = <<>> /\ Len(topic) = 0 /\ dlq = {}
      /\ \A d \in Cores : dispatcher[d] = Idle
  BY DEF DeliveryInit
<1>2. \A c \in Commands : commands[c].status # "published"
  <2>1. \A c \in Commands :
           commands[c].status = IF c \in Legacy THEN "sent" ELSE "absent"
    BY Zenon DEF DeliveryInit, Init, AbsentRow, LegacyRow
  <2> QED  BY <2>1, Zenon
<1>3. RowsExist
  BY <1>1 DEF RowsExist
<1>4. PublishedHasEvent
  BY <1>1, <1>2 DEF PublishedHasEvent, Idle
<1>5. PassedIsDealt
  BY <1>1 DEF PassedIsDealt
<1> QED  BY <1>3, <1>4, <1>5 DEF PendingInv

\* The event of a published row is either still to be consumed, or was passed
\* and is a dead letter: had its command been delivered or ended, the row would
\* not be published.
LEMMA PendingFollows == DeliveryTypeOK /\ PendingInv => PublishedIsPending
<1> SUFFICES ASSUME DeliveryTypeOK, PendingInv, NEW c \in Commands,
                    commands[c].status = "published"
             PROVE  \/ \E i \in (committed + 1)..Len(topic) : topic[i].cmd = c
                    \/ [cmd |-> c, attempt |-> commands[c].attempts] \in dlq
  BY ZenonT(30) DEF PublishedIsPending
<1> DEFINE e == [cmd |-> c, attempt |-> commands[c].attempts]
<1>1. PICK i \in 1..Len(topic) : topic[i] = e
  BY ZenonT(30) DEF PendingInv, PublishedHasEvent
<1>2. committed \in Nat /\ Len(topic) \in Nat
  BY DEF DeliveryTypeOK
<1>3. CASE i <= committed
  <2>1. Dealt(e)
    BY <1>1, <1>3, Zenon DEF PendingInv, PassedIsDealt, Passed
  <2> QED  BY <2>1, Zenon DEF Dealt, Past, Terminal
<1>4. CASE ~(i <= committed)
  BY <1>1, <1>2, <1>4
<1> QED  BY <1>3, <1>4

\* The consumer group never leaves a published command behind: its event is
\* still to be consumed or is in the dead letter queue, through duplicate
\* writes, lost completions, crashes, rebalances and replays.
THEOREM PendingSafe == DeliverySpec => []PublishedIsPending
<1>1. (TypeOK /\ DeliveryTypeOK) /\ PendingInv /\ [DeliveryNext]_vars => PendingInv'
  BY RowsExistStep, PublishedHasEventStep, PassedIsDealtStep DEF PendingInv
<1>2. DeliverySpec => []PendingInv
  BY <1>1, PendingInit, DeliveryTypes, PTL DEF DeliverySpec
<1> QED
  BY <1>2, DeliveryTypes, PendingFollows, PTL

-----------------------------------------------------------------------------
(* Downlinks                                                               *)

\* How an event comes into a worker's hand, and how it is handled there.
LEMMA HandMoves ==
    ASSUME TypeOK, DeliveryTypeOK, [DeliveryNext]_vars, NEW w \in Workers
    PROVE  /\ ~At(w, "fetch")' => \/ Fetch(w)
                                  \/ ~At(w, "fetch") /\ InHand(w)' = InHand(w)
           /\ At(w, "downlink")' => Fetch(w) \/ At(w, "downlink")
           /\ At(w, "sent")' => Downlink(w) \/ At(w, "sent")
           /\ At(w, "sent") => At(w, "sent")' \/ MarkSent(w) \/ WorkerCrash(w)
<1>0. worker \in [Workers -> {Waiting} \cup Working(Len(topic))]
  BY DEF DeliveryTypeOK, Working
<1>1. ASSUME ~At(w, "fetch"), worker'[w].offset = worker[w].offset
      PROVE  InHand(w)' = InHand(w)
  <2>1. worker[w].offset \in 1..Len(topic)
    BY <1>1, InHandTyped, ZenonT(30) DEF Working
  <2> QED
    BY <1>1, <2>1, TopicMoves, ZenonT(30) DEF InHand
<1>2. CASE worker'[w] = worker[w]
  BY <1>1, <1>2, ZenonT(30) DEF At
<1>3. ASSUME NEW pc, Step(w, pc), ~At(w, "fetch")
      PROVE  worker'[w].pc = pc /\ InHand(w)' = InHand(w)
  <2>1. worker'[w] = [worker[w] EXCEPT !.pc = pc] /\ worker[w] \in Working(Len(topic))
    BY <1>0, <1>3, InHandTyped DEF Step
  <2>2. worker'[w].pc = pc /\ worker'[w].offset = worker[w].offset
    BY <2>1, Zenon DEF Working
  <2> QED  BY <1>1, <1>3, <2>2, Zenon
<1>4. CASE Fetch(w)
  BY <1>0, <1>4 DEF Fetch, At
<1>5. CASE Downlink(w)
  BY <1>3, <1>5, ZenonT(30) DEF Downlink, At
<1>6. CASE DownlinkFails(w)
  BY <1>3, <1>6 DEF DownlinkFails, At
<1>7. CASE MarkSent(w)
  BY <1>3, <1>7 DEF MarkSent, At
<1>8. CASE Requeue(w)
  BY <1>3, <1>8 DEF Requeue, At
<1>9. CASE DeadLetter(w)
  BY <1>3, <1>9 DEF DeadLetter, At
<1>10. CASE Commit(w) \/ WorkerCrash(w)
  BY <1>0, <1>10 DEF Commit, WorkerCrash, Waiting, At
<1>11. CASE Rebalance(w)
  BY <1>2, <1>11, Zenon DEF Rebalance
<1>12. ASSUME NEW v \in Workers, v # w, WorkerStep(v) \/ WorkerCrash(v) \/ Rebalance(v)
       PROVE  worker'[w] = worker[w]
  BY <1>12, WorkerStepFrame
<1> QED
  BY <1>2, <1>4, <1>5, <1>6, <1>7, <1>8, <1>9, <1>10, <1>11, <1>12, WorkerKinds, ZenonT(30)
  DEF WorkerStep

\* Only a publish counts a downlink, and the count never falls.
LEMMA DownlinkMoves ==
    ASSUME TypeOK, DeliveryTypeOK, [DeliveryNext]_vars, NEW c \in Commands
    PROVE  \/ downlinks'[c] = downlinks[c]
           \/ /\ downlinks'[c] = Saturated(downlinks[c])
              /\ downlinks'[c] > 0
              /\ \E w \in Workers : /\ Downlink(w) \/ DownlinkFails(w)
                                    /\ InHand(w).cmd = c
<1>0. downlinks \in [Commands -> 0..Many] /\ Many \in Nat /\ Many > 0
  BY DeliveryAssumption DEF DeliveryTypeOK
<1>1. ASSUME NEW w \in Workers,
             \/ Fetch(w) \/ MarkSent(w) \/ Requeue(w) \/ DeadLetter(w)
             \/ Commit(w) \/ WorkerCrash(w) \/ Rebalance(w)
      PROVE  downlinks' = downlinks
  BY <1>1 DEF Fetch, MarkSent, Requeue, DeadLetter, Commit, WorkerCrash, Rebalance,
              ghostVars
<1>2. ASSUME NEW w \in Workers, Downlink(w) \/ DownlinkFails(w)
      PROVE  \/ downlinks'[c] = downlinks[c]
             \/ /\ downlinks'[c] = Saturated(downlinks[c])
                /\ downlinks'[c] > 0
                /\ InHand(w).cmd = c
  <2>1. \/ downlinks' = downlinks
        \/ downlinks' = [downlinks EXCEPT ![InHand(w).cmd] = Saturated(@)]
    BY <1>2 DEF Downlink, DownlinkFails
  <2>2. Saturated(downlinks[c]) > 0
    BY <1>0 DEF Saturated
  <2> QED  BY <1>0, <2>1, <2>2
<1> QED
  BY <1>1, <1>2, WorkerKinds, ZenonT(30) DEF WorkerStep

\* No statement but MarkCommandSent enters 'sent'.
Undelivered ==
    \A c \in Commands : commands'[c].status = "sent" => commands[c].status = "sent"

\* A worker that is about to run MarkCommandSent has published the downlink.
SentHasDownlink ==
    \A w \in Workers : At(w, "sent") => downlinks[InHand(w).cmd] > 0

DownlinkInv == SentHasDownlink /\ DeliveredMeansDownlink

\* A 'delivered' entry is written by MarkSent alone, which follows Downlink.
LEMMA DownlinkInvStep ==
    ASSUME TypeOK, DeliveryTypeOK, DownlinkInv, [DeliveryNext]_vars
    PROVE  DownlinkInv'
  \* A command becomes 'sent' only by the MarkCommandSent of a worker that has its
  \* event in hand and has published it.
<1>OnlyMarkSentDelivers.
        ASSUME TypeOK, DeliveryTypeOK, [DeliveryNext]_vars, NEW c \in Commands,
               commands'[c].status = "sent", commands[c].status # "sent"
        PROVE  \E w \in Workers : MarkSent(w) /\ InHand(w).cmd = c
      \* The other statements, and the clock, enter no 'sent'.
  <2> USE <1>OnlyMarkSentDelivers
  <2>OtherStatementsDoNotSend.
          ASSUME TypeOK
          PROVE  /\ \A c0 \in Commands :
                      /\ CreateCommand(c0) \/ ClaimCommand(c0) \/ RequeueCommand(c0) => Undelivered
                      /\ \A n \in 1..MaxDispatchAttempts :
                            MarkCommandPublished(c0, n) \/ RescheduleCommand(c0, n) => Undelivered
                      /\ \A r \in Reports : AckCommandResult(c0, r) => Undelivered
                      /\ Tick(c0) => Undelivered
                 /\ \A C \in SUBSET Commands :
                      RequeueStale(C) \/ FailExhausted(C) \/ ExpireCommands(C) => Undelivered
                 /\ UNCHANGED storeVars => Undelivered
        \* The assignments of the statements other than MarkCommandSent.
    <3> USE <2>OtherStatementsDoNotSend
    <3>OtherSettersDoNotSend.
          ASSUME NEW row \in Row
          PROVE  /\ InsertCreated(row).status # "sent"
                 /\ SetPublished(row).status # "sent"
                 /\ SetRequeued(row).status # "sent"
                 /\ SetRedispatch(row).status # "sent"
                 /\ SetFailed(row).status # "sent"
                 /\ SetTimeout(row).status # "sent"
                 /\ SetClaimed(row).status = row.status
                 /\ SetBackoff(row).status = row.status
                 /\ SetDue(row).status = row.status
                 /\ SetStale(row).status = row.status
                 /\ SetPassed(row).status = row.status
      BY Zenon DEF Row, InsertCreated, SetPublished, SetRequeued, SetRedispatch, SetFailed,
         SetTimeout, SetClaimed, SetBackoff, SetDue, SetStale, SetPassed
    <3>0. commands \in [Commands -> Row]
      BY Zenon DEF TypeOK
    <3>1. ASSUME NEW c0 \in Commands, CreateCommand(c0) PROVE Undelivered
      BY <3>0, <3>1, <3>OtherSettersDoNotSend, Zenon
      DEF Undelivered, CreateCommand, UpdateCommandsWithEvent
    <3>2. ASSUME NEW c0 \in Commands, ClaimCommand(c0) PROVE Undelivered
      BY <3>0, <3>2, <3>OtherSettersDoNotSend, Zenon DEF Undelivered, ClaimCommand, UpdateCommand
    <3>3. ASSUME NEW c0 \in Commands, NEW n \in 1..MaxDispatchAttempts,
                 MarkCommandPublished(c0, n)
          PROVE  Undelivered
      BY <3>0, <3>3, <3>OtherSettersDoNotSend, SMTT(30)
      DEF Undelivered, MarkCommandPublished, UpdateCommandsWithEvent
    <3>4. ASSUME NEW c0 \in Commands, NEW n \in 1..MaxDispatchAttempts,
                 RescheduleCommand(c0, n)
          PROVE  Undelivered
      BY <3>0, <3>4, <3>OtherSettersDoNotSend, SMTT(30)
      DEF Undelivered, RescheduleCommand, UpdateCommand, storeVars
    <3>5. ASSUME NEW c0 \in Commands, RequeueCommand(c0) PROVE Undelivered
      BY <3>0, <3>5, <3>OtherSettersDoNotSend, SMTT(30)
      DEF Undelivered, RequeueCommand, UpdateCommandsWithEvent
    <3>6. ASSUME NEW c0 \in Commands, NEW r \in Reports, AckCommandResult(c0, r)
          PROVE  Undelivered
      <4> DEFINE new == NormalizeCommandResult(r)
      <4>1. ValidReport(r)
        BY <3>6, Zenon DEF AckCommandResult, AckOutcome
      <4>2. new.status \in {"acked", "failed"}
        BY <4>1, NormalizedTyped DEF Results
      <4>3. PICK next \in AdvanceCommandStatus(commands[c0].status, new.status) :
               commands' = [commands EXCEPT ![c0] = SetResult(@, next, new)]
        BY <3>6, ZenonT(30) DEF AckCommandResult
      <4>4. next # "sent"
        BY <4>2, Zenon DEF AdvanceCommandStatus, Transitions
      <4> QED
        BY <3>0, <4>3, <4>4 DEF Undelivered, SetResult, Row
    <3>7. ASSUME NEW c0 \in Commands, Tick(c0) PROVE Undelivered
      BY <3>0, <3>7, <3>OtherSettersDoNotSend, ZenonT(30)
      DEF Undelivered, Tick, LeaseEnds, TurnsStale, DeadlinePasses, UpdateCommand
    <3>8. ASSUME NEW C \in SUBSET Commands,
                 RequeueStale(C) \/ FailExhausted(C) \/ ExpireCommands(C)
          PROVE  Undelivered
      BY <3>0, <3>8, <3>OtherSettersDoNotSend, SMTT(30)
      DEF Undelivered, RequeueStale, FailExhausted, ExpireCommands, UpdateCommandsWithEvent
    <3>9. UNCHANGED storeVars => Undelivered
      BY DEF Undelivered, storeVars
    <3> QED
      BY <3>1, <3>2, <3>3, <3>4, <3>5, <3>6, <3>7, <3>8, <3>9, Zenon
  <2>0. ~Undelivered
    BY ZenonT(30) DEF Undelivered
  <2>1. ASSUME NEW d \in Cores, \/ Claim(d) \/ PublishCommand(d) \/ PublishFails(d)
                                \/ MarkPublished(d) \/ Reschedule(d) \/ CoreCrash(d)
        PROVE  FALSE
    <3>1. CASE Claim(d)
      BY <2>0, <3>1, <2>OtherStatementsDoNotSend, Zenon DEF Claim
    <3>2. CASE PublishCommand(d) \/ PublishFails(d) \/ CoreCrash(d)
      BY <2>0, <3>2, <2>OtherStatementsDoNotSend DEF PublishCommand, PublishFails, CoreCrash
    <3>3. CASE MarkPublished(d) \/ Reschedule(d)
      <4>1. dispatcher[d] \in Busy
        BY <3>3, SMTT(60) DEF MarkPublished, Reschedule, DeliveryTypeOK, Busy, Idle
      <4>2. /\ dispatcher[d].cmd \in Commands
            /\ dispatcher[d].attempt \in 1..MaxDispatchAttempts
        BY <4>1 DEF Busy
      <4> QED
        BY <2>0, <3>3, <4>2, <2>OtherStatementsDoNotSend, ZenonT(30) DEF MarkPublished, Reschedule
    <3> QED  BY <2>1, <3>1, <3>2, <3>3
  <2>2. ASSUME NEW d \in Cores, Scan(d) PROVE FALSE
    BY <2>0, <2>2, <2>OtherStatementsDoNotSend, ZenonT(30)
    DEF Scan, ScanRequeue, ScanFail, ScanExpire, ScanError, Matching
  <2>3. ASSUME NEW w \in Workers, WorkerStep(w) \/ WorkerCrash(w) \/ Rebalance(w)
        PROVE  MarkSent(w) /\ InHand(w).cmd = c
    <3>1. ASSUME \/ Fetch(w) \/ Downlink(w) \/ DownlinkFails(w) \/ DeadLetter(w)
                 \/ Commit(w) \/ WorkerCrash(w) \/ Rebalance(w)
          PROVE  FALSE
      <4>1. UNCHANGED storeVars
        BY <3>1, Zenon DEF Fetch, Downlink, DownlinkFails, DeadLetter, Commit,
                    WorkerCrash, Rebalance
      <4> QED  BY <2>0, <4>1, <2>OtherStatementsDoNotSend, Zenon
    <3>2. ~Requeue(w)
      <4>1. SUFFICES ASSUME Requeue(w) PROVE FALSE
        OBVIOUS
      <4>2. InHand(w).cmd \in Commands
        BY <4>1, InHandTyped, ZenonT(30) DEF Requeue, At
      <4> QED
        BY <2>0, <4>1, <4>2, <2>OtherStatementsDoNotSend, ZenonT(30) DEF Requeue
    <3>3. MarkSent(w)
      BY <2>3, <3>1, <3>2, ZenonT(30) DEF WorkerStep
    <3>4. InHand(w).cmd = c
      BY <3>3, ZenonT(30) DEF MarkSent, MarkCommandSent, UpdateCommandsWithEvent
    <3> QED  BY <3>3, <3>4
  <2>4. ASSUME NEW x \in Commands, Create(x) \/ Ack(x) \/ Clock(x) PROVE FALSE
    BY <2>0, <2>4, <2>OtherStatementsDoNotSend, ZenonT(30) DEF Create, Ack, Clock
  <2>5. ASSUME Replay \/ UNCHANGED vars PROVE FALSE
    BY <2>0, <2>5, <2>OtherStatementsDoNotSend, ZenonT(30) DEF Replay, vars
  <2> QED
    BY <2>1, <2>2, <2>3, <2>4, <2>5, Zenon DEF DeliveryNext, DeployedNext
<1>0. /\ [Next]_storeVars /\ DeliveryTypeOK'
      /\ downlinks \in [Commands -> 0..Many] /\ Many \in Nat /\ Many > 0
  BY DeliveryStepIsStoreStep, DeliveryStepTyped, DeliveryAssumption DEF DeliveryTypeOK
<1>1. ASSUME NEW c \in Commands, downlinks[c] > 0 PROVE downlinks'[c] > 0
  BY <1>1, DownlinkMoves
<1>2. ASSUME NEW w \in Workers, At(w, "sent")' PROVE downlinks'[InHand(w)'.cmd] > 0
  <2>1. CASE Downlink(w)
    <3>1. ~At(w, "fetch") /\ ~At(w, "fetch")' /\ ~Fetch(w)
      BY <1>2, <2>1 DEF Downlink, Fetch, At
    <3>2. InHand(w).cmd \in Commands /\ InHand(w)' = InHand(w)
      BY <3>1, InHandTyped, HandMoves
    <3>3. downlinks'[InHand(w).cmd] = Saturated(downlinks[InHand(w).cmd])
      BY <1>0, <2>1, <3>2 DEF Downlink
    <3>4. downlinks[InHand(w).cmd] \in 0..Many
      BY <1>0, <3>2, Zenon
    <3> QED  BY <1>0, <3>2, <3>3, <3>4 DEF Saturated
  <2>2. CASE At(w, "sent") /\ ~Downlink(w)
    <3>1. ~At(w, "fetch") /\ ~At(w, "fetch")' /\ ~Fetch(w)
      BY <1>2, <2>2, Zenon DEF Fetch, At
    <3>2. InHand(w).cmd \in Commands /\ InHand(w)' = InHand(w)
      BY <3>1, InHandTyped, HandMoves
    <3> QED  BY <1>1, <2>2, <3>2, Zenon DEF DownlinkInv, SentHasDownlink
  <2> QED  BY <1>2, <2>1, <2>2, HandMoves, ZenonT(30)
<1>3. ASSUME NEW c \in Commands, NEW i \in DOMAIN command_events'[c],
             command_events'[c][i] = "delivered"
      PROVE  downlinks'[c] > 0
  <2>0. command_events[c] \in Seq(Event)
    BY Zenon DEF TypeOK
  <2>1. CASE i \in DOMAIN command_events[c] /\ command_events[c][i] = "delivered"
    BY <1>1, <2>1, Zenon DEF DownlinkInv, DeliveredMeansDownlink
  <2>2. CASE commands'[c].status = "sent" /\ commands[c].status # "sent"
    <3>1. PICK w \in Workers : MarkSent(w) /\ InHand(w).cmd = c
      BY <2>2, <1>OnlyMarkSentDelivers
    <3> QED  BY <1>1, <3>1, Zenon DEF MarkSent, DownlinkInv, SentHasDownlink
  <2>3. RowStep(c)
    BY <1>0, NextIsRowSteps, Zenon
  <2>4. CASE Quiet(c)
    BY <1>3, <2>1, <2>4, Zenon DEF Quiet
  <2>5. ASSUME NEW event \in Event, command_events'[c] = Append(command_events[c], event)
        PROVE  \/ i \in DOMAIN command_events[c] /\ command_events[c][i] = "delivered"
               \/ event = "delivered"
    BY <1>3, <2>0, <2>5
  <2>6. ASSUME NEW event \in Event, Logged(c, event)
        PROVE  downlinks'[c] > 0
    <3>1. event = "delivered" => commands'[c].status = "sent" /\ commands[c].status # "sent"
      BY <2>6, ZenonT(30) DEF Logged, Edges
    <3> QED  BY <2>1, <2>2, <2>5, <2>6, <3>1 DEF Logged
  <2>7. ASSUME NEW new \in Results, Reported(c, new)
        PROVE  downlinks'[c] > 0
    <3>1. new.status \in Event /\ new.status # "delivered"
      BY DEF Results, Event
    <3> QED  BY <2>1, <2>5, <2>7, <3>1, Zenon DEF Reported
  <2> QED  BY <2>3, <2>4, <2>6, <2>7 DEF RowStep
<1> QED
  BY <1>2, <1>3, ZenonT(30) DEF DownlinkInv, SentHasDownlink, DeliveredMeansDownlink

\* A 'delivered' entry of the audit trail means that a downlink was handed to
\* the broker, whatever the workers, the broker and the devices do.
THEOREM DownlinkSafe == DeliverySpec => []DeliveredMeansDownlink
<1>1. DeliveryInit => DownlinkInv
  <2>1. DeliveryInit => /\ \A w \in Workers : worker[w] = Waiting
                        /\ \A c \in Commands : command_events[c] = <<>>
    BY DEF DeliveryInit, Init
  <2> QED
    BY <2>1 DEF DownlinkInv, SentHasDownlink, DeliveredMeansDownlink, At, Waiting
<1>2. (TypeOK /\ DeliveryTypeOK) /\ DownlinkInv /\ [DeliveryNext]_vars => DownlinkInv'
  BY DownlinkInvStep
<1>3. DownlinkInv => DeliveredMeansDownlink
  BY DEF DownlinkInv
<1> QED
  BY <1>1, <1>2, <1>3, DeliveryTypes, PTL DEF DeliverySpec

\* Nothing ends a disturbance, and a rebalance disturbs what the old owner holds.
LEMMA DisturbanceMoves ==
    ASSUME TypeOK, DeliveryTypeOK, [DeliveryNext]_vars
    PROVE  /\ disturbed \subseteq disturbed'
           /\ owner' = owner \/ \E w \in Workers : Rebalance(w)
<1>1. ASSUME NEW w \in Workers, WorkerStep(w) \/ WorkerCrash(w)
      PROVE  disturbed \subseteq disturbed' /\ owner' = owner
  <2>1. owner' = owner
    BY <1>1, Zenon DEF WorkerStep, Fetch, Downlink, DownlinkFails, MarkSent, Requeue,
       DeadLetter, Commit, WorkerCrash, WorkerUnchanged
  <2>2. disturbed \subseteq disturbed'
    BY <1>1, SMTT(60) DEF WorkerStep, Fetch, Downlink, DownlinkFails, MarkSent, Requeue,
       DeadLetter, Commit, WorkerCrash, ghostVars
  <2> QED  BY <2>1, <2>2
<1>2. ASSUME NEW w \in Workers, Rebalance(w) PROVE disturbed \subseteq disturbed'
  BY <1>2, Zenon DEF Rebalance
<1> QED  BY <1>1, <1>2, WorkerKinds

\* A worker that works on an event of an undisturbed command owns the partition.
HandIsOwned ==
    \A w \in Workers :
        ~At(w, "fetch") /\ w # owner => InHand(w).cmd \in disturbed

\* An undisturbed command was sent at most once, and then no worker is about to
\* send it: its row says so, or the worker that sent it is about to write it.
SentOnce ==
    \A c \in Commands \ disturbed :
        /\ downlinks[c] \in {0, 1}
        /\ downlinks[c] = 1 =>
              /\ \A w \in Workers : At(w, "downlink") => InHand(w).cmd # c
              /\ \/ commands[c].status \in Past
                 \/ \E w \in Workers : At(w, "sent") /\ InHand(w).cmd = c

\* Only the owner fetches, and a rebalance disturbs what is in hand.
LEMMA HandIsOwnedStep ==
    ASSUME TypeOK, DeliveryTypeOK, HandIsOwned, [DeliveryNext]_vars
    PROVE  HandIsOwned'
<1> SUFFICES ASSUME NEW w \in Workers, ~At(w, "fetch")', w # owner'
             PROVE  InHand(w)'.cmd \in disturbed'
  BY Zenon DEF HandIsOwned
<1>1. CASE Fetch(w)
  BY <1>1 DEF Fetch, WorkerUnchanged
<1>2. CASE ~At(w, "fetch") /\ InHand(w)' = InHand(w)
  <2>1. CASE w # owner
    BY <1>2, <2>1, DisturbanceMoves, Zenon DEF HandIsOwned
  <2>2. ASSUME NEW v \in Workers, Rebalance(v), w = owner
        PROVE  InHand(w).cmd \in disturbed'
    BY <1>2, <2>2, DeliveryAssumption DEF Rebalance
  <2> QED  BY <1>2, <2>1, <2>2, DisturbanceMoves
<1> QED  BY <1>1, <1>2, HandMoves

\* A second downlink needs a worker that fetched the event before the first was
\* recorded, and then it is not the owner, or one that lost its record.
LEMMA SentOnceStep ==
    ASSUME TypeOK, DeliveryTypeOK, RowsExist, HandIsOwned, SentOnce, [DeliveryNext]_vars
    PROVE  SentOnce'
<1>0. [Next]_storeVars /\ DeliveryTypeOK' /\ Many \in Nat /\ Many > 1
  BY DeliveryStepIsStoreStep, DeliveryStepTyped, DeliveryAssumption
<1> SUFFICES ASSUME NEW c \in Commands, c \notin disturbed'
             PROVE  /\ downlinks'[c] \in {0, 1}
                    /\ downlinks'[c] = 1 =>
                         /\ \A w \in Workers : At(w, "downlink")' => InHand(w)'.cmd # c
                         /\ \/ commands'[c].status \in Past
                            \/ \E w \in Workers : At(w, "sent")' /\ InHand(w)'.cmd = c
  BY DEF SentOnce
<1>1. c \notin disturbed /\ c \in Commands \ disturbed
  BY DisturbanceMoves
<1>2. ASSUME NEW v \in Workers, NEW w \in Workers, ~At(v, "fetch"), ~At(w, "fetch"),
             InHand(v).cmd = c, InHand(w).cmd = c
      PROVE  v = w /\ v = owner
  BY <1>1, <1>2, Zenon DEF HandIsOwned
<1>3. ASSUME NEW v \in Workers, Downlink(v) \/ DownlinkFails(v), InHand(v).cmd = c
      PROVE  /\ downlinks[c] = 0 /\ downlinks'[c] = 1
             /\ ~At(v, "fetch") /\ At(v, "sent")' /\ InHand(v)' = InHand(v)
  <2>1. Downlink(v)
    BY <1>3, Zenon DEF DownlinkFails
  <2>2. At(v, "downlink") /\ ~At(v, "fetch")
    BY <2>1, Zenon DEF Downlink, At
  <2>3. downlinks[c] = 0
    BY <1>1, <1>3, <2>2, Zenon DEF SentOnce
  <2>4. worker \in [Workers -> {Waiting} \cup Working(Len(topic))]
    BY DEF DeliveryTypeOK, Working
  <2>5. At(v, "sent")'
    <3>1. worker'[v] = [worker[v] EXCEPT !.pc = "sent"] /\ worker[v] \in Working(Len(topic))
      BY <2>1, <2>2, <2>4, InHandTyped, Zenon DEF Downlink, Step
    <3> QED  BY <3>1 DEF Working, At
  <2>6. downlinks'[c] = 1
    BY <1>0, <1>3, <2>1, <2>3 DEF Downlink, DeliveryTypeOK, Saturated
  <2>7. InHand(v)' = InHand(v)
    BY <2>2, <2>5, HandMoves DEF At, Fetch
  <2> QED  BY <2>2, <2>3, <2>5, <2>6, <2>7, Zenon
<1>4. CASE \E v \in Workers : (Downlink(v) \/ DownlinkFails(v)) /\ InHand(v).cmd = c
  <2>1. PICK v \in Workers : (Downlink(v) \/ DownlinkFails(v)) /\ InHand(v).cmd = c
    BY <1>4
  <2>2. ASSUME NEW w \in Workers, At(w, "downlink")', InHand(w)'.cmd = c
        PROVE  FALSE
    <3>1. w # v
      BY <1>3, <2>1, <2>2, ZenonT(30) DEF At
    <3>2. worker'[w] = worker[w] /\ topic' = topic
      BY <2>1, <3>1, WorkerStepFrame, ZenonT(30) DEF WorkerStep
    <3>3. ~At(w, "fetch") /\ InHand(w).cmd = c
      BY <2>2, <3>2 DEF At, InHand
    <3> QED  BY <1>2, <1>3, <2>1, <3>1, <3>3, ZenonT(30)
  <2> QED  BY <1>3, <2>1, <2>2, Zenon
<1>5. CASE ~\E v \in Workers : (Downlink(v) \/ DownlinkFails(v)) /\ InHand(v).cmd = c
  <2>1. downlinks'[c] = downlinks[c]
    BY <1>5, DownlinkMoves, Zenon
  <2>2. SUFFICES ASSUME downlinks[c] = 1
                 PROVE  /\ \A w \in Workers : At(w, "downlink")' => InHand(w)'.cmd # c
                        /\ \/ commands'[c].status \in Past
                           \/ \E w \in Workers : At(w, "sent")' /\ InHand(w)'.cmd = c
    BY <1>1, <2>1, ZenonT(30) DEF SentOnce
  <2>3. /\ \A w \in Workers : At(w, "downlink") => InHand(w).cmd # c
        /\ \/ commands[c].status \in Past
           \/ \E w \in Workers : At(w, "sent") /\ InHand(w).cmd = c
    BY <1>1, <2>2, Zenon DEF SentOnce
  <2>4. ASSUME NEW w \in Workers, At(w, "downlink")', InHand(w)'.cmd = c
        PROVE  FALSE
    <3>1. CASE Fetch(w)
      <4>1. /\ topic' = topic /\ committed + 1 \in 1..Len(topic)
            /\ worker'[w].offset = committed + 1
            /\ worker'[w].pc = "downlink" => Deliverable(topic[committed + 1].cmd)
            /\ owner = w /\ At(w, "fetch")
        BY <3>1 DEF Fetch, WorkerUnchanged, DeliveryTypeOK
      <4>2. Deliverable(c)
        BY <2>4, <4>1 DEF At, InHand
      <4>3. PICK v \in Workers : At(v, "sent") /\ InHand(v).cmd = c
        BY <2>3, <4>2, ZenonT(30) DEF Deliverable, Past, Terminal
      <4> QED  BY <1>2, <4>1, <4>3, Zenon DEF At
    <3>2. CASE ~Fetch(w)
      <4>1. At(w, "downlink") /\ InHand(w)' = InHand(w)
        BY <2>4, <3>2, HandMoves, ZenonT(30) DEF At
      <4> QED  BY <2>3, <2>4, <4>1
    <3> QED  BY <3>1, <3>2, Zenon
  <2>5. CASE commands[c].status \in Past
    BY <1>0, <2>4, <2>5, StatusMoves, ZenonT(30)
  <2>6. ASSUME NEW w \in Workers, At(w, "sent"), InHand(w).cmd = c
        PROVE  commands'[c].status \in Past \/ (At(w, "sent")' /\ InHand(w)'.cmd = c)
    <3>1. CASE MarkSent(w)
      <4>1. commands[c] \in Row /\ MarkCommandSent(c)
        BY <2>6, <3>1 DEF MarkSent, TypeOK
      <4>2. CASE commands[c].status \in {"created", "published"}
        BY <4>1, <4>2, ZenonT(30) DEF MarkCommandSent, UpdateCommandsWithEvent, SetSent, Row, Past
      <4>3. CASE commands[c].status \in Past
        BY <1>0, <4>3, StatusMoves, Zenon
      <4>4. commands[c].status # "absent"
        BY <2>6, InHandTyped, Zenon DEF At, InHand, RowsExist, Working
      <4> QED  BY <4>1, <4>2, <4>3, <4>4, Zenon DEF Row, Status, Active, Past
    <3>2. ~WorkerCrash(w)
      BY <2>6 DEF WorkerCrash
    <3>3. CASE At(w, "sent")'
      BY <2>6, <3>3, HandMoves, ZenonT(30) DEF At, Fetch
    <3> QED  BY <2>6, <3>1, <3>2, <3>3, HandMoves, ZenonT(30)
  <2> QED  BY <2>3, <2>4, <2>5, <2>6, ZenonT(30)
<1> QED  BY <1>4, <1>5, Zenon

DuplicateInv == RowsExist /\ HandIsOwned /\ SentOnce

\* Duplicate copies of an event, lost completions, stale requeues and replays
\* never make the device receive a command twice: that takes a delivery that was
\* cut short, or a rebalance while its event was in hand.
THEOREM DuplicateSafe == DeliverySpec => []DuplicateNeedsDisturbance
<1>1. DeliveryInit => DuplicateInv
  <2>1. DeliveryInit => /\ \A w \in Workers : worker[w] = Waiting
                        /\ \A c \in Commands : downlinks[c] = 0
    BY DEF DeliveryInit
  <2> QED
    BY <2>1, PendingInit DEF PendingInv, DuplicateInv, HandIsOwned, SentOnce, At, Waiting
<1>2. (TypeOK /\ DeliveryTypeOK) /\ DuplicateInv /\ [DeliveryNext]_vars => DuplicateInv'
  BY RowsExistStep, HandIsOwnedStep, SentOnceStep, Zenon DEF DuplicateInv
<1>3. DuplicateInv => DuplicateNeedsDisturbance
  BY DEF DuplicateInv, SentOnce, DuplicateNeedsDisturbance
<1> QED
  BY <1>1, <1>2, <1>3, DeliveryTypes, PTL DEF DeliverySpec

-----------------------------------------------------------------------------
(* The ACK uplink, for any number of callbacks, messages, commands and     *)
(* attempts, with arbitrary other clients of the command tables.           *)

uplinkAll == <<storeVars, uplinkVars>>

\* What a callback relies on: its message was published, it is about to
\* confirm a valid one only when that one is settled, and while it tries the
\* store it has an attempt left.
CallbackInv ==
    \A h \in Callbacks :
        /\ callback[h].pc # "rest" => callback[h].msg \in sent
        /\ callback[h].pc = "puback" /\ Valid(callback[h].msg)
              => Settled(callback[h].msg)
        /\ callback[h].pc \in {"store", "backoff"}
              => callback[h].failures < AckStoreAttempts

\* Devices report on commands that exist, and rows are never deleted.
SentExists ==
    \A m \in sent : m.form = "good" => commands[m.cmd].status # "absent"

\* Admission is closed as soon as Run has left its select.
StoppingInv == run # "select" => stopping

UplinkInv ==
    /\ TypeOK
    /\ UplinkTypeOK
    /\ CallbackInv
    /\ SentExists
    /\ StoppingInv
    /\ AckedIsSettled
    /\ DisconnectedIsDrained

\* Settled, in the state after a step.
SettledNext(m) == m \in ackDlq' \/ commands'[m.cmd].status \in Terminal

-----------------------------------------------------------------------------
(* The callbacks and the process                                           *)

\* Every step keeps the invariant, action by action.
LEMMA UplinkInvStep == UplinkInv /\ [UplinkNext]_uplinkAll => UplinkInv'
  \* A message carries a command and a report the store can be asked about.
<1>UplinkFields.
      ASSUME NEW m \in Uplinks
      PROVE  m.cmd \in Commands /\ m.report \in Reports /\ m.form \in UplinkForms
  BY UplinkAssumption
  \* Every step of the uplink is a step of the command store or leaves its tables
  \* alone: a callback writes nothing but the acknowledgement transaction.
<1>UplinkStepIsStoreStep.
      ASSUME UplinkTypeOK, CallbackInv, [UplinkNext]_uplinkAll
      PROVE  [Next]_storeVars
  <2> USE <1>UplinkStepIsStoreStep
  <2>1. ASSUME NEW m \in Uplinks, AckCommandResult(m.cmd, m.report)
        PROVE  Next
    BY <2>1, <1>UplinkFields, Zenon DEF Next
  <2>2. ASSUME NEW h \in Callbacks, Callback(h) PROVE [Next]_storeVars
    <3>1. CASE ApplyAck(h) \/ ApplyAckFails(h)
      <4>1. callback[h].msg \in Uplinks
        BY <3>1 DEF ApplyAck, ApplyAckFails, In, CallbackInv, UplinkTypeOK
      <4> QED
        BY <2>1, <3>1, <4>1 DEF ApplyAck, ApplyAckFails
    <3>2. CASE UNCHANGED storeVars
      BY <3>2, Zenon
    <3> QED
      BY <2>2, <3>1, <3>2
      DEF Callback, Retry, Abandon, DeadLetterAck, DeadLetterAckFails, PubAck
  <2>3. ASSUME NEW h \in Callbacks, NEW m \in Uplinks, Admit(h, m)
        PROVE  UNCHANGED storeVars
    BY <2>3, Zenon DEF Admit
  <2>4. CASE CloseAdmission \/ ForceDrain \/ Drained \/ Disconnect \/ Restart
    BY <2>4, Zenon DEF CloseAdmission, ForceDrain, Drained, Disconnect, Restart,
                RunUnchanged
  <2>5. ASSUME NEW m \in Uplinks, Publish(m) \/ ReplayAck(m)
        PROVE  [Next]_storeVars
    BY <2>1, <2>5 DEF Publish, ReplayAck
  <2>6. CASE Others
    BY <2>6 DEF Others
  <2>7. CASE UNCHANGED uplinkAll
    BY <2>7, Zenon DEF uplinkAll
  <2> QED
    BY <2>2, <2>3, <2>4, <2>5, <2>6, <2>7, Zenon DEF UplinkNext, UplinkSystem
  \* A store step never deletes a row and never reopens a finished command.
<1>StoreStepKeeps.
      ASSUME TypeOK, [Next]_storeVars, NEW c \in Commands
      PROVE  /\ commands[c].status # "absent" => commands'[c].status # "absent"
             /\ commands[c].status \in Terminal => commands'[c].status \in Terminal
  <2> USE <1>StoreStepKeeps
  <2>1. RowStep(c)
    BY NextIsRowSteps, Zenon
  <2>2. CASE Quiet(c)
    BY <2>2, Zenon DEF Quiet
  <2>3. ASSUME NEW event \in Event, Logged(c, event)
        PROVE  commands[c].status \notin Terminal /\ commands'[c].status # "absent"
    BY <2>3, Zenon DEF Logged, Edges, Terminal
  <2>4. ASSUME NEW new \in Results, Reported(c, new)
        PROVE  commands[c].status \notin Terminal /\ commands'[c].status # "absent"
    BY <2>4 DEF Reported, Active, Terminal, Results
  <2> QED
    BY <2>1, <2>2, <2>3, <2>4, Zenon DEF RowStep
  \* The acknowledgement transaction ends the command.
<1>AppliedEnds.
      ASSUME TypeOK, NEW c \in Commands, NEW r \in Reports, AckCommandResult(c, r)
      PROVE  commands'[c].status \in Terminal
  <2> USE <1>AppliedEnds
  <2> DEFINE new == NormalizeCommandResult(r)
  <2>1. ValidReport(r)
    BY DEF AckCommandResult, AckOutcome
  <2>2. new.status \in {"acked", "failed"}
    BY <2>1, NormalizedTyped DEF Results
  <2>3. PICK next \in AdvanceCommandStatus(commands[c].status, new.status) :
           commands' = [commands EXCEPT ![c] = SetResult(@, next, new)]
    BY Zenon DEF AckCommandResult
  <2>4. next \in Terminal
    BY <2>2 DEF AdvanceCommandStatus, Transitions, Terminal
  <2>5. commands[c] \in Row /\ commands'[c] = SetResult(commands[c], next, new)
    BY <2>3, Zenon DEF TypeOK
  <2> QED
    BY <2>4, <2>5 DEF SetResult, Row
  \* What is settled stays settled: dead letters stay in the topic and finished
  \* commands stay finished.
<1>SettledStays.
      ASSUME TypeOK, [Next]_storeVars, ackDlq \subseteq ackDlq',
             NEW m \in Uplinks, Settled(m)
      PROVE  SettledNext(m)
  BY <1>SettledStays, <1>StoreStepKeeps, <1>UplinkFields, Zenon DEF Settled, SettledNext
  \* Types are kept: only an attempt that is left may be counted.
<1>UplinkTypeStep.
      ASSUME UplinkTypeOK, CallbackInv, [UplinkNext]_uplinkAll
      PROVE  UplinkTypeOK'
  <2> USE <1>UplinkTypeStep
  <2> USE DEF UplinkTypeOK
  <2>0. Resting \in [pc : {"rest", "store", "backoff", "dlq", "puback"},
                    msg : Uplinks \cup {NoUplink}, failures : 0..AckStoreAttempts]
    BY UplinkAssumption DEF Resting
  <2>1. ASSUME NEW h \in Callbacks, Callback(h) PROVE UplinkTypeOK'
    <3>1. callback[h].pc # "rest" => callback[h].msg \in sent
      BY DEF CallbackInv
    <3>2. CASE ApplyAck(h)
      BY <3>2 DEF ApplyAck, Goto, CallbackUnchanged
    <3>3. CASE ApplyAckFails(h)
      <4>1. callback[h].failures < AckStoreAttempts
        BY <3>3 DEF ApplyAckFails, In, CallbackInv
      <4>2. callback[h].failures + 1 \in 0..AckStoreAttempts
        BY <4>1, UplinkAssumption
      <4> DEFINE pc == IF callback[h].failures + 1 < AckStoreAttempts
                       THEN "backoff" ELSE "dlq"
                 next == [callback[h] EXCEPT !.failures = callback[h].failures + 1, !.pc = pc]
      <4>3. callback' = [callback EXCEPT ![h] = next]
        BY <3>3, Zenon DEF ApplyAckFails
      <4>4. pc \in {"backoff", "dlq"}
        OBVIOUS
      <4> HIDE DEF pc
      <4>5. next \in [pc : {"rest", "store", "backoff", "dlq", "puback"},
                      msg : Uplinks \cup {NoUplink}, failures : 0..AckStoreAttempts]
        BY <4>2, <4>4, Zenon
      <4> HIDE DEF next
      <4>6. callback' \in [Callbacks -> [pc : {"rest", "store", "backoff", "dlq", "puback"},
                                         msg : Uplinks \cup {NoUplink},
                                         failures : 0..AckStoreAttempts]]
        BY <4>3, <4>5
      <4> QED
        BY <3>3, <4>6 DEF ApplyAckFails, CallbackUnchanged
    <3>4. CASE Retry(h)
      BY <3>4, Zenon DEF Retry, Goto, CallbackUnchanged
    <3>5. CASE Abandon(h)
      BY <2>0, <3>5 DEF Abandon, Return, CallbackUnchanged
    <3>6. CASE DeadLetterAck(h)
      BY <3>1, <3>6, Zenon DEF DeadLetterAck, In, Goto, CallbackUnchanged
    <3>7. CASE DeadLetterAckFails(h)
      BY <2>0, <3>1, <3>7, Zenon DEF DeadLetterAckFails, In, Return, CallbackUnchanged
    <3>8. CASE PubAck(h)
      BY <2>0, <3>1, <3>8, Zenon DEF PubAck, In, Return, CallbackUnchanged
    <3> QED
      BY <2>1, <3>2, <3>3, <3>4, <3>5, <3>6, <3>7, <3>8, Zenon DEF Callback
  <2>2. ASSUME NEW h \in Callbacks, NEW m \in Uplinks, Admit(h, m)
        PROVE  UplinkTypeOK'
    BY <2>2, UplinkAssumption DEF Admit
  <2>3. CASE CloseAdmission \/ ForceDrain \/ Drained \/ Disconnect
    BY <2>3, Zenon DEF CloseAdmission, ForceDrain, Drained, Disconnect, RunUnchanged
  <2>4. CASE Restart
    BY <2>0, <2>4, Zenon DEF Restart
  <2>5. ASSUME NEW m \in Uplinks, Publish(m) PROVE UplinkTypeOK'
    BY <2>5 DEF Publish, processVars
  <2>6. CASE UNCHANGED uplinkVars
    BY <2>6, Zenon DEF uplinkVars, processVars
  <2> QED
    BY <2>1, <2>2, <2>3, <2>4, <2>5, <2>6, Zenon
    DEF UplinkNext, UplinkSystem, Others, ReplayAck, uplinkAll
  \* What a step must show of the callbacks and of what it confirms, given that
  \* the tables make a store step.
<1>UplinkInvFrame.
      ASSUME UplinkInv, [Next]_storeVars, UplinkTypeOK',
             sent \subseteq sent', ackDlq \subseteq ackDlq',
             \A m \in sent' \ sent :
                m.form = "good" => commands'[m.cmd].status # "absent",
             \A h \in Callbacks :
                \/ callback'[h] = callback[h]
                \/ callback'[h].pc = "rest"
                \/ /\ callback'[h].msg \in sent
                   /\ callback'[h].pc = "puback" /\ Valid(callback'[h].msg)
                         => SettledNext(callback'[h].msg)
                   /\ callback'[h].pc \in {"store", "backoff"}
                         => callback'[h].failures < AckStoreAttempts,
             \A m \in acked' \ acked : Valid(m) => Settled(m),
             run' # "select" => stopping',
             run' \in {"disconnect", "exited"}
                => \A h \in Callbacks : callback'[h].pc = "rest"
      PROVE  UplinkInv'
  <2> USE <1>UplinkInvFrame
  <2> USE DEF UplinkInv
  <2>1. TypeOK'
    BY StepTyped, Zenon
  <2>2. ASSUME NEW m \in sent, Settled(m) PROVE SettledNext(m)
    BY <2>2, <1>SettledStays, Zenon DEF UplinkTypeOK
  <2>3. CallbackInv'
    <3> SUFFICES ASSUME NEW h \in Callbacks
                 PROVE  /\ callback'[h].pc # "rest" => callback'[h].msg \in sent'
                        /\ callback'[h].pc = "puback" /\ Valid(callback'[h].msg)
                              => SettledNext(callback'[h].msg)
                        /\ callback'[h].pc \in {"store", "backoff"}
                              => callback'[h].failures < AckStoreAttempts
      BY Zenon DEF CallbackInv, Valid, Settled, SettledNext
    <3>1. CASE callback'[h] = callback[h]
      <4>1. callback[h].pc = "puback" /\ Valid(callback[h].msg)
               => SettledNext(callback[h].msg)
        BY <2>2, Zenon DEF CallbackInv
      <4> QED
        BY <3>1, <4>1, Zenon DEF CallbackInv
    <3> QED
      BY <3>1, Zenon
  <2>4. SentExists'
    BY <1>StoreStepKeeps, <1>UplinkFields, Zenon DEF SentExists, UplinkTypeOK
  <2>5. AckedIsSettled'
    <3> SUFFICES ASSUME NEW m \in acked', Valid(m) PROVE SettledNext(m)
      BY Zenon DEF AckedIsSettled, Valid, Settled, SettledNext
    <3>1. Settled(m) /\ m \in Uplinks
      BY Zenon DEF AckedIsSettled, UplinkTypeOK
    <3> QED  BY <3>1, <1>SettledStays
  <2>6. DisconnectedIsDrained'
    BY Zenon DEF DisconnectedIsDrained, Pending
  <2> QED
    BY <2>1, <2>3, <2>4, <2>5, <2>6, Zenon DEF StoppingInv
  \* The store attempt settles a valid message: it ends the command, or finds
  \* the command ended.
<1>ApplySettles.
      ASSUME UplinkInv, NEW h \in Callbacks, ApplyAck(h), [Next]_storeVars,
             UNCHANGED ackDlq, Valid(callback[h].msg)
      PROVE  SettledNext(callback[h].msg)
  <2> USE <1>ApplySettles
  <2> DEFINE m == callback[h].msg
  <2>1. m \in sent /\ m \in Uplinks
    BY DEF UplinkInv, CallbackInv, UplinkTypeOK, ApplyAck, In
  <2>2. m.cmd \in Commands /\ m.report \in Reports
    BY <2>1, <1>UplinkFields, Zenon
  <2>3. CASE Answer(m) = "applied"
    BY <2>2, <2>3, <1>AppliedEnds, Zenon DEF ApplyAck, UplinkInv, SettledNext
  <2>4. CASE Answer(m) # "applied"
    <3>1. commands[m.cmd].status # "absent" /\ m.form = "good" /\ ValidReport(m.report)
      BY <2>1, Zenon DEF UplinkInv, SentExists, Valid
    <3>2. AckOutcome(m.cmd, m.report) # "applied"
      BY <2>4, <3>1, Zenon DEF Answer
    <3>3. commands[m.cmd].status \in Terminal
      BY <3>1, <3>2 DEF AckOutcome
    <3> QED
      BY <2>2, <3>3, <1>StoreStepKeeps, Zenon DEF UplinkInv, SettledNext
  <2> QED  BY <2>3, <2>4, Zenon
<1> SUFFICES ASSUME UplinkInv, [UplinkNext]_uplinkAll PROVE UplinkInv'
  OBVIOUS
<1>1. [Next]_storeVars /\ UplinkTypeOK'
  BY <1>UplinkStepIsStoreStep, <1>UplinkTypeStep, Zenon DEF UplinkInv
<1>2. /\ run # "select" => stopping
      /\ run \in {"disconnect", "exited"}
            => \A h \in Callbacks : callback[h].pc = "rest"
  BY Zenon DEF UplinkInv, StoppingInv, DisconnectedIsDrained, Pending
<1>3. \A h \in Callbacks :
         /\ callback[h].pc # "rest" => callback[h].msg \in sent
         /\ callback[h].pc = "puback" /\ Valid(callback[h].msg)
               => Settled(callback[h].msg)
         /\ callback[h].pc \in {"store", "backoff"}
               => callback[h].failures < AckStoreAttempts
  BY Zenon DEF UplinkInv, CallbackInv
<1>4. callback \in [Callbacks -> [pc : {"rest", "store", "backoff", "dlq", "puback"},
                                 msg : Uplinks \cup {NoUplink},
                                 failures : 0..AckStoreAttempts]]
  BY DEF UplinkInv, UplinkTypeOK
<1>5. ASSUME NEW h \in Callbacks, Callback(h) PROVE UplinkInv'
  <2>0. callback[h].pc # "rest"
    BY <1>5 DEF Callback, ApplyAck, ApplyAckFails, Retry, Abandon, DeadLetterAck,
                DeadLetterAckFails, PubAck, In
  <2>1. run \notin {"disconnect", "exited"}
    BY <1>2, <2>0, Zenon
  <2>2. CASE ApplyAck(h)
    <3>1. Valid(callback[h].msg) => SettledNext(callback[h].msg)
      BY <1>1, <2>2, <1>ApplySettles DEF ApplyAck
    <3>2. callback'[h].msg = callback[h].msg /\ callback'[h].pc = "puback"
      BY <1>4, <2>2 DEF ApplyAck, Goto
    <3>3. \A g \in Callbacks \ {h} : callback'[g] = callback[g]
      BY <1>4, <2>2 DEF ApplyAck, Goto
    <3>4. UNCHANGED <<sent, acked, ackDlq, run, stopping>>
      BY <2>2, Zenon DEF ApplyAck, CallbackUnchanged
    <3> QED
      BY <1>1, <1>2, <1>3, <2>0, <2>1, <3>1, <3>2, <3>3, <3>4, <1>UplinkInvFrame, Zenon
  <2>3. CASE ApplyAckFails(h)
    <3>1. callback'[h].msg = callback[h].msg /\ callback'[h].pc \in {"backoff", "dlq"}
      BY <1>4, <2>3 DEF ApplyAckFails
    <3>2. callback'[h].pc = "backoff" => callback'[h].failures < AckStoreAttempts
      BY <1>4, <2>3 DEF ApplyAckFails
    <3>3. \A g \in Callbacks \ {h} : callback'[g] = callback[g]
      BY <1>4, <2>3 DEF ApplyAckFails
    <3>4. UNCHANGED <<sent, acked, ackDlq, run, stopping>>
      BY <2>3, Zenon DEF ApplyAckFails, CallbackUnchanged
    <3> QED
      BY <1>1, <1>2, <1>3, <2>0, <2>1, <3>1, <3>2, <3>3, <3>4, <1>UplinkInvFrame, Zenon
  <2>4. CASE Retry(h)
    <3>1. /\ callback'[h].msg = callback[h].msg
          /\ callback'[h].failures = callback[h].failures
          /\ callback'[h].pc = "store" /\ callback[h].pc = "backoff"
      BY <1>4, <2>4 DEF Retry, Goto, In
    <3>2. \A g \in Callbacks \ {h} : callback'[g] = callback[g]
      BY <1>4, <2>4 DEF Retry, Goto
    <3>3. UNCHANGED <<sent, acked, ackDlq, run, stopping>>
      BY <2>4, Zenon DEF Retry, CallbackUnchanged
    <3> QED
      BY <1>1, <1>2, <1>3, <2>0, <2>1, <3>1, <3>2, <3>3, <1>UplinkInvFrame, Zenon
  <2>5. CASE DeadLetterAck(h)
    <3>1. callback'[h].msg = callback[h].msg /\ callback'[h].pc = "puback"
      BY <1>4, <2>5, Zenon DEF DeadLetterAck, Goto
    <3>2. \A g \in Callbacks \ {h} : callback'[g] = callback[g]
      BY <1>4, <2>5, Zenon DEF DeadLetterAck, Goto
    <3>3. UNCHANGED <<sent, acked, run, stopping>> /\ ackDlq \subseteq ackDlq'
      BY <2>5, Zenon DEF DeadLetterAck, CallbackUnchanged
    <3>4. SettledNext(callback[h].msg)
      BY <2>5, Zenon DEF DeadLetterAck, SettledNext
    <3> QED
      BY <1>1, <1>2, <1>3, <2>0, <2>1, <3>1, <3>2, <3>3, <3>4, <1>UplinkInvFrame, Zenon
  <2>6. CASE Abandon(h) \/ DeadLetterAckFails(h)
    <3>1. \A g \in Callbacks : callback'[g] = callback[g] \/ callback'[g].pc = "rest"
      BY <1>4, <2>6 DEF Abandon, DeadLetterAckFails, Return, Resting
    <3>2. UNCHANGED <<sent, acked, run, stopping>> /\ ackDlq \subseteq ackDlq'
      BY <2>6, Zenon DEF Abandon, DeadLetterAckFails, CallbackUnchanged
    <3> QED
      BY <1>1, <1>2, <2>1, <3>1, <3>2, <1>UplinkInvFrame, Zenon
  <2>7. CASE PubAck(h)
    <3>1. \A g \in Callbacks : callback'[g] = callback[g] \/ callback'[g].pc = "rest"
      BY <1>4, <2>7 DEF PubAck, Return, Resting
    <3>2. UNCHANGED <<sent, ackDlq, run, stopping>>
      BY <2>7, Zenon DEF PubAck, CallbackUnchanged
    <3>3. \A m \in acked' \ acked : Valid(m) => Settled(m)
      BY <1>3, <2>7, Zenon DEF PubAck, In
    <3> QED
      BY <1>1, <1>2, <2>1, <3>1, <3>2, <3>3, <1>UplinkInvFrame, Zenon
  <2> QED
    BY <1>5, <2>2, <2>3, <2>4, <2>5, <2>6, <2>7, Zenon DEF Callback
<1>6. ASSUME NEW h \in Callbacks, NEW m \in Uplinks, Admit(h, m)
      PROVE  UplinkInv'
  <2>1. /\ callback'[h].msg = m /\ m \in sent
        /\ callback'[h].failures = 0
        /\ callback'[h].pc = "puback" => ~Valid(m)
    BY <1>4, <1>6, Zenon DEF Admit, Valid
  <2>2. \A g \in Callbacks \ {h} : callback'[g] = callback[g]
    BY <1>4, <1>6, Zenon DEF Admit
  <2>3. UNCHANGED <<sent, acked, ackDlq, run, stopping>> /\ ~stopping
    BY <1>6, Zenon DEF Admit
  <2>4. 0 < AckStoreAttempts /\ run = "select"
    BY <1>2, <2>3, UplinkAssumption
  <2> QED
    BY <1>1, <1>2, <2>1, <2>2, <2>3, <2>4, <1>UplinkInvFrame, Zenon
<1>7. CASE CloseAdmission \/ ForceDrain \/ Drained \/ Disconnect
  <2>1. UNCHANGED <<sent, acked, ackDlq, callback>>
    BY <1>7, Zenon DEF CloseAdmission, ForceDrain, Drained, Disconnect, RunUnchanged
  <2>2. run' # "select" => stopping'
    BY <1>2, <1>7, Zenon DEF CloseAdmission, ForceDrain, Drained, Disconnect
  <2>3. run' \in {"disconnect", "exited"}
           => \A h \in Callbacks : callback[h].pc = "rest"
    BY <1>2, <1>7, Zenon DEF CloseAdmission, ForceDrain, Drained, Disconnect, Pending
  <2> QED
    BY <1>1, <2>1, <2>2, <2>3, <1>UplinkInvFrame, Zenon
<1>8. CASE Restart
  <2>1. \A h \in Callbacks : callback'[h].pc = "rest"
    BY <1>8 DEF Restart, Resting
  <2>2. UNCHANGED <<sent, acked, ackDlq>> /\ run' = "select"
    BY <1>8, Zenon DEF Restart
  <2> QED
    BY <1>1, <2>1, <2>2, <1>UplinkInvFrame, Zenon
<1>9. ASSUME NEW m \in Uplinks, Publish(m) PROVE UplinkInv'
  <2>1. /\ sent' = sent \cup {m}
        /\ m.form = "good" => commands'[m.cmd].status # "absent"
    BY <1>9 DEF Publish, storeVars
  <2>2. UNCHANGED <<acked, ackDlq, callback, run, stopping>>
    BY <1>9, Zenon DEF Publish, processVars
  <2> QED
    BY <1>1, <1>2, <2>1, <2>2, <1>UplinkInvFrame, Zenon
<1>10. CASE UNCHANGED uplinkVars
  <2>1. UNCHANGED <<sent, acked, ackDlq, callback, run, stopping>>
    BY <1>10, Zenon DEF uplinkVars, processVars
  <2> QED
    BY <1>1, <1>2, <2>1, <1>UplinkInvFrame, Zenon
<1> QED
  BY <1>5, <1>6, <1>7, <1>8, <1>9, <1>10
  DEF UplinkNext, UplinkSystem, Others, ReplayAck, uplinkAll

\* A fresh process over fresh tables satisfies the invariant.
LEMMA UplinkInvInit == UplinkInit => UplinkInv
<1> SUFFICES ASSUME UplinkInit PROVE UplinkInv
  OBVIOUS
<1>1. TypeOK
  BY InitTyped DEF UplinkInit
<1>2. \A h \in Callbacks : callback[h] = Resting
  BY DEF UplinkInit, Fresh
<1>3. UplinkTypeOK
  <2>1. Resting \in [pc : {"rest", "store", "backoff", "dlq", "puback"},
                    msg : Uplinks \cup {NoUplink}, failures : 0..AckStoreAttempts]
    BY UplinkAssumption DEF Resting
  <2>2. stopping = FALSE /\ canceled = FALSE /\ fatal = FALSE /\ run = "select"
    BY DEF UplinkInit, Fresh
  <2>3. callback \in [Callbacks -> [pc : {"rest", "store", "backoff", "dlq", "puback"},
                    msg : Uplinks \cup {NoUplink}, failures : 0..AckStoreAttempts]]
    BY <2>1 DEF UplinkInit, Fresh
  <2> QED
    BY <2>2, <2>3, Zenon DEF UplinkInit, UplinkTypeOK
<1> QED
  BY <1>1, <1>2, <1>3
  DEF UplinkInit, Fresh, UplinkInv, CallbackInv, SentExists, StoppingInv,
      AckedIsSettled, DisconnectedIsDrained, Pending, Resting

\* The inductive invariant holds in every reachable state.
LEMMA UplinkInvariant == UplinkSpec => []UplinkInv
<1>1. UplinkInv /\ [UplinkNext]_<<storeVars, uplinkVars>> => UplinkInv'
  BY UplinkInvStep DEF uplinkAll
<1> QED
  BY <1>1, UplinkInvInit, PTL DEF UplinkSpec

\* The callbacks never count past their attempts and only handle published
\* messages.
THEOREM UplinkTyped == UplinkSpec => []UplinkTypeOK
BY UplinkInvariant, PTL DEF UplinkInv

\* handleAckMessage: no PUBACK of a valid report without an ended command or a
\* dead letter, for any number of concurrent callbacks, failures and crashes.
THEOREM AckSafe == UplinkSpec => []AckedIsSettled
BY UplinkInvariant, PTL DEF UplinkInv

\* stopAckHandling: nothing admitted is at work after the disconnect.
THEOREM DrainSafe == UplinkSpec => []DisconnectedIsDrained
BY UplinkInvariant, PTL DEF UplinkInv

=============================================================================
