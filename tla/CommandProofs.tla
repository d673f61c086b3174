--------------------------- MODULE CommandProofs ----------------------------
(***************************************************************************)
(* Proofs about the commands: the tables, for any set of commands and any  *)
(* attempt cap, with clients that may run any statement at any time; and   *)
(* the loops that deliver commands, which are clients of the tables, so    *)
(* that every theorem about the tables holds of them, and whose            *)
(* completions are fenced.                                                 *)
(*                                                                         *)
(* The argument goes through one lemma, NextIsRowSteps: whatever statement *)
(* runs, each single command either keeps its status, result and history,  *)
(* or moves along one edge and logs it, or takes the device's report.  The *)
(* invariants and the refinement are then about these three cases only.    *)
(***************************************************************************)
EXTENDS CommandDelivery, TLAPS

-----------------------------------------------------------------------------
(* Type correctness                                                        *)

\* A valid report normalises to a storable result.
LEMMA NormalizedTyped ==
    ASSUME NEW r \in Reports, ValidReport(r)
    PROVE  NormalizeCommandResult(r) \in Results
BY StoreAssumption DEF Reports, Results, ValidReport, NormalizeCommandResult

\* The tables are well typed initially.
LEMMA InitTyped == Init => TypeOK
<1>1. AbsentRow \in Row /\ LegacyRow \in Row
  BY StoreAssumption DEF AbsentRow, LegacyRow, Row, Status, Active
<1> QED
  BY <1>1 DEF Init, TypeOK

\* Any step of the store keeps the tables well typed.
LEMMA StepTyped == TypeOK /\ [Next]_storeVars => TypeOK'
  \* Every assignment of a statement yields a well-formed row.
<1>DispatchRowsTyped.
      ASSUME NEW row \in Row
      PROVE  /\ InsertCreated(row) \in Row
             /\ SetPublished(row) \in Row
             /\ SetBackoff(row) \in Row
             /\ SetSent(row) \in Row
             /\ SetRequeued(row) \in Row
  BY Zenon DEF Row, Status, Active, InsertCreated, SetPublished, SetBackoff, SetSent,
         SetRequeued
  \* A claim stays within the attempt cap.
<1>ClaimedRowTyped.
      ASSUME NEW row \in Row, Claimable(row)
      PROVE  SetClaimed(row) \in Row
  <2> USE <1>ClaimedRowTyped
  <2>1. row.attempts + 1 \in 0..MaxDispatchAttempts
    BY StoreAssumption DEF Row, Claimable
  <2> QED
    BY <2>1, Zenon DEF Row, SetClaimed
  \* So do the assignments of the recovery and timeout scans.
<1>SweepRowsTyped.
      ASSUME NEW row \in Row
      PROVE  /\ SetRedispatch(row) \in Row
             /\ SetFailed(row) \in Row
             /\ SetTimeout(row) \in Row
  BY Zenon DEF Row, Status, Active, Terminal, SetRedispatch, SetFailed, SetTimeout
  \* The clock keeps a row well formed.
<1>TimerRowsTyped.
      ASSUME NEW row \in Row
      PROVE  /\ SetDue(row) \in Row
             /\ SetStale(row) \in Row
             /\ SetPassed(row) \in Row
  BY DEF Row, SetDue, SetStale, SetPassed
  \* So does the acknowledgement transaction.
<1>ResultRowTyped.
      ASSUME NEW row \in Row, NEW next \in Status, NEW new \in Results
      PROVE  SetResult(row, next, new) \in Row
  BY Zenon DEF Row, SetResult
<1> SUFFICES ASSUME TypeOK, [Next]_storeVars PROVE TypeOK'
  OBVIOUS
<1>1. ASSUME NEW c \in Commands, CreateCommand(c) PROVE TypeOK'
  BY <1>1, <1>DispatchRowsTyped
  DEF TypeOK, CreateCommand, UpdateCommandsWithEvent, Event
<1>2. ASSUME NEW c \in Commands, ClaimCommand(c) PROVE TypeOK'
  BY <1>2, <1>ClaimedRowTyped DEF TypeOK, ClaimCommand, UpdateCommand
<1>3. ASSUME NEW c \in Commands, NEW n \in 1..MaxDispatchAttempts,
             MarkCommandPublished(c, n)
      PROVE  TypeOK'
  BY <1>3, <1>DispatchRowsTyped
  DEF TypeOK, MarkCommandPublished, UpdateCommandsWithEvent, Event
<1>4. ASSUME NEW c \in Commands, NEW n \in 1..MaxDispatchAttempts,
             RescheduleCommand(c, n)
      PROVE  TypeOK'
  BY <1>4, <1>DispatchRowsTyped, ZenonT(30)
  DEF TypeOK, RescheduleCommand, UpdateCommand, storeVars
<1>5. ASSUME NEW c \in Commands, MarkCommandSent(c) PROVE TypeOK'
  BY <1>5, <1>DispatchRowsTyped
  DEF TypeOK, MarkCommandSent, UpdateCommandsWithEvent, Event
<1>6. ASSUME NEW c \in Commands, RequeueCommand(c) PROVE TypeOK'
  BY <1>6, <1>DispatchRowsTyped
  DEF TypeOK, RequeueCommand, UpdateCommandsWithEvent, Event
<1>7. ASSUME NEW c \in Commands, NEW r \in Reports, AckCommandResult(c, r)
      PROVE  TypeOK'
  <2>1. ValidReport(r)
    BY <1>7 DEF AckCommandResult, AckOutcome
  <2>2. NormalizeCommandResult(r) \in Results
    BY <2>1, NormalizedTyped
  <2>3. NormalizeCommandResult(r).status \in Event
    BY <2>2 DEF Results, Event
  <2> QED
    BY <1>7, <2>2, <2>3, <1>ResultRowTyped
    DEF TypeOK, AckCommandResult, AdvanceCommandStatus
<1>8. ASSUME NEW c \in Commands, Tick(c) PROVE TypeOK'
  BY <1>8, <1>TimerRowsTyped, ZenonT(30)
  DEF TypeOK, Tick, LeaseEnds, TurnsStale, DeadlinePasses, UpdateCommand
<1>9. ASSUME NEW C \in SUBSET Commands, RequeueStale(C) PROVE TypeOK'
  BY <1>9, <1>SweepRowsTyped
  DEF TypeOK, RequeueStale, UpdateCommandsWithEvent, Event
<1>10. ASSUME NEW C \in SUBSET Commands, FailExhausted(C) PROVE TypeOK'
  BY <1>10, <1>SweepRowsTyped
  DEF TypeOK, FailExhausted, UpdateCommandsWithEvent, Event
<1>11. ASSUME NEW C \in SUBSET Commands, ExpireCommands(C) PROVE TypeOK'
  BY <1>11, <1>SweepRowsTyped
  DEF TypeOK, ExpireCommands, UpdateCommandsWithEvent, Event
<1>12. CASE UNCHANGED storeVars
  BY <1>12 DEF TypeOK, storeVars
<1> QED
  BY <1>1, <1>2, <1>3, <1>4, <1>5, <1>6, <1>7, <1>8, <1>9, <1>10, <1>11,
     <1>12 DEF Next

\* The tables stay well typed; in particular no claim ever exceeds the cap on
\* dispatch attempts, however often commands are requeued.
THEOREM StoreTyped == Spec => []TypeOK
BY InitTyped, StepTyped, PTL DEF Spec

-----------------------------------------------------------------------------
(* What one step does to one command                                       *)

\* Status edges that leave commands.result alone, with the event they log.
Edges ==
    { <<"absent", "created", "created">>,
      <<"created", "published", "published">>,
      <<"published", "requeued", "created">>,
      <<"created", "delivered", "sent">>,
      <<"published", "delivered", "sent">>,
      <<"created", "failed", "failed">>,
      <<"published", "failed", "failed">>,
      <<"sent", "timeout", "timeout">> }

Quiet(c) ==
    /\ commands'[c].status = commands[c].status
    /\ commands'[c].result = commands[c].result
    /\ commands'[c].attempts # commands[c].attempts
          => commands[c].status = "created"
    /\ command_ack'[c] = command_ack[c]
    /\ command_events'[c] = command_events[c]

Logged(c, event) ==
    /\ <<commands[c].status, event, commands'[c].status>> \in Edges
    /\ commands'[c].result = commands[c].result
    /\ commands'[c].attempts = commands[c].attempts
    /\ event = "failed" => commands[c].attempts = MaxDispatchAttempts
    /\ command_ack'[c] = command_ack[c]
    /\ command_events'[c] = Append(command_events[c], event)

Reported(c, new) ==
    /\ commands[c].status \in Active
    /\ commands'[c].status = new.status
    /\ commands'[c].result = new
    /\ commands'[c].attempts = commands[c].attempts
    /\ command_ack'[c] = Append(command_ack[c], new)
    /\ command_events'[c] = Append(command_events[c], new.status)

RowStep(c) ==
    \/ Quiet(c)
    \/ \E event \in Event : Logged(c, event)
    \/ \E new \in Results : Reported(c, new)

\* Whatever statement runs, each command sees one of the three kinds of step.
LEMMA NextIsRowSteps ==
    ASSUME TypeOK, [Next]_storeVars
    PROVE  \A c \in Commands : RowStep(c)
<1> SUFFICES ASSUME NEW x \in Commands PROVE RowStep(x)
  OBVIOUS
<1>0. commands[x] \in Row
  BY DEF TypeOK
<1>1. ASSUME NEW c \in Commands, CreateCommand(c) PROVE RowStep(x)
  <2>1. CASE x = c
    <3>1. Logged(x, "created")
      BY <1>0, <1>1, <2>1, Zenon
      DEF Logged, Edges, CreateCommand, UpdateCommandsWithEvent, InsertCreated, Row
    <3> QED  BY <3>1 DEF RowStep, Event
  <2>2. CASE x # c
    BY <1>1, <2>2 DEF RowStep, Quiet, CreateCommand, UpdateCommandsWithEvent
  <2> QED  BY <2>1, <2>2
<1>2. ASSUME NEW c \in Commands, ClaimCommand(c) PROVE RowStep(x)
  <2>1. Quiet(x)
    BY <1>0, <1>2 DEF TypeOK, Quiet, ClaimCommand, Claimable, UpdateCommand, SetClaimed, Row
  <2> QED  BY <2>1 DEF RowStep
<1>3. ASSUME NEW c \in Commands, NEW n \in 1..MaxDispatchAttempts,
             MarkCommandPublished(c, n)
      PROVE  RowStep(x)
  <2>1. CASE x = c /\ HeldByClaim(commands[c], n)
    <3>1. Logged(x, "published")
      BY <1>0, <1>3, <2>1, Zenon
      DEF Logged, Edges, MarkCommandPublished, UpdateCommandsWithEvent,
          HeldByClaim, SetPublished, Row
    <3> QED  BY <3>1, SMTT(30) DEF RowStep, Event
  <2>2. CASE ~(x = c /\ HeldByClaim(commands[c], n))
    BY <1>3, <2>2
    DEF RowStep, Quiet, MarkCommandPublished, UpdateCommandsWithEvent
  <2> QED  BY <2>1, <2>2
<1>4. ASSUME NEW c \in Commands, NEW n \in 1..MaxDispatchAttempts,
             RescheduleCommand(c, n)
      PROVE  RowStep(x)
  <2>1. CASE UpdateCommand(c, SetBackoff)
    BY <1>0, <2>1 DEF TypeOK, RowStep, Quiet, UpdateCommand, SetBackoff, Row
  <2>2. CASE UNCHANGED storeVars
    BY <2>2 DEF RowStep, Quiet, storeVars
  <2> QED  BY <1>4, <2>1, <2>2 DEF RescheduleCommand
<1>5. ASSUME NEW c \in Commands, MarkCommandSent(c) PROVE RowStep(x)
  <2>1. CASE x = c /\ commands[c].status \in {"created", "published"}
    <3>1. Logged(x, "delivered")
      BY <1>0, <1>5, <2>1, Zenon
      DEF Logged, Edges, MarkCommandSent, UpdateCommandsWithEvent, SetSent, Row
    <3> QED  BY <3>1, SMTT(30) DEF RowStep, Event
  <2>2. CASE ~(x = c /\ commands[c].status \in {"created", "published"})
    BY <1>5, <2>2 DEF RowStep, Quiet, MarkCommandSent, UpdateCommandsWithEvent
  <2> QED  BY <2>1, <2>2
<1>6. ASSUME NEW c \in Commands, RequeueCommand(c) PROVE RowStep(x)
  <2>1. CASE x = c /\ commands[c].status = "published"
    <3>1. Logged(x, "requeued")
      BY <1>0, <1>6, <2>1, Zenon
      DEF Logged, Edges, RequeueCommand, UpdateCommandsWithEvent, SetRequeued, Row
    <3> QED  BY <3>1, SMTT(30) DEF RowStep, Event
  <2>2. CASE ~(x = c /\ commands[c].status = "published")
    BY <1>6, <2>2 DEF RowStep, Quiet, RequeueCommand, UpdateCommandsWithEvent
  <2> QED  BY <2>1, <2>2
<1>7. ASSUME NEW c \in Commands, NEW r \in Reports, AckCommandResult(c, r)
      PROVE  RowStep(x)
  <2> DEFINE new == NormalizeCommandResult(r)
  <2>1. ValidReport(r) /\ commands[c].status \notin {"absent"} \cup Terminal
    BY <1>7 DEF AckCommandResult, AckOutcome, Terminal
  <2>2. new \in Results
    BY <2>1, NormalizedTyped
  <2>3. CASE x = c
    <3>1. commands[x].status \in Active
      BY <1>0, <2>1, <2>3 DEF Row, Status
    <3>2. PICK next \in AdvanceCommandStatus(commands[c].status, new.status) :
             /\ commands' = [commands EXCEPT ![c] = SetResult(@, next, new)]
             /\ command_ack' = [command_ack EXCEPT ![c] = Append(@, new)]
             /\ command_events' = [command_events EXCEPT
                                      ![c] = Append(@, new.status)]
      BY <1>7, Zenon DEF AckCommandResult
    <3>3. next = new.status
      BY <2>2 DEF AdvanceCommandStatus, Transitions, Results
    <3>4. Reported(x, new)
      BY <1>0, <2>3, <3>1, <3>2, <3>3 DEF TypeOK, Reported, SetResult, Row
    <3> QED  BY <2>2, <3>4 DEF RowStep
  <2>4. CASE x # c
    BY <1>7, <2>4 DEF TypeOK, RowStep, Quiet, AckCommandResult
  <2> QED  BY <2>3, <2>4
<1>8. ASSUME NEW c \in Commands, Tick(c) PROVE RowStep(x)
  <2>1. CASE UpdateCommand(c, SetDue)
    BY <1>0, <2>1 DEF TypeOK, RowStep, Quiet, UpdateCommand, SetDue, Row
  <2>2. CASE UpdateCommand(c, SetStale)
    BY <1>0, <2>2 DEF TypeOK, RowStep, Quiet, UpdateCommand, SetStale, Row
  <2>3. CASE UpdateCommand(c, SetPassed)
    BY <1>0, <2>3 DEF TypeOK, RowStep, Quiet, UpdateCommand, SetPassed, Row
  <2> QED
    BY <1>8, <2>1, <2>2, <2>3 DEF Tick, LeaseEnds, TurnsStale, DeadlinePasses
<1>9. ASSUME NEW C \in SUBSET Commands, RequeueStale(C) PROVE RowStep(x)
  <2>1. CASE x \in C
    <3>1. Logged(x, "requeued")
      BY <1>0, <1>9, <2>1, Zenon
      DEF Logged, Edges, RequeueStale, Stranded, UpdateCommandsWithEvent,
          SetRedispatch, Row
    <3> QED  BY <3>1 DEF RowStep, Event
  <2>2. CASE x \notin C
    BY <1>9, <2>2 DEF RowStep, Quiet, RequeueStale, UpdateCommandsWithEvent
  <2> QED  BY <2>1, <2>2
<1>10. ASSUME NEW C \in SUBSET Commands, FailExhausted(C) PROVE RowStep(x)
  <2>1. CASE x \in C
    <3>0. commands[x].attempts = MaxDispatchAttempts
      BY <1>0, <1>10, <2>1, StoreAssumption, SMTT(30)
      DEF FailExhausted, Exhausted, Row
    <3>1. Logged(x, "failed")
      BY <1>0, <1>10, <2>1, <3>0, Zenon
      DEF Logged, Edges, FailExhausted, Exhausted, UpdateCommandsWithEvent,
          SetFailed, Row
    <3> QED  BY <3>1 DEF RowStep, Event
  <2>2. CASE x \notin C
    BY <1>10, <2>2 DEF RowStep, Quiet, FailExhausted, UpdateCommandsWithEvent
  <2> QED  BY <2>1, <2>2
<1>11. ASSUME NEW C \in SUBSET Commands, ExpireCommands(C) PROVE RowStep(x)
  <2>1. CASE x \in C
    <3>1. Logged(x, "timeout")
      BY <1>0, <1>11, <2>1, Zenon
      DEF Logged, Edges, ExpireCommands, Expired, UpdateCommandsWithEvent,
          SetTimeout, Row
    <3> QED  BY <3>1, SMTT(30) DEF RowStep, Event
  <2>2. CASE x \notin C
    BY <1>11, <2>2 DEF RowStep, Quiet, ExpireCommands, UpdateCommandsWithEvent
  <2> QED  BY <2>1, <2>2
<1>12. CASE UNCHANGED storeVars
  BY <1>12 DEF RowStep, Quiet, storeVars
<1> QED
  BY <1>1, <1>2, <1>3, <1>4, <1>5, <1>6, <1>7, <1>8, <1>9, <1>10, <1>11,
     <1>12 DEF Next

-----------------------------------------------------------------------------
(* Invariants                                                              *)

\* The strengthening EndingIsExplained needs: a command that is 'sent' has its
\* confirmation on record, so the timeout that follows has one too.
SentIsLogged ==
    \A c \in Commands :
        commands[c].status = "sent" /\ c \notin Legacy
            => \E i \in DOMAIN command_events[c] :
                  command_events[c][i] = "delivered"

StoreInv ==
    /\ TypeOK
    /\ ResultIsAcknowledged
    /\ SentIsLogged
    /\ EndingIsExplained
    /\ AuditTrailMatches

\* Empty tables, and legacy rows without history, satisfy the invariant.
LEMMA InitInv == Init => StoreInv
<1> SUFFICES ASSUME Init PROVE StoreInv
  OBVIOUS
<1>1. TypeOK
  BY InitTyped
<1>2. \A c \in Commands :
         /\ commands[c].status = IF c \in Legacy THEN "sent" ELSE "absent"
         /\ commands[c].result = NoResult
         /\ command_ack[c] = <<>>
         /\ command_events[c] = <<>>
  BY Zenon DEF Init, AbsentRow, LegacyRow
<1> QED
  BY <1>1, <1>2
  DEF StoreInv, ResultIsAcknowledged, SentIsLogged, EndingIsExplained,
      AuditTrailMatches

\* The invariant is inductive: one lemma per conjunct.
LEMMA StepInv == StoreInv /\ [Next]_storeVars => StoreInv'
  \* Appending to a trail keeps its entries and ends it with the new one.
<1>AppendFacts.
      ASSUME NEW S, NEW s \in Seq(S), NEW e \in S
      PROVE  /\ Append(s, e) \in Seq(S)
             /\ Append(s, e) # <<>>
             /\ Len(Append(s, e)) = Len(s) + 1
             /\ Append(s, e)[Len(s) + 1] = e
             /\ \A i \in 1..Len(s) : Append(s, e)[i] = s[i]
             /\ DOMAIN s = 1..Len(s)
             /\ DOMAIN Append(s, e) = 1..(Len(s) + 1)
  OBVIOUS
  \* Result and acknowledgement row are written together, once.
<1>ResultStep.
      ASSUME StoreInv, [Next]_storeVars
      PROVE  ResultIsAcknowledged'
  <2> USE <1>ResultStep
  <2> SUFFICES ASSUME NEW c \in Commands
               PROVE  /\ command_ack'[c] = IF commands'[c].result = NoResult
                                           THEN <<>> ELSE <<commands'[c].result>>
                      /\ commands'[c].result # NoResult
                            => commands'[c].status = commands'[c].result.status
                      /\ commands'[c].status = "acked"
                            => commands'[c].result # NoResult
    BY Zenon DEF ResultIsAcknowledged
  <2>0. RowStep(c)
    BY NextIsRowSteps DEF StoreInv
  <2>1. commands[c] \in Row /\ command_ack[c] \in Seq(Results)
    BY DEF StoreInv, TypeOK
  <2>2. CASE Quiet(c)
    BY <2>2 DEF Quiet, StoreInv, ResultIsAcknowledged
  <2>3. ASSUME NEW event \in Event, Logged(c, event)
        PROVE  /\ commands[c].result = NoResult
               /\ commands'[c].result = NoResult
               /\ commands'[c].status # "acked"
               /\ command_ack'[c] = <<>>
    <3>1. commands[c].status \in {"absent", "created", "published", "sent"}
          /\ commands'[c].status # "acked"
      BY <2>3 DEF Logged, Edges
    <3>2. commands[c].result = NoResult
      <4>1. commands[c].result \in Results => commands[c].result.status \in {"acked", "failed"}
        BY DEF Results
      <4> QED
        BY <2>1, <3>1, <4>1, Zenon DEF StoreInv, ResultIsAcknowledged, Row
    <3> QED
      BY <2>3, <3>1, <3>2, Zenon DEF Logged, StoreInv, ResultIsAcknowledged
  <2>4. ASSUME NEW new \in Results, Reported(c, new)
        PROVE  /\ commands'[c].result = new
               /\ new # NoResult
               /\ commands'[c].status = new.status
               /\ command_ack'[c] = <<new>>
    <3>1. commands[c].result = NoResult
      <4>1. commands[c].result \in Results => commands[c].result.status \in {"acked", "failed"}
        BY DEF Results
      <4> QED
        BY <2>1, <2>4, <4>1, Zenon
        DEF StoreInv, ResultIsAcknowledged, Row, Reported, Active
    <3>2. command_ack[c] = <<>>
      BY <3>1, Zenon DEF StoreInv, ResultIsAcknowledged
    <3> QED
      BY <2>4, <3>2, NoResultAssumption DEF Reported
  <2> QED
    BY <2>0, <2>2, <2>3, <2>4 DEF RowStep
  \* An entry of the trail is never lost.
<1>TrailKept.
      ASSUME StoreInv, NEW c \in Commands, RowStep(c), NEW e \in Event,
             \E i \in DOMAIN command_events[c] : command_events[c][i] = e
      PROVE  \E i \in DOMAIN command_events'[c] : command_events'[c][i] = e
  <2> USE <1>TrailKept
  <2>1. command_events[c] \in Seq(Event)
    BY DEF StoreInv, TypeOK
  <2>2. CASE Quiet(c)
    BY <2>2 DEF Quiet
  <2>3. ASSUME NEW f \in Event, command_events'[c] = Append(command_events[c], f)
        PROVE  \E i \in DOMAIN command_events'[c] : command_events'[c][i] = e
    <3>1. PICK i \in DOMAIN command_events[c] : command_events[c][i] = e
      OBVIOUS
    <3>2. i \in DOMAIN command_events'[c] /\ command_events'[c][i] = e
      BY <2>1, <2>3, <3>1, <1>AppendFacts
    <3> QED  BY <3>2
  <2>4. ASSUME NEW new \in Results PROVE new.status \in Event
    BY DEF Results, Event
  <2> QED
    BY <2>2, <2>3, <2>4, Zenon DEF RowStep, Logged, Reported
  \* 'sent' is entered only with a 'delivered' entry, and entries stay.
<1>SentStep.
      ASSUME StoreInv, [Next]_storeVars
      PROVE  SentIsLogged'
  <2> USE <1>SentStep
  <2> SUFFICES ASSUME NEW c \in Commands, commands'[c].status = "sent",
                      c \notin Legacy
               PROVE  \E i \in DOMAIN command_events'[c] :
                         command_events'[c][i] = "delivered"
    BY DEF SentIsLogged
  <2>0. RowStep(c)
    BY NextIsRowSteps DEF StoreInv
  <2>1. command_events[c] \in Seq(Event) /\ "delivered" \in Event
    BY DEF StoreInv, TypeOK, Event
  <2>2. CASE commands[c].status = "sent"
    BY <2>0, <2>1, <2>2, <1>TrailKept DEF StoreInv, SentIsLogged
  <2>3. CASE commands[c].status # "sent"
    <3>1. ASSUME NEW new \in Results, Reported(c, new) PROVE FALSE
      BY <3>1 DEF Reported, Results
    <3>2. PICK event \in Event : Logged(c, event)
      BY <2>0, <2>3, <3>1 DEF RowStep, Quiet
    <3>3. event = "delivered"
      BY <3>2 DEF Logged, Edges
    <3>4. command_events'[c] = Append(command_events[c], "delivered")
      BY <3>2, <3>3 DEF Logged
    <3> QED
      BY <2>1, <3>4, <1>AppendFacts
  <2> QED  BY <2>2, <2>3
  \* 'failed' without a result comes from the exhaustion sweep, and 'timeout'
  \* from 'sent'.
<1>EndingStep.
      ASSUME StoreInv, [Next]_storeVars
      PROVE  EndingIsExplained'
  <2> USE <1>EndingStep
  <2> SUFFICES ASSUME NEW c \in Commands
               PROVE  /\ commands'[c].status = "failed"
                           /\ commands'[c].result = NoResult
                            => commands'[c].attempts = MaxDispatchAttempts
                      /\ commands'[c].status = "timeout" /\ c \notin Legacy
                            => \E i \in DOMAIN command_events'[c] :
                                  command_events'[c][i] = "delivered"
    BY DEF EndingIsExplained
  <2>0. RowStep(c) /\ "delivered" \in Event
    BY NextIsRowSteps DEF StoreInv, Event
  <2>1. ASSUME commands'[c].status = "failed", commands'[c].result = NoResult
        PROVE  commands'[c].attempts = MaxDispatchAttempts
    <3>1. CASE Quiet(c)
      BY <2>1, <3>1 DEF Quiet, StoreInv, EndingIsExplained
    <3>2. ASSUME NEW event \in Event, Logged(c, event)
          PROVE  commands'[c].attempts = MaxDispatchAttempts
      BY <2>1, <3>2 DEF Logged, Edges
    <3>3. ASSUME NEW new \in Results, Reported(c, new) PROVE FALSE
      BY <2>1, <3>3, NoResultAssumption DEF Reported
    <3> QED  BY <2>0, <3>1, <3>2, <3>3 DEF RowStep
  <2>2. ASSUME commands'[c].status = "timeout", c \notin Legacy
        PROVE  \E i \in DOMAIN command_events[c] :
                  command_events[c][i] = "delivered"
    <3>1. CASE Quiet(c)
      BY <2>2, <3>1 DEF Quiet, StoreInv, EndingIsExplained
    <3>2. ASSUME NEW event \in Event, Logged(c, event)
          PROVE  commands[c].status = "sent"
      BY <2>2, <3>2 DEF Logged, Edges
    <3>3. ASSUME NEW new \in Results, Reported(c, new) PROVE FALSE
      BY <2>2, <3>3 DEF Reported, Results
    <3> QED
      BY <2>0, <2>2, <3>1, <3>2, <3>3 DEF RowStep, StoreInv, SentIsLogged
  <2> QED
    BY <2>0, <2>1, <2>2, <1>TrailKept
  \* Each status change appends the event that explains it.
<1>AuditStep.
        ASSUME StoreInv, [Next]_storeVars
        PROVE  AuditTrailMatches'
      \* The trail stays a legal history when a legal entry is appended.
  <2> USE <1>AuditStep
  <2>TrailExtended.
        ASSUME NEW s \in Seq(Event), NEW e \in Event,
               \A i \in 1..(Len(s) - 1) : s[i + 1] \in MayFollow[s[i]],
               s # <<>> => e \in MayFollow[s[Len(s)]]
        PROVE  \A i \in 1..(Len(Append(s, e)) - 1) :
                  Append(s, e)[i + 1] \in MayFollow[Append(s, e)[i]]
    <3> USE <2>TrailExtended
    <3> DEFINE t == Append(s, e)
    <3> SUFFICES ASSUME NEW i \in 1..(Len(t) - 1) PROVE t[i + 1] \in MayFollow[t[i]]
      OBVIOUS
    <3>1. Len(s) \in Nat /\ Len(t) = Len(s) + 1 /\ i \in 1..Len(s)
      BY <1>AppendFacts
    <3>2. t[i] = s[i]
      BY <3>1, <1>AppendFacts
    <3>3. CASE i = Len(s)
      <4>1. s # <<>>
        BY <3>1, <3>3
      <4>2. t[i + 1] = e
        BY <3>3, <1>AppendFacts
      <4> QED  BY <3>2, <3>3, <4>1, <4>2
    <3>4. CASE i # Len(s)
      <4>1. i \in 1..(Len(s) - 1) /\ i + 1 \in 1..Len(s)
        BY <3>1, <3>4
      <4>2. t[i + 1] = s[i + 1]
        BY <4>1, <1>AppendFacts, SMTT(30)
      <4> QED  BY <3>2, <4>1, <4>2
    <3> QED  BY <3>3, <3>4
  <2> SUFFICES ASSUME NEW c \in Commands
               PROVE  /\ commands'[c].status =
                           IF command_events'[c] = <<>>
                           THEN IF c \in Legacy THEN "sent" ELSE "absent"
                           ELSE StatusAfter[command_events'[c][Len(command_events'[c])]]
                      /\ \A i \in 1..(Len(command_events'[c]) - 1) :
                           command_events'[c][i + 1]
                              \in MayFollow[command_events'[c][i]]
    BY DEF AuditTrailMatches
  <2> DEFINE s == command_events[c]
  <2>0. RowStep(c)
    BY NextIsRowSteps DEF StoreInv
  <2>1. s \in Seq(Event)
    BY DEF StoreInv, TypeOK
  <2>2. CASE Quiet(c)
    BY <2>2 DEF Quiet, StoreInv, AuditTrailMatches
  <2>3. ASSUME NEW e \in Event, command_events'[c] = Append(s, e),
               commands'[c].status = StatusAfter[e],
               s # <<>> => e \in MayFollow[s[Len(s)]]
        PROVE  /\ commands'[c].status =
                    IF command_events'[c] = <<>>
                    THEN IF c \in Legacy THEN "sent" ELSE "absent"
                    ELSE StatusAfter[command_events'[c][Len(command_events'[c])]]
               /\ \A i \in 1..(Len(command_events'[c]) - 1) :
                    command_events'[c][i + 1] \in MayFollow[command_events'[c][i]]
    <3>1. s \in Seq(Event) /\ \A i \in 1..(Len(s) - 1) : s[i + 1] \in MayFollow[s[i]]
      BY DEF StoreInv, TypeOK, AuditTrailMatches
    <3>2. Append(s, e) # <<>> /\ Append(s, e)[Len(Append(s, e))] = e
      BY <3>1, <1>AppendFacts
    <3> QED
      BY <2>3, <3>1, <3>2, <2>TrailExtended, Zenon
  <2>4. ASSUME NEW e \in Event, Logged(c, e)
        PROVE  /\ commands'[c].status = StatusAfter[e]
               /\ s # <<>> => e \in MayFollow[s[Len(s)]]
    <3>1. commands'[c].status = StatusAfter[e]
      BY <2>4, SMTT(30) DEF Logged, Edges, StatusAfter
    <3>2. ASSUME s # <<>> PROVE e \in MayFollow[s[Len(s)]]
      <4>1. commands[c].status = StatusAfter[s[Len(s)]] /\ s[Len(s)] \in Event
        BY <2>1, <3>2 DEF StoreInv, TypeOK, AuditTrailMatches
      <4> QED
        BY <2>4, <4>1 DEF Logged, Edges, StatusAfter, MayFollow, Event
    <3> QED  BY <3>1, <3>2
  <2>5. ASSUME NEW new \in Results, Reported(c, new)
        PROVE  /\ new.status \in Event
               /\ commands'[c].status = StatusAfter[new.status]
               /\ s # <<>> => new.status \in MayFollow[s[Len(s)]]
    <3>1. new.status \in {"acked", "failed"}
      BY Zenon DEF Results
    <3>2. new.status \in Event /\ commands'[c].status = StatusAfter[new.status]
      BY <2>5, <3>1, SMTT(30) DEF Reported, StatusAfter, Event
    <3>3. ASSUME s # <<>> PROVE new.status \in MayFollow[s[Len(s)]]
      <4>1. commands[c].status = StatusAfter[s[Len(s)]] /\ s[Len(s)] \in Event
        BY <2>1, <3>3 DEF StoreInv, TypeOK, AuditTrailMatches
      <4> QED
        BY <2>5, <3>1, <4>1 DEF Reported, Active, StatusAfter, MayFollow, Event
    <3> QED  BY <3>2, <3>3
  <2> QED
    BY <2>0, <2>2, <2>3, <2>4, <2>5, Zenon DEF RowStep, Logged, Reported
<1> SUFFICES ASSUME StoreInv, [Next]_storeVars PROVE StoreInv'
  OBVIOUS
<1>1. TypeOK'
  BY StepTyped DEF StoreInv
<1> QED
  BY <1>1, <1>ResultStep, <1>SentStep, <1>EndingStep, <1>AuditStep DEF StoreInv

\* The inductive invariant holds in every reachable state.
LEMMA StoreInvariant == Spec => []StoreInv
BY InitInv, StepInv, PTL DEF Spec

\* Result, acknowledgement row and status always agree, no command fails
\* without a result unless its attempts are used up, none times out without a
\* confirmed downlink, and the audit trail is a legal history that ends in the
\* row's status, for any clients.
THEOREM StoreSafe == Spec => []StoreIsSound
<1>1. StoreInv => StoreIsSound
  BY DEF StoreInv, StoreIsSound
<1> QED
  BY <1>1, StoreInvariant, PTL

\* A finished command is never touched again by any statement.
THEOREM TerminalSafe == Spec => TerminalIsFinal
  \* No kind of row step starts in a terminal status except the quiet one.
<1>TerminalStep.
      ASSUME TypeOK, [Next]_storeVars, NEW c \in Commands,
             commands[c].status \in Terminal
      PROVE  /\ commands'[c].status = commands[c].status
             /\ commands'[c].result = commands[c].result
             /\ command_ack'[c] = command_ack[c]
             /\ command_events'[c] = command_events[c]
  <2> USE <1>TerminalStep
  <2>1. RowStep(c)
    BY NextIsRowSteps
  <2>2. ASSUME NEW event \in Event, Logged(c, event) PROVE FALSE
    BY <2>2 DEF Logged, Edges, Terminal
  <2>3. ASSUME NEW new \in Results, Reported(c, new) PROVE FALSE
    BY <2>3 DEF Reported, Active, Terminal
  <2> QED
    BY <2>1, <2>2, <2>3 DEF RowStep, Quiet
<1>1. TypeOK /\ [Next]_storeVars =>
         [\A c \in Commands :
            commands[c].status \in Terminal =>
               /\ commands'[c].status = commands[c].status
               /\ commands'[c].result = commands[c].result
               /\ command_ack'[c] = command_ack[c]
               /\ command_events'[c] = command_events[c]]_storeVars
  BY <1>TerminalStep
<1> QED
  BY <1>1, StoreTyped, PTL DEF Spec, TerminalIsFinal

-----------------------------------------------------------------------------
(* Refinement of CommandContract                                           *)

\* The store implements the contract a reader of the command API relies on.
THEOREM StoreImplementsContract == Spec => ImplementsContract
  \* The initial tables are an initial state of the contract.
<1>ContractInit.
      Init => Contract!Init
  BY DEF Init, Contract!Init, AbsentRow, LegacyRow
  \* Every kind of row step is a step of the contract.
<1>ContractStep.
      TypeOK /\ [Next]_storeVars => [Contract!Next]_(Contract!vars)
  <2> SUFFICES ASSUME TypeOK, [Next]_storeVars PROVE Contract!Next
    OBVIOUS
  <2>1. ASSUME NEW c \in Commands
        PROVE  Contract!Stays(c) \/ Contract!Moves(c) \/ Contract!Reports(c)
    <3>1. RowStep(c)
      BY NextIsRowSteps
    <3>2. CASE Quiet(c)
      BY <3>2 DEF Quiet, Contract!Stays
    <3>3. ASSUME NEW event \in Event, Logged(c, event) PROVE Contract!Moves(c)
      BY <3>3, Zenon DEF Logged, Edges, Contract!Moves, Contract!PlainEdges
    <3>4. ASSUME NEW new \in Results, Reported(c, new) PROVE Contract!Reports(c)
      BY <3>4 DEF Reported, Active, Contract!Reports, Contract!Active
    <3> QED
      BY <3>1, <3>2, <3>3, <3>4 DEF RowStep
  <2> QED
    BY <2>1 DEF Contract!Next
<1> QED BY <1>ContractInit, <1>ContractStep, StoreTyped, PTL
DEF Spec, ImplementsContract, Contract!Spec

-----------------------------------------------------------------------------
(* The dispatchers and workers: type correctness                          *)

Busy == [pc : {"publish", "mark", "reschedule"}, cmd : Commands,
         attempt : 1..MaxDispatchAttempts]

Working(n) == [pc : {"downlink", "sent", "requeue", "deadletter", "commit"},
               offset : 1..n]

\* Idle loops and empty topics are well typed.
LEMMA DeliveryInitTyped == DeliveryInit => DeliveryTypeOK
BY DeliveryAssumption DEF DeliveryInit, DeliveryTypeOK, Idle, Waiting

\* Duplicate appends of a Kafka write keep the topic well typed.
LEMMA CopiesTyped ==
    ASSUME DeliveryTypeOK, NEW d \in Cores, dispatcher[d] # Idle,
           NEW n \in 0..MaxCopies
    PROVE  Copies(d, n) \in Seq(Events)
<1>1. dispatcher[d] \in Busy
  BY DEF DeliveryTypeOK, Busy
<1>2. [cmd |-> dispatcher[d].cmd, attempt |-> dispatcher[d].attempt] \in Events
  BY <1>1 DEF Busy, Events
<1>3. n \in Nat
  BY DeliveryAssumption
<1> QED
  BY <1>2, <1>3 DEF Copies

\* Every event of the topic and every dead letter is about a command.
LEMMA EventsTyped ==
    ASSUME DeliveryTypeOK
    PROVE  /\ Len(topic) \in Nat
           /\ \A i \in 1..Len(topic) : topic[i] \in Events /\ topic[i].cmd \in Commands
           /\ \A e \in dlq : e.cmd \in Commands
<1>1. topic \in Seq(Events) /\ dlq \subseteq Events
  BY DEF DeliveryTypeOK
<1>2. \A e \in Events : e.cmd \in Commands
  BY DEF Events
<1> QED  BY <1>1, <1>2

\* A worker past its fetch holds an event of some command.
LEMMA InHandTyped ==
    ASSUME DeliveryTypeOK, NEW w \in Workers, ~At(w, "fetch")
    PROVE  /\ worker[w] \in Working(Len(topic))
           /\ InHand(w) \in Events
           /\ InHand(w).cmd \in Commands
<1>1. worker[w] \in Working(Len(topic))
  BY DEF At, Waiting, DeliveryTypeOK, Working
<1>2. worker[w].offset \in 1..Len(topic) /\ topic \in Seq(Events)
  BY <1>1 DEF Working, DeliveryTypeOK
<1>3. InHand(w) \in Events
  BY <1>2 DEF InHand
<1> QED
  BY <1>1, <1>3 DEF Events

\* The loops' own state stays well typed.
LEMMA DeliveryStepTyped ==
    TypeOK /\ DeliveryTypeOK /\ [DeliveryNext]_vars => DeliveryTypeOK'
  \* Longer topics keep every offset valid.
<1>TopicGrows.
      ASSUME DeliveryTypeOK, NEW t \in Seq(Events), topic' = topic \o t
      PROVE  /\ topic' \in Seq(Events)
             /\ committed \in 0..Len(topic')
             /\ worker \in [Workers -> {Waiting} \cup Working(Len(topic'))]
             /\ \A i \in 1..Len(topic) : topic'[i] = topic[i]
  <2> USE <1>TopicGrows
  <2>1. topic \in Seq(Events)
    BY DEF DeliveryTypeOK
  <2>2. /\ topic' \in Seq(Events)
        /\ Len(topic') = Len(topic) + Len(t)
        /\ Len(topic) \in Nat /\ Len(t) \in Nat
        /\ \A i \in 1..Len(topic) : topic'[i] = topic[i]
    BY <2>1
  <2>3. committed \in 0..Len(topic')
    BY <2>2 DEF DeliveryTypeOK
  <2>4. Working(Len(topic)) \subseteq Working(Len(topic'))
    BY <2>2 DEF Working
  <2>5. worker \in [Workers -> {Waiting} \cup Working(Len(topic'))]
    BY <2>4 DEF DeliveryTypeOK, Working
  <2> QED
    BY <2>2, <2>3, <2>5
<1> SUFFICES ASSUME TypeOK, DeliveryTypeOK, [DeliveryNext]_vars
             PROVE  DeliveryTypeOK'
  OBVIOUS
<1>0. /\ dispatcher \in [Cores -> {Idle} \cup Busy]
      /\ worker \in [Workers -> {Waiting} \cup Working(Len(topic))]
      /\ topic \in Seq(Events) /\ Len(topic) \in Nat
  BY DEF DeliveryTypeOK, Busy, Working
<1>1. ASSUME NEW d \in Cores, Claim(d) PROVE DeliveryTypeOK'
  <2>1. PICK c \in Commands :
           /\ ClaimCommand(c)
           /\ dispatcher' = [dispatcher EXCEPT ![d] =
                 [pc |-> "publish", cmd |-> c,
                  attempt |-> commands'[c].attempts]]
    BY <1>1, Zenon DEF Claim
  <2>2. commands'[c].attempts \in 1..MaxDispatchAttempts
    <3>1. commands[c] \in Row
      BY DEF TypeOK
    <3>2. commands'[c].attempts = commands[c].attempts + 1
      BY <2>1, <3>1 DEF TypeOK, ClaimCommand, UpdateCommand, SetClaimed, Row
    <3> QED
      BY <2>1, <3>1, <3>2, StoreAssumption DEF ClaimCommand, Claimable, Row
  <2>3. [pc |-> "publish", cmd |-> c, attempt |-> commands'[c].attempts] \in Busy
    BY <2>2 DEF Busy
  <2>4. dispatcher' \in [Cores -> {Idle} \cup Busy]
    BY <1>0, <2>1, <2>3
  <2> QED
    BY <1>1, <2>4, Zenon
    DEF Claim, DispatchUnchanged, DeliveryTypeOK, Busy, ghostVars
<1>2. ASSUME NEW d \in Cores, PublishCommand(d) \/ PublishFails(d)
      PROVE  DeliveryTypeOK'
  <2>1. dispatcher[d] # Idle /\ dispatcher[d] \in Busy
    BY <1>0, <1>2 DEF PublishCommand, PublishFails, Idle
  <2>0. 1..MaxCopies \subseteq 0..MaxCopies
    BY DeliveryAssumption
  <2>2. PICK n \in 0..MaxCopies : topic' = topic \o Copies(d, n)
    BY <1>2, <2>0, Zenon DEF PublishCommand, PublishFails
  <2>3. /\ topic' \in Seq(Events)
        /\ committed \in 0..Len(topic')
        /\ worker \in [Workers -> {Waiting} \cup Working(Len(topic'))]
    BY <2>1, <2>2, CopiesTyped, <1>TopicGrows, Zenon
  <2>4. \A pc \in {"mark", "reschedule"} :
           [dispatcher[d] EXCEPT !.pc = pc] \in Busy
    BY <2>1 DEF Busy
  <2>5. dispatcher' \in [Cores -> {Idle} \cup Busy]
    BY <1>0, <1>2, <2>4, Zenon DEF PublishCommand, PublishFails
  <2> QED
    BY <1>2, <2>3, <2>5
    DEF PublishCommand, PublishFails, DispatchUnchanged, DeliveryTypeOK, Busy,
        Working, ghostVars
<1>3. ASSUME NEW d \in Cores, MarkPublished(d) \/ Reschedule(d)
      PROVE  DeliveryTypeOK'
  <2>1. dispatcher' \in [Cores -> {Idle} \cup Busy]
    BY <1>0, <1>3 DEF MarkPublished, Reschedule
  <2> QED
    BY <1>3, <2>1
    DEF MarkPublished, Reschedule, DispatchUnchanged, DeliveryTypeOK, Busy,
        ghostVars
<1>4. ASSUME NEW d \in Cores, CoreCrash(d) PROVE DeliveryTypeOK'
  <2>1. dispatcher' \in [Cores -> {Idle} \cup Busy]
    BY <1>0, <1>4 DEF CoreCrash
  <2> QED
    BY <1>4, <2>1 DEF CoreCrash, DeliveryTypeOK, Busy, kafkaVars, ghostVars
<1>5. ASSUME NEW d \in Cores, Scan(d) PROVE DeliveryTypeOK'
  <2>1. scanner' \in [Cores -> {"requeue", "fail", "expire"}]
    BY <1>5
    DEF Scan, ScanRequeue, ScanFail, ScanExpire, ScanError, DeliveryTypeOK
  <2>2. UNCHANGED <<dispatcher, worker, kafkaVars, ghostVars>>
    BY <1>5, Zenon DEF Scan, ScanRequeue, ScanFail, ScanExpire, ScanError, ScanUnchanged
  <2> QED
    BY <2>1, <2>2 DEF DeliveryTypeOK, kafkaVars, ghostVars
<1>6. ASSUME NEW w \in Workers, Fetch(w) PROVE DeliveryTypeOK'
  <2>1. committed + 1 \in 1..Len(topic)
    BY <1>0, <1>6 DEF Fetch, DeliveryTypeOK
  <2>2. \A pc \in {"downlink", "commit"} :
           [pc |-> pc, offset |-> committed + 1] \in Working(Len(topic))
    BY <2>1 DEF Working
  <2>3. worker' \in [Workers -> {Waiting} \cup Working(Len(topic))]
    BY <1>0, <1>6, <2>2 DEF Fetch
  <2> QED
    BY <1>6, <2>3
    DEF Fetch, WorkerUnchanged, DeliveryTypeOK, Working, ghostVars
<1>7. ASSUME NEW w \in Workers, ~At(w, "fetch")
      PROVE  /\ worker[w] \in Working(Len(topic))
             /\ InHand(w) \in Events /\ InHand(w).cmd \in Commands
             /\ \A pc \in {"downlink", "sent", "requeue", "deadletter", "commit"} :
                   Step(w, pc) => worker' \in [Workers -> {Waiting} \cup Working(Len(topic))]
  <2>1. worker[w] \in Working(Len(topic)) /\ InHand(w) \in Events
        /\ InHand(w).cmd \in Commands
    BY <1>7, InHandTyped
  <2>5. \A pc \in {"downlink", "sent", "requeue", "deadletter", "commit"} :
           [worker[w] EXCEPT !.pc = pc] \in Working(Len(topic))
    BY <2>1 DEF Working
  <2> QED
    BY <1>0, <2>1, <2>5, SMTT(30) DEF Step
<1>9. ASSUME NEW c \in Commands
      PROVE  [downlinks EXCEPT ![c] = Saturated(@)] \in [Commands -> 0..Many]
  BY <1>9, DeliveryAssumption DEF DeliveryTypeOK, Saturated
<1>10. ASSUME NEW w \in Workers, Downlink(w) \/ DownlinkFails(w)
       PROVE  DeliveryTypeOK'
  <2>1. ~At(w, "fetch")
    BY <1>10 DEF Downlink, DownlinkFails, At
  <2>2. worker' \in [Workers -> {Waiting} \cup Working(Len(topic))]
    BY <1>7, <1>10, <2>1 DEF Downlink, DownlinkFails
  <2>3. downlinks' \in [Commands -> 0..Many]
    <3>1. InHand(w).cmd \in Commands
      BY <1>7, <2>1
    <3>2. [downlinks EXCEPT ![InHand(w).cmd] = Saturated(@)] \in [Commands -> 0..Many]
      BY <1>9, <3>1
    <3>3. downlinks \in [Commands -> 0..Many]
      BY DEF DeliveryTypeOK
    <3>4. \/ downlinks' = [downlinks EXCEPT ![InHand(w).cmd] = Saturated(@)]
          \/ downlinks' = downlinks
      BY <1>10 DEF Downlink, DownlinkFails
    <3> QED
      BY <3>2, <3>3, <3>4
  <2>4. disturbed' \subseteq Commands
    BY <1>7, <1>10, <2>1, Zenon DEF Downlink, DownlinkFails, DeliveryTypeOK
  <2> QED
    BY <1>10, <2>2, <2>3, <2>4, Zenon
    DEF Downlink, DownlinkFails, WorkerUnchanged, DeliveryTypeOK, Working
<1>11. ASSUME NEW w \in Workers, MarkSent(w) \/ Requeue(w) PROVE DeliveryTypeOK'
  <2>1. ~At(w, "fetch")
    BY <1>11 DEF MarkSent, Requeue, At
  <2>2. worker' \in [Workers -> {Waiting} \cup Working(Len(topic))]
    BY <1>7, <1>11, <2>1, Zenon DEF MarkSent, Requeue
  <2> QED
    BY <1>11, <2>2
    DEF MarkSent, Requeue, WorkerUnchanged, DeliveryTypeOK, Working, ghostVars
<1>12. ASSUME NEW w \in Workers, DeadLetter(w) PROVE DeliveryTypeOK'
  <2>1. ~At(w, "fetch")
    BY <1>12 DEF DeadLetter, At
  <2>2. worker' \in [Workers -> {Waiting} \cup Working(Len(topic))]
    BY <1>7, <1>12, <2>1 DEF DeadLetter
  <2>3. dlq' \subseteq Events
    BY <1>7, <1>12, <2>1, Zenon DEF DeadLetter, DeliveryTypeOK
  <2> QED
    BY <1>12, <2>2, <2>3
    DEF DeadLetter, WorkerUnchanged, DeliveryTypeOK, Working, ghostVars
<1>13. ASSUME NEW w \in Workers, Commit(w) PROVE DeliveryTypeOK'
  <2>1. worker[w] \in Working(Len(topic))
    BY <1>13, <1>7 DEF Commit, At
  <2>2. committed' \in 0..Len(topic)
    BY <1>0, <1>13, <2>1 DEF Commit, Working
  <2>3. worker' \in [Workers -> {Waiting} \cup Working(Len(topic))]
    BY <1>0, <1>13, Zenon DEF Commit
  <2> QED
    BY <1>13, <2>2, <2>3
    DEF Commit, WorkerUnchanged, DeliveryTypeOK, Working, ghostVars
<1>14. ASSUME NEW w \in Workers, WorkerCrash(w) PROVE DeliveryTypeOK'
  <2>1. worker' \in [Workers -> {Waiting} \cup Working(Len(topic))]
    BY <1>0, <1>14, Zenon DEF WorkerCrash
  <2>2. disturbed' \subseteq Commands
    BY <1>7, <1>14, Zenon DEF WorkerCrash, DeliveryTypeOK
  <2> QED
    BY <1>14, <2>1, <2>2
    DEF WorkerCrash, WorkerUnchanged, DeliveryTypeOK, Working
<1>15. ASSUME NEW w \in Workers, Rebalance(w) PROVE DeliveryTypeOK'
  <2>1. disturbed' \subseteq Commands
    BY <1>7, <1>15 DEF Rebalance, DeliveryTypeOK
  <2> QED
    BY <1>15, <2>1, Zenon DEF Rebalance, DeliveryTypeOK
<1>16. CASE LoopsUnchanged
  BY <1>16, Zenon DEF LoopsUnchanged, DeliveryTypeOK, kafkaVars, ghostVars
<1>17. CASE Replay
  <2>1. PICK e \in dlq : topic' = Append(topic, e)
    BY <1>17 DEF Replay
  <2>2. e \in Events
    BY <2>1 DEF DeliveryTypeOK
  <2>3. <<e>> \in Seq(Events) /\ topic' = topic \o <<e>>
    BY <1>0, <2>1, <2>2
  <2>4. /\ topic' \in Seq(Events)
        /\ committed \in 0..Len(topic')
        /\ worker \in [Workers -> {Waiting} \cup Working(Len(topic'))]
    BY <2>3, <1>TopicGrows, Zenon
  <2> QED
    BY <1>17, <2>4 DEF Replay, DeliveryTypeOK, Working, ghostVars
<1>18. CASE UNCHANGED vars
  BY <1>18, Zenon DEF vars, DeliveryTypeOK, kafkaVars, ghostVars
<1> QED
  BY <1>1, <1>2, <1>3, <1>4, <1>5, <1>6, <1>10, <1>11, <1>12, <1>13, <1>14,
     <1>15, <1>16, <1>17, <1>18, SMTT(30)
  DEF DeliveryNext, DeployedNext, WorkerStep, Create, Ack, Clock

-----------------------------------------------------------------------------
(* The loops implement the store                                           *)

\* Every step of the system is a statement of the store, a tick of its clock,
\* or leaves the tables alone.
LEMMA DeliveryStepIsStoreStep ==
    DeliveryTypeOK /\ [DeliveryNext]_vars => [Next]_storeVars
<1> SUFFICES ASSUME DeliveryTypeOK, [DeliveryNext]_vars
             PROVE  Next \/ UNCHANGED storeVars
  OBVIOUS
<1>1. ASSUME NEW d \in Cores, dispatcher[d] # Idle
      PROVE  /\ dispatcher[d].cmd \in Commands
             /\ dispatcher[d].attempt \in 1..MaxDispatchAttempts
  <2>1. dispatcher[d] \in Busy
    BY <1>1 DEF DeliveryTypeOK, Busy
  <2> QED  BY <2>1 DEF Busy
<1>2. ASSUME NEW w \in Workers, ~At(w, "fetch") PROVE InHand(w).cmd \in Commands
  BY <1>2, InHandTyped
<1>3. ASSUME NEW d \in Cores, Claim(d) PROVE Next
  BY <1>3, Zenon DEF Claim, Next
<1>4. ASSUME NEW d \in Cores, MarkPublished(d) \/ Reschedule(d)
      PROVE  Next \/ UNCHANGED storeVars
  <2>1. dispatcher[d] # Idle
    BY <1>4 DEF MarkPublished, Reschedule, Idle
  <2> QED
    BY <1>1, <1>4, <2>1, Zenon DEF MarkPublished, Reschedule, Next
<1>5. ASSUME NEW d \in Cores,
             PublishCommand(d) \/ PublishFails(d) \/ CoreCrash(d)
      PROVE  UNCHANGED storeVars
  BY <1>5 DEF PublishCommand, PublishFails, CoreCrash
<1>6. ASSUME NEW d \in Cores, Scan(d) PROVE Next \/ UNCHANGED storeVars
  <2>1. ASSUME NEW C \in SUBSET Commands,
               RequeueStale(C) \/ FailExhausted(C) \/ ExpireCommands(C)
        PROVE  Next
    BY <2>1 DEF Next
  <2> QED
    BY <1>6, <2>1
    DEF Scan, ScanRequeue, ScanFail, ScanExpire, ScanError, Matching
<1>7. ASSUME NEW w \in Workers, MarkSent(w) \/ Requeue(w)
      PROVE  Next \/ UNCHANGED storeVars
  <2>1. InHand(w).cmd \in Commands
    BY <1>2, <1>7, Zenon DEF MarkSent, Requeue, At
  <2> QED
    BY <1>7, <2>1, Zenon DEF MarkSent, Requeue, Next
<1>8. ASSUME NEW w \in Workers,
             \/ Fetch(w) \/ Downlink(w) \/ DownlinkFails(w) \/ DeadLetter(w)
             \/ Commit(w) \/ WorkerCrash(w) \/ Rebalance(w)
      PROVE  UNCHANGED storeVars
  BY <1>8 DEF Fetch, Downlink, DownlinkFails, DeadLetter, Commit, WorkerCrash,
              Rebalance
<1>9. ASSUME NEW c \in Commands, Create(c) \/ Ack(c) \/ Clock(c) PROVE Next
  BY <1>9 DEF Create, Ack, Clock, Next
<1>10. CASE Replay
  BY <1>10 DEF Replay
<1>11. CASE UNCHANGED vars
  BY <1>11 DEF vars
<1> QED
  BY <1>3, <1>4, <1>5, <1>6, <1>7, <1>8, <1>9, <1>10, <1>11
  DEF DeliveryNext, DeployedNext, WorkerStep

\* Tables and loops stay well typed together.
LEMMA DeliveryTypes == DeliverySpec => [](TypeOK /\ DeliveryTypeOK)
<1>1. DeliveryInit => TypeOK /\ DeliveryTypeOK
  BY InitTyped, DeliveryInitTyped DEF DeliveryInit
<1>2. TypeOK /\ DeliveryTypeOK /\ [DeliveryNext]_vars
         => TypeOK' /\ DeliveryTypeOK'
  BY StepTyped, DeliveryStepTyped, DeliveryStepIsStoreStep
<1> QED
  BY <1>1, <1>2, PTL DEF DeliverySpec

\* The loops, the topic and the ghosts stay well typed.
THEOREM DeliveryTyped == DeliverySpec => []DeliveryTypeOK
BY DeliveryTypes, PTL

\* The dispatchers, workers, operators and devices together are clients of the
\* store: what is proved of CommandStore holds of the running system.
THEOREM DeliveryImplementsStore == DeliverySpec => ImplementsStore
<1>1. DeliveryInit => Init
  BY DEF DeliveryInit
<1> QED
  BY <1>1, DeliveryTyped, DeliveryStepIsStoreStep, PTL
  DEF DeliverySpec, ImplementsStore, Spec

-----------------------------------------------------------------------------
(* Completions are fenced                                                  *)

\* Only a claim counts an attempt and only a completion publishes a row.
Tame ==
    \A c \in Commands :
        /\ commands'[c].attempts = commands[c].attempts
        /\ commands'[c].status = "published" => commands[c].status = "published"

\* Every statement other than a claim and a publication, and every clock step,
\* is tame.
LEMMA OtherStatementsAreTame ==
    ASSUME TypeOK
    PROVE  /\ \A c \in Commands :
                /\ CreateCommand(c) => Tame
                /\ \A n \in 1..MaxDispatchAttempts : RescheduleCommand(c, n) => Tame
                /\ MarkCommandSent(c) => Tame
                /\ RequeueCommand(c) => Tame
                /\ \A r \in Reports : AckCommandResult(c, r) => Tame
                /\ Tick(c) => Tame
           /\ \A C \in SUBSET Commands :
                RequeueStale(C) \/ FailExhausted(C) \/ ExpireCommands(C) => Tame
           /\ UNCHANGED storeVars => Tame
  \* No assignment but those of a claim and a publication touches the attempts or
  \* enters 'published'.
<1>SettersAreTame.
      ASSUME NEW row \in Row
      PROVE  /\ InsertCreated(row).attempts = row.attempts
             /\ InsertCreated(row).status # "published"
             /\ SetSent(row).attempts = row.attempts
             /\ SetSent(row).status # "published"
             /\ SetRequeued(row).attempts = row.attempts
             /\ SetRequeued(row).status # "published"
             /\ SetRedispatch(row).attempts = row.attempts
             /\ SetRedispatch(row).status # "published"
             /\ SetFailed(row).attempts = row.attempts
             /\ SetFailed(row).status # "published"
             /\ SetTimeout(row).attempts = row.attempts
             /\ SetTimeout(row).status # "published"
  BY DEF Row, InsertCreated, SetSent, SetRequeued, SetRedispatch, SetFailed,
         SetTimeout
<1>0. commands \in [Commands -> Row]
  BY Zenon DEF TypeOK
<1>1. ASSUME NEW c \in Commands, CreateCommand(c) PROVE Tame
  BY <1>0, <1>1, <1>SettersAreTame DEF Tame, CreateCommand, UpdateCommandsWithEvent
<1>2. ASSUME NEW c \in Commands, NEW n \in 1..MaxDispatchAttempts,
             RescheduleCommand(c, n)
      PROVE  Tame
  <2>1. CASE UpdateCommand(c, SetBackoff)
    BY <1>0, <2>1 DEF Tame, UpdateCommand, SetBackoff, Row
  <2>2. CASE UNCHANGED storeVars
    BY <2>2, Zenon DEF Tame, storeVars
  <2> QED  BY <1>2, <2>1, <2>2 DEF RescheduleCommand
<1>3. ASSUME NEW c \in Commands, MarkCommandSent(c) PROVE Tame
  BY <1>0, <1>3, <1>SettersAreTame, Zenon
  DEF Tame, MarkCommandSent, UpdateCommandsWithEvent
<1>4. ASSUME NEW c \in Commands, RequeueCommand(c) PROVE Tame
  BY <1>0, <1>4, <1>SettersAreTame DEF Tame, RequeueCommand, UpdateCommandsWithEvent
<1>5. ASSUME NEW c \in Commands, NEW r \in Reports, AckCommandResult(c, r)
      PROVE  Tame
  <2> DEFINE new == NormalizeCommandResult(r)
  <2>1. ValidReport(r)
    BY <1>5 DEF AckCommandResult, AckOutcome
  <2>2. new.status \in {"acked", "failed"}
    BY <2>1, NormalizedTyped DEF Results
  <2>3. PICK next \in AdvanceCommandStatus(commands[c].status, new.status) :
           commands' = [commands EXCEPT ![c] = SetResult(@, next, new)]
    BY <1>5, ZenonT(30) DEF AckCommandResult
  <2>4. next # "published"
    BY <2>2, Zenon DEF AdvanceCommandStatus, Transitions
  <2> QED
    BY <1>0, <2>3, <2>4 DEF Tame, SetResult, Row
<1>6. ASSUME NEW c \in Commands, Tick(c) PROVE Tame
  <2>1. CASE UpdateCommand(c, SetDue)
    BY <1>0, <2>1 DEF Tame, UpdateCommand, SetDue, Row
  <2>2. CASE UpdateCommand(c, SetStale)
    BY <1>0, <2>2 DEF Tame, UpdateCommand, SetStale, Row
  <2>3. CASE UpdateCommand(c, SetPassed)
    BY <1>0, <2>3, Zenon DEF Tame, UpdateCommand, SetPassed, Row
  <2> QED
    BY <1>6, <2>1, <2>2, <2>3 DEF Tick, LeaseEnds, TurnsStale, DeadlinePasses
<1>7. ASSUME NEW C \in SUBSET Commands, RequeueStale(C) PROVE Tame
  BY <1>0, <1>7, <1>SettersAreTame, Zenon
  DEF Tame, RequeueStale, UpdateCommandsWithEvent
<1>8. ASSUME NEW C \in SUBSET Commands, FailExhausted(C) PROVE Tame
  BY <1>0, <1>8, <1>SettersAreTame, Zenon
  DEF Tame, FailExhausted, UpdateCommandsWithEvent
<1>9. ASSUME NEW C \in SUBSET Commands, ExpireCommands(C) PROVE Tame
  BY <1>0, <1>9, <1>SettersAreTame, Zenon DEF Tame, ExpireCommands, UpdateCommandsWithEvent
<1>10. UNCHANGED storeVars => Tame
  BY Zenon DEF Tame, storeVars
<1> QED
  BY <1>1, <1>2, <1>3, <1>4, <1>5, <1>6, <1>7, <1>8, <1>9, <1>10

\* Only a claim and a completion that finds its row are not tame.
LEMMA StepKinds ==
    ASSUME TypeOK, DeliveryTypeOK, [DeliveryNext]_vars
    PROVE  \/ \E d \in Cores : Claim(d)
           \/ \E d \in Cores :
                /\ MarkPublished(d)
                /\ MarkCommandPublished(dispatcher[d].cmd, dispatcher[d].attempt)
           \/ \E d \in Cores : (MarkPublished(d) \/ Reschedule(d)) /\ Tame
           \/ \E d \in Cores : PublishCommand(d) \/ PublishFails(d) \/ CoreCrash(d)
           \/ Tame /\ UNCHANGED dispatcher
<1>1. ASSUME NEW d \in Cores, MarkPublished(d) \/ Reschedule(d)
      PROVE  \/ Tame
             \/ /\ MarkPublished(d)
                /\ MarkCommandPublished(dispatcher[d].cmd, dispatcher[d].attempt)
  <2>1. dispatcher[d] \in Busy
    BY <1>1, SMTT(30) DEF MarkPublished, Reschedule, DeliveryTypeOK, Busy, Idle
  <2>2. /\ dispatcher[d].cmd \in Commands
        /\ dispatcher[d].attempt \in 1..MaxDispatchAttempts
    BY <2>1, Zenon DEF Busy
  <2> QED
    BY <1>1, <2>2, OtherStatementsAreTame, Zenon DEF MarkPublished, Reschedule
<1>2. ASSUME NEW d \in Cores, Scan(d) PROVE Tame /\ UNCHANGED dispatcher
  BY <1>2, OtherStatementsAreTame
  DEF Scan, ScanRequeue, ScanFail, ScanExpire, ScanError, ScanUnchanged, Matching
<1>3. ASSUME NEW w \in Workers, WorkerStep(w) \/ WorkerCrash(w) \/ Rebalance(w)
      PROVE  Tame /\ UNCHANGED dispatcher
  <2>1. ~At(w, "fetch") => InHand(w).cmd \in Commands
    BY InHandTyped, Zenon
  <2>2. ASSUME MarkSent(w) \/ Requeue(w) PROVE Tame /\ UNCHANGED dispatcher
    BY <2>1, <2>2, OtherStatementsAreTame, Zenon
    DEF MarkSent, Requeue, At, WorkerUnchanged
  <2>3. ASSUME \/ Fetch(w) \/ Downlink(w) \/ DownlinkFails(w) \/ DeadLetter(w)
               \/ Commit(w) \/ WorkerCrash(w) \/ Rebalance(w)
        PROVE  Tame /\ UNCHANGED dispatcher
    BY <2>3, OtherStatementsAreTame, Zenon
    DEF Fetch, Downlink, DownlinkFails, DeadLetter, Commit, WorkerCrash,
        Rebalance, WorkerUnchanged
  <2> QED  BY <1>3, <2>2, <2>3 DEF WorkerStep
<1>4. ASSUME NEW c \in Commands, Create(c) \/ Ack(c) \/ Clock(c)
      PROVE  Tame /\ UNCHANGED dispatcher
  BY <1>4, OtherStatementsAreTame, Zenon DEF Create, Ack, Clock, LoopsUnchanged
<1>5. ASSUME Replay \/ UNCHANGED vars PROVE Tame /\ UNCHANGED dispatcher
  BY <1>5, OtherStatementsAreTame, Zenon DEF Replay, vars
<1> QED
  BY <1>1, <1>2, <1>3, <1>4, <1>5, SMTT(30) DEF DeliveryNext, DeployedNext

\* What CompletionFenced says of one dispatcher.
Fenced(d) ==
    /\ dispatcher[d].attempt <= commands[dispatcher[d].cmd].attempts
    /\ dispatcher[d].attempt = commands[dispatcher[d].cmd].attempts
          => commands[dispatcher[d].cmd].status # "published"
    /\ \A e \in Cores \ {d} :
          dispatcher[e].cmd = dispatcher[d].cmd
             => dispatcher[e].attempt # dispatcher[d].attempt

\* Every step keeps the fence: claims by their number, completions by their
\* WHERE clause, all others because they are tame.
LEMMA FenceStep ==
    ASSUME TypeOK, DeliveryTypeOK, CompletionFenced, [DeliveryNext]_vars
    PROVE  CompletionFenced'
  \* CompletionFenced is Fenced for every dispatcher that holds a claim.
<1>FencedEachCore.
      CompletionFenced <=> \A d \in Cores : dispatcher[d].pc # "idle" => Fenced(d)
  BY Zenon DEF CompletionFenced, Fenced
  \* A tame step that drops claims or leaves them alone keeps the fence.
<1>TameKeepsFence.
      ASSUME DeliveryTypeOK, CompletionFenced, Tame,
             \A d \in Cores :
                \/ dispatcher'[d] = Idle
                \/ /\ dispatcher'[d].cmd = dispatcher[d].cmd
                   /\ dispatcher'[d].attempt = dispatcher[d].attempt
                   /\ dispatcher[d].pc # "idle" \/ dispatcher'[d] = dispatcher[d]
      PROVE  CompletionFenced'
  <2> USE <1>TameKeepsFence
  <2> SUFFICES ASSUME NEW d \in Cores, dispatcher'[d].pc # "idle"
               PROVE  Fenced(d)'
    BY Zenon DEF CompletionFenced, Fenced
  <2>1. /\ dispatcher'[d].cmd = dispatcher[d].cmd
        /\ dispatcher'[d].attempt = dispatcher[d].attempt
        /\ dispatcher[d].pc # "idle"
    BY DEF Idle
  <2>2. dispatcher[d] \in Busy
    BY <2>1 DEF DeliveryTypeOK, Busy, Idle
  <2>3. dispatcher[d].cmd \in Commands /\ dispatcher[d].attempt \in 1..MaxDispatchAttempts
    BY <2>2, Zenon DEF Busy
  <2>4. Fenced(d)
    BY <2>1, <1>FencedEachCore, Zenon
  <2>5. ASSUME NEW e \in Cores \ {d}, dispatcher'[e].cmd = dispatcher'[d].cmd
        PROVE  dispatcher'[e].attempt # dispatcher'[d].attempt
    <3>1. dispatcher'[e] # Idle
      BY <2>1, <2>3, <2>5, DeliveryAssumption DEF Idle
    <3> QED
      BY <2>1, <2>4, <2>5, <3>1, Zenon DEF Fenced
  <2> QED
    BY <2>1, <2>3, <2>4, <2>5, ZenonT(30) DEF Fenced, Tame
<1>0. /\ commands \in [Commands -> Row]
      /\ dispatcher \in [Cores -> {Idle} \cup Busy]
  BY Zenon DEF TypeOK, DeliveryTypeOK, Busy
<1>00. ASSUME NEW d \in Cores, dispatcher[d].pc # "idle"
       PROVE  /\ dispatcher[d].cmd \in Commands
              /\ dispatcher[d].attempt \in 1..MaxDispatchAttempts
  <2>1. dispatcher[d] \in Busy
    BY <1>0, <1>00, SMTT(30) DEF Idle
  <2> QED  BY <2>1 DEF Busy
<1>1. ASSUME NEW d \in Cores, Claim(d) PROVE CompletionFenced'
  <2>1. PICK c \in Commands :
           /\ ClaimCommand(c)
           /\ dispatcher' = [dispatcher EXCEPT ![d] =
                 [pc |-> "publish", cmd |-> c,
                  attempt |-> commands'[c].attempts]]
    BY <1>1, Zenon DEF Claim
  <2>2. /\ commands'[c].attempts = commands[c].attempts + 1
        /\ commands'[c].status = "created"
        /\ \A x \in Commands \ {c} : commands'[x] = commands[x]
    BY <1>0, <2>1 DEF ClaimCommand, Claimable, UpdateCommand, SetClaimed, Row
  <2>3. commands[c].attempts \in 0..MaxDispatchAttempts
    BY <1>0, SMTT(30) DEF Row
  <2>4. /\ dispatcher'[d].cmd = c
        /\ dispatcher'[d].attempt = commands[c].attempts + 1
        /\ \A e \in Cores \ {d} : dispatcher'[e] = dispatcher[e]
    BY <1>0, <2>1, <2>2, ZenonT(30)
  <2>5. ASSUME NEW e \in Cores \ {d}, dispatcher[e].cmd = c
        PROVE  dispatcher[e].attempt \in Nat /\ dispatcher[e].attempt <= commands[c].attempts
    <3>1. dispatcher[e].pc # "idle"
      BY <1>0, <2>5, DeliveryAssumption DEF Idle, Busy
    <3> QED
      BY <1>00, <2>5, <3>1, <1>FencedEachCore, SMTT(30) DEF Fenced
  <2>6. Fenced(d)'
    BY <2>2, <2>3, <2>4, <2>5 DEF Fenced
  <2>7. ASSUME NEW e \in Cores \ {d}, dispatcher'[e].pc # "idle"
        PROVE  Fenced(e)'
    <3>1. /\ dispatcher[e].pc # "idle" /\ Fenced(e)
          /\ dispatcher[e].cmd \in Commands
          /\ dispatcher[e].attempt \in 1..MaxDispatchAttempts
      BY <1>00, <2>4, <2>7, <1>FencedEachCore, Zenon
    <3>2. ASSUME NEW x \in Cores \ {e}, dispatcher'[x].cmd = dispatcher[e].cmd
          PROVE  dispatcher'[x].attempt # dispatcher[e].attempt
      BY <2>3, <2>4, <2>5, <3>1, <3>2, SMTT(30) DEF Fenced
    <3>3. CASE dispatcher[e].cmd = c
      BY <2>2, <2>3, <2>4, <2>5, <3>1, <3>2, <3>3, SMTT(30) DEF Fenced
    <3>4. CASE dispatcher[e].cmd # c
      BY <2>2, <2>4, <3>1, <3>2, <3>4, SMTT(30) DEF Fenced
    <3> QED  BY <3>3, <3>4, Zenon
  <2> QED
    BY <2>6, <2>7, <1>FencedEachCore, Zenon DEF CompletionFenced, Fenced
<1>2. ASSUME NEW d \in Cores, MarkPublished(d),
             MarkCommandPublished(dispatcher[d].cmd, dispatcher[d].attempt)
      PROVE  CompletionFenced'
  <2> DEFINE c == dispatcher[d].cmd
             n == dispatcher[d].attempt
  <2>1. c \in Commands /\ n \in 1..MaxDispatchAttempts /\ dispatcher[d].pc # "idle"
    BY <1>00, <1>2, SMTT(30) DEF MarkPublished
  <2>2. /\ \A x \in Commands : commands'[x].attempts = commands[x].attempts
        /\ \A x \in Commands : commands'[x].status = "published" =>
              \/ commands[x].status = "published"
              \/ x = c /\ commands[c].attempts = n
    BY <1>0, <1>2, ZenonT(30)
    DEF MarkCommandPublished, UpdateCommandsWithEvent, HeldByClaim, SetPublished, Row
  <2>3. dispatcher'[d] = Idle /\ \A e \in Cores \ {d} : dispatcher'[e] = dispatcher[e]
    BY <1>0, <1>2 DEF MarkPublished
  <2>4. ASSUME NEW e \in Cores, dispatcher'[e].pc # "idle" PROVE Fenced(e)'
    <3>1. e # d /\ dispatcher'[e] = dispatcher[e]
      BY <2>3, <2>4 DEF Idle
    <3>2. /\ Fenced(e) /\ Fenced(d)
          /\ dispatcher[e].cmd \in Commands
          /\ dispatcher[e].attempt \in 1..MaxDispatchAttempts
      BY <1>00, <2>1, <2>4, <3>1, <1>FencedEachCore, Zenon
    <3>3. ASSUME NEW x \in Cores \ {e}, dispatcher'[x].cmd = dispatcher[e].cmd
          PROVE  dispatcher'[x].attempt # dispatcher[e].attempt
      <4>1. x # d
        BY <2>3, <3>2, <3>3, DeliveryAssumption DEF Idle
      <4> QED
        BY <2>3, <3>2, <3>3, <4>1, Zenon DEF Fenced
    <3> QED
      BY <2>2, <3>1, <3>2, <3>3, Zenon DEF Fenced
  <2> QED
    BY <2>4, Zenon DEF CompletionFenced, Fenced
<1>3. ASSUME NEW d \in Cores, MarkPublished(d) \/ Reschedule(d), Tame
      PROVE  CompletionFenced'
  BY <1>0, <1>3, <1>TameKeepsFence, Zenon DEF MarkPublished, Reschedule
<1>4. ASSUME NEW d \in Cores, PublishCommand(d) \/ PublishFails(d)
      PROVE  CompletionFenced'
  <2>1. Tame
    BY <1>4, OtherStatementsAreTame DEF PublishCommand, PublishFails
  <2>2. dispatcher[d].pc # "idle" /\ dispatcher[d] \in Busy
    BY <1>0, <1>4 DEF PublishCommand, PublishFails, Idle
  <2>3. /\ dispatcher'[d].cmd = dispatcher[d].cmd
        /\ dispatcher'[d].attempt = dispatcher[d].attempt
        /\ \A e \in Cores \ {d} : dispatcher'[e] = dispatcher[e]
    BY <1>0, <1>4, <2>2 DEF PublishCommand, PublishFails, Busy
  <2> QED
    BY <2>1, <2>2, <2>3, <1>TameKeepsFence
<1>5. ASSUME NEW d \in Cores, CoreCrash(d) PROVE CompletionFenced'
  <2>1. Tame
    BY <1>5, OtherStatementsAreTame, Zenon DEF CoreCrash
  <2> QED
    BY <1>0, <1>5, <2>1, <1>TameKeepsFence DEF CoreCrash
<1>6. ASSUME UNCHANGED dispatcher, Tame PROVE CompletionFenced'
  BY <1>6, <1>TameKeepsFence
<1> QED
  BY <1>1, <1>2, <1>3, <1>4, <1>5, <1>6, StepKinds, Zenon

\* For any number of dispatchers, however delayed: each attempt has one owner
\* and is not recorded as published behind that owner's back.
THEOREM CompletionSafe == DeliverySpec => []CompletionFenced
<1>1. DeliveryInit => CompletionFenced
  <2>1. DeliveryInit => \A d \in Cores : dispatcher[d] = Idle
    BY DEF DeliveryInit
  <2> QED
    BY <2>1 DEF CompletionFenced, Idle
<1>2. (TypeOK /\ DeliveryTypeOK) /\ CompletionFenced /\ [DeliveryNext]_vars
         => CompletionFenced'
  BY FenceStep, Zenon
<1> QED
  BY <1>1, <1>2, DeliveryTypes, PTL DEF DeliverySpec

-----------------------------------------------------------------------------
(* Events and the commands they are about                                  *)

\* A command in one of these needs no delivery any more.
Past == {"sent"} \cup Terminal

\* The event of the claim a dispatcher holds.
EventOf(d) == [cmd |-> dispatcher[d].cmd, attempt |-> dispatcher[d].attempt]

\* What any statement may do to the status of a command: it never disappears,
\* once past delivery it stays so, and it is published from 'created', without
\* another attempt being counted.
LEMMA StatusMoves ==
    ASSUME TypeOK, [Next]_storeVars, NEW c \in Commands
    PROVE  /\ commands[c].status # "absent" => commands'[c].status # "absent"
           /\ commands[c].status \in Past => commands'[c].status \in Past
           /\ commands'[c].status = "published" =>
                 commands'[c].attempts = commands[c].attempts
<1>1. RowStep(c)
  BY NextIsRowSteps
<1>2. CASE Quiet(c)
  BY <1>2, Zenon DEF Quiet
<1>3. ASSUME NEW event \in Event, Logged(c, event)
      PROVE  /\ commands'[c].status # "absent"
             /\ commands[c].status \in Past => commands'[c].status \in Past
             /\ commands'[c].attempts = commands[c].attempts
  BY <1>3, Zenon DEF Logged, Edges, Past, Terminal
<1>4. ASSUME NEW new \in Results, Reported(c, new)
      PROVE  commands'[c].status \in Past /\ commands'[c].status # "published"
  BY <1>4, Zenon DEF Reported, Results, Past, Terminal
<1> QED
  BY <1>1, <1>2, <1>3, <1>4, Zenon DEF RowStep, Past, Terminal

\* The topic only grows, by events of claims and by dead letters, and dead
\* letters are events of the topic.
LEMMA TopicMoves ==
    ASSUME TypeOK, DeliveryTypeOK, [DeliveryNext]_vars
    PROVE  /\ Len(topic) \in Nat /\ Len(topic') \in Nat /\ Len(topic) <= Len(topic')
           /\ \A i \in 1..Len(topic) : topic'[i] = topic[i]
           /\ \A i \in 1..Len(topic') :
                 \/ i \in 1..Len(topic)
                 \/ topic'[i] \in dlq
                 \/ \E d \in Cores : dispatcher[d] # Idle /\ topic'[i] = EventOf(d)
           /\ dlq \subseteq dlq'
           /\ \A e \in dlq' : e \in dlq \/ \E i \in 1..Len(topic) : topic[i] = e
<1>0. topic \in Seq(Events) /\ Len(topic) \in Nat
  BY DEF DeliveryTypeOK
<1>1. ASSUME NEW d \in Cores, PublishCommand(d) \/ PublishFails(d)
      PROVE  /\ Len(topic') \in Nat /\ Len(topic) <= Len(topic')
             /\ \A i \in 1..Len(topic) : topic'[i] = topic[i]
             /\ \A i \in 1..Len(topic') :
                   i \in 1..Len(topic) \/ topic'[i] = EventOf(d)
             /\ dispatcher[d] # Idle /\ dlq' = dlq
  <2>0. 1..MaxCopies \subseteq 0..MaxCopies
    BY DeliveryAssumption
  <2>1. PICK n \in 0..MaxCopies : topic' = topic \o Copies(d, n)
    BY <1>1, <2>0, Zenon DEF PublishCommand, PublishFails
  <2>2. dispatcher[d] # Idle /\ dlq' = dlq
    BY <1>1 DEF PublishCommand, PublishFails, DispatchUnchanged, Idle
  <2>3. n \in Nat /\ Copies(d, n) \in Seq(Events) /\ Len(Copies(d, n)) = n
    <3>1. n \in Nat
      BY DeliveryAssumption
    <3>2. Copies(d, n) \in Seq(Events)
      BY <2>2, CopiesTyped
    <3>3. Len(Copies(d, n)) = n
      BY <3>1 DEF Copies
    <3> QED  BY <3>1, <3>2, <3>3
  <2>4. /\ Len(topic') = Len(topic) + n
        /\ \A i \in 1..Len(topic) : topic'[i] = topic[i]
        /\ \A i \in 1..Len(topic') : i \in 1..Len(topic) \/ topic'[i] = EventOf(d)
    BY <1>0, <2>1, <2>3, SMTT(30) DEF Copies, EventOf
  <2> QED
    BY <1>0, <2>2, <2>3, <2>4
<1>2. CASE Replay
  <2>1. PICK e \in dlq : topic' = Append(topic, e)
    BY <1>2 DEF Replay
  <2>2. e \in Events
    BY Zenon DEF DeliveryTypeOK
  <2>3. /\ Len(topic') = Len(topic) + 1
        /\ \A i \in 1..Len(topic) : topic'[i] = topic[i]
        /\ \A i \in 1..Len(topic') : i \in 1..Len(topic) \/ topic'[i] = e
    BY <1>0, <2>1, <2>2
  <2> QED
    BY <1>0, <1>2, <2>3 DEF Replay
<1>3. ASSUME NEW w \in Workers, DeadLetter(w)
      PROVE  /\ topic' = topic /\ dlq \subseteq dlq'
             /\ \A e \in dlq' : e \in dlq \/ \E i \in 1..Len(topic) : topic[i] = e
  <2>1. worker[w].offset \in 1..Len(topic)
    BY <1>3, InHandTyped, Zenon DEF DeadLetter, At, Working
  <2> QED
    BY <1>3, <2>1, Zenon DEF DeadLetter, InHand, WorkerUnchanged
<1>4. \/ UNCHANGED <<topic, dlq>>
      \/ Replay
      \/ \E d \in Cores : PublishCommand(d) \/ PublishFails(d)
      \/ \E w \in Workers : DeadLetter(w)
  <2>1. ASSUME NEW d \in Cores, \/ Claim(d) \/ MarkPublished(d) \/ Reschedule(d)
                                \/ CoreCrash(d)
        PROVE  UNCHANGED <<topic, dlq>>
    BY <2>1, Zenon DEF Claim, MarkPublished, Reschedule, CoreCrash, DispatchUnchanged, kafkaVars
  <2>2. ASSUME NEW d \in Cores, Scan(d) PROVE UNCHANGED <<topic, dlq>>
    BY <2>2 DEF Scan, ScanRequeue, ScanFail, ScanExpire, ScanError, ScanUnchanged, kafkaVars
  <2>3. ASSUME NEW w \in Workers,
               \/ Fetch(w) \/ Downlink(w) \/ DownlinkFails(w) \/ MarkSent(w)
               \/ Requeue(w) \/ Commit(w) \/ WorkerCrash(w) \/ Rebalance(w)
        PROVE  UNCHANGED <<topic, dlq>>
    BY <2>3, Zenon DEF Fetch, Downlink, DownlinkFails, MarkSent, Requeue, Commit, WorkerCrash,
                Rebalance, WorkerUnchanged
  <2>4. LoopsUnchanged \/ UNCHANGED vars => UNCHANGED <<topic, dlq>>
    BY Zenon DEF LoopsUnchanged, vars, kafkaVars
  <2> QED
    BY <2>1, <2>2, <2>3, <2>4, SMTT(30)
    DEF DeliveryNext, DeployedNext, WorkerStep, Create, Ack, Clock
<1> QED
  BY <1>0, <1>1, <1>2, <1>3, <1>4, SMTT(30)

\* A dispatcher takes up a created command, keeps its claim while it publishes
\* it, and is at "mark" only once the event is in the topic.
LEMMA DispatcherMoves ==
    ASSUME TypeOK, DeliveryTypeOK, [DeliveryNext]_vars, NEW d \in Cores,
           dispatcher'[d] # Idle
    PROVE  \/ /\ dispatcher'[d].pc = "publish"
              /\ dispatcher'[d].cmd \in Commands
              /\ commands[dispatcher'[d].cmd].status = "created"
           \/ dispatcher'[d] = dispatcher[d]
           \/ /\ dispatcher[d] # Idle
              /\ EventOf(d)' = EventOf(d)
              /\ dispatcher'[d].pc = "mark" =>
                    \E i \in 1..Len(topic') : topic'[i] = EventOf(d)
<1>0. dispatcher \in [Cores -> {Idle} \cup Busy]
  BY ZenonT(30) DEF DeliveryTypeOK, Busy
<1>1. ASSUME NEW x \in Cores, Claim(x)
      PROVE  \/ /\ dispatcher'[d].pc = "publish"
                /\ dispatcher'[d].cmd \in Commands
                /\ commands[dispatcher'[d].cmd].status = "created"
             \/ dispatcher'[d] = dispatcher[d]
  BY <1>0, <1>1, SMTT(60) DEF Claim, ClaimCommand, Claimable
<1>2. ASSUME NEW x \in Cores, MarkPublished(x) \/ Reschedule(x) \/ CoreCrash(x)
      PROVE  dispatcher'[d] = dispatcher[d]
  BY <1>0, <1>2 DEF MarkPublished, Reschedule, CoreCrash
<1>3. ASSUME NEW x \in Cores, PublishCommand(x) \/ PublishFails(x), x # d
      PROVE  dispatcher'[d] = dispatcher[d]
  BY <1>0, <1>3, Zenon DEF PublishCommand, PublishFails
<1>4. ASSUME PublishCommand(d) \/ PublishFails(d)
      PROVE  /\ dispatcher[d] # Idle
             /\ EventOf(d)' = EventOf(d)
             /\ dispatcher'[d].pc = "mark" =>
                   \E i \in 1..Len(topic') : topic'[i] = EventOf(d)
  <2>1. dispatcher[d] # Idle /\ dispatcher[d] \in Busy
    BY <1>0, <1>4 DEF PublishCommand, PublishFails, Idle
  <2>2. EventOf(d)' = EventOf(d)
    BY <1>0, <1>4, <2>1 DEF PublishCommand, PublishFails, EventOf, Busy
  <2>3. dispatcher'[d].pc = "mark" => PublishCommand(d)
    BY <1>0, <1>4, <2>1 DEF PublishFails, Busy
  <2>4. ASSUME PublishCommand(d)
        PROVE  \E i \in 1..Len(topic') : topic'[i] = EventOf(d)
    <3>1. PICK n \in 1..MaxCopies : topic' = topic \o Copies(d, n)
      BY <2>4 DEF PublishCommand
    <3>2. n \in Nat /\ n >= 1
      BY DeliveryAssumption
    <3>3. Copies(d, n) \in Seq(Events)
      BY <2>1, <3>2, CopiesTyped, DeliveryAssumption
    <3>4. Len(Copies(d, n)) = n /\ Copies(d, n)[1] = EventOf(d)
      BY <3>2 DEF Copies, EventOf
    <3>5. topic \in Seq(Events) /\ Len(topic) \in Nat
      BY DEF DeliveryTypeOK
    <3>6. Len(topic) + 1 \in 1..Len(topic') /\ topic'[Len(topic) + 1] = EventOf(d)
      BY <3>1, <3>2, <3>3, <3>4, <3>5
    <3> QED  BY <3>6
  <2> QED  BY <2>1, <2>2, <2>3, <2>4
<1>5. Tame /\ UNCHANGED dispatcher => dispatcher'[d] = dispatcher[d]
  BY Zenon
<1> QED
  BY <1>1, <1>2, <1>3, <1>4, <1>5, StepKinds, Zenon

\* Only rows that exist are claimed, published and dead-lettered.
RowsExist ==
    /\ \A d \in Cores : dispatcher[d] # Idle =>
          commands[dispatcher[d].cmd].status # "absent"
    /\ \A i \in 1..Len(topic) : commands[topic[i].cmd].status # "absent"
    /\ \A e \in dlq : commands[e.cmd].status # "absent"

\* Rows are never removed, and an event is written for a claim or is repeated.
LEMMA RowsExistStep ==
    ASSUME TypeOK, DeliveryTypeOK, RowsExist, [DeliveryNext]_vars
    PROVE  RowsExist'
<1>0. DeliveryTypeOK' /\ [Next]_storeVars
  BY DeliveryStepTyped, DeliveryStepIsStoreStep, Zenon
<1>1. ASSUME NEW c \in Commands, commands[c].status # "absent"
      PROVE  commands'[c].status # "absent"
  BY <1>0, <1>1, StatusMoves
<1>2. ASSUME NEW d \in Cores, dispatcher[d] # Idle
      PROVE  dispatcher[d].cmd \in Commands
  BY <1>2, Zenon DEF DeliveryTypeOK
<1>3. ASSUME NEW d \in Cores, dispatcher'[d] # Idle
      PROVE  commands'[dispatcher'[d].cmd].status # "absent"
  <2>1. dispatcher'[d].cmd \in Commands
    BY <1>0, <1>3, Zenon DEF DeliveryTypeOK
  <2>2. CASE dispatcher[d] # Idle /\ dispatcher'[d].cmd = dispatcher[d].cmd
    BY <1>1, <2>1, <2>2 DEF RowsExist
  <2>3. CASE commands[dispatcher'[d].cmd].status = "created"
    BY <1>1, <2>1, <2>3, Zenon
  <2>4. EventOf(d)' = EventOf(d) => dispatcher'[d].cmd = dispatcher[d].cmd
    BY DEF EventOf
  <2> QED
    BY <1>3, <2>2, <2>3, <2>4, DispatcherMoves, Zenon
<1>4. \A i \in 1..Len(topic) : topic[i].cmd \in Commands
  BY EventsTyped
<1>5. \A e \in dlq : e.cmd \in Commands
  BY EventsTyped, Zenon
<1>6. ASSUME NEW i \in 1..Len(topic')
      PROVE  commands'[topic'[i].cmd].status # "absent"
  <2>1. CASE i \in 1..Len(topic)
    BY <1>1, <1>4, <2>1, TopicMoves, Zenon DEF RowsExist
  <2>2. CASE topic'[i] \in dlq
    BY <1>1, <1>5, <2>2, Zenon DEF RowsExist
  <2>3. ASSUME NEW d \in Cores, dispatcher[d] # Idle, topic'[i] = EventOf(d)
        PROVE  commands'[topic'[i].cmd].status # "absent"
    BY <1>1, <1>2, <2>3 DEF RowsExist, EventOf
  <2> QED
    BY <2>1, <2>2, <2>3, TopicMoves, Zenon
<1>7. ASSUME NEW e \in dlq' PROVE commands'[e.cmd].status # "absent"
  BY <1>1, <1>4, <1>5, TopicMoves DEF RowsExist
<1> QED
  BY <1>3, <1>6, <1>7 DEF RowsExist

=============================================================================
