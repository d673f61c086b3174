------------------------- MODULE UplinkPagesProofs --------------------------
(***************************************************************************)
(* Proofs about TelemetryUplink, for any number of devices, messages,      *)
(* handlers and publish slots, with arbitrary other clients of the tables. *)
(* And about KeysetPages, for any table, any page sizes and any budget.    *)
(*                                                                         *)
(* The second part first shows what one page is: a part from the front of  *)
(* what is left of a list, all of it when there is no cursor.  That a      *)
(* finite set of rows has a first and a last one comes from the library's  *)
(* theorem that inclusion of finite sets is well founded.                  *)
(***************************************************************************)
EXTENDS TelemetryUplink, KeysetPages, FiniteSetTheorems, TLAPS

-----------------------------------------------------------------------------
(* The telemetry inlet                                                     *)

HandlerType == [pc : {"rest", "slot", "inbox", "publish", "dlq"},
                msg : Messages \cup {NoMessage},
                slot : {"no", "yes"}, durable : {"no", "yes"},
                received : Times \cup {0}]

\* What a handler relies on: its message was published by a device, "durable"
\* is the truth about the inbox, and a record to publish has a receive time.
HandlerInv ==
    \A h \in Handlers :
        /\ handler[h].pc # "rest" => handler[h].msg \in sent
        /\ handler[h].durable = "yes" => handler[h].msg \in Stored
        /\ handler[h].pc = "publish" => handler[h].received \in Times

\* REST ingest publishes only what it has stored.
IngestInv == ingesting \subseteq Stored

\* Admission is closed as soon as Run has left its select.
StoppingInv == run # "select" => stopping

InletInv ==
    /\ TableTypeOK
    /\ InletTypeOK
    /\ HandlerInv
    /\ IngestInv
    /\ StoppingInv
    /\ AckedIsDurable
    /\ AnsweredIsPublished
    /\ BridgeIsDrained

\* InTopic and Durable, in the state after a step.
InTopicNext(m) == \E rec \in topic' : rec.msg = m
DurableNext(m) == m \in Stored' \/ InTopicNext(m) \/ m \in dlq'

-----------------------------------------------------------------------------
(* The tables                                                              *)

\* An insert keeps the types and adds the row of its message.
LEMMA InsertTyped ==
    ASSUME TableTypeOK, NEW m \in Messages, NEW received \in Times, NEW id \in Ids,
           RestoreTelemetry(m, received, id)
    PROVE  TableTypeOK' /\ Stored' = Stored \cup {m}
<1> DEFINE e == DeviceOf[m]
           row == [written |-> "no", received |-> received, id |-> id]
           new == MoveSeen(device_state[e], m, received)
<1>1. /\ e \in devices /\ devices' = devices
      /\ telemetry_records' = [telemetry_records EXCEPT ![m] = row]
      /\ device_state' = [device_state EXCEPT ![e] = new]
  BY DEF RestoreTelemetry, RestoreOutcome, InsertTelemetry
<1>2. /\ row \in [written : {"none", "no", "yes"}, received : Times \cup {0}, id : Ids \cup {0}]
      /\ row.written = "no" /\ row.received = received
  OBVIOUS
<1>3. new \in [seen : Times \cup {0}, msg : Messages \cup {NoMessage}]
  BY <1>1 DEF TableTypeOK, MoveSeen
<1> HIDE DEF e, row, new
<1>4. Stored' = Stored \cup {m}
  BY <1>1, <1>2 DEF TableTypeOK, Stored, IsStored
<1> QED
  BY <1>1, <1>2, <1>3, <1>4 DEF TableTypeOK, Stored, IsStored, e

\* Whoever changes the tables keeps their types and deletes no row.
LEMMA TableStep ==
    ASSUME TableTypeOK, [TableNext]_tableVars
    PROVE  TableTypeOK' /\ Stored \subseteq Stored'
  \* The marker keeps the types and the rows.
<1>MarkTyped.
      ASSUME TableTypeOK, NEW m \in Messages, MarkTelemetryWritten(m)
      PROVE  TableTypeOK' /\ Stored' = Stored
  <2> USE <1>MarkTyped
  <2>1. Stored' = Stored
    BY DEF MarkTelemetryWritten, TableTypeOK, Stored, IsStored
  <2> QED
    BY <2>1 DEF MarkTelemetryWritten, TableTypeOK, Stored, IsStored
<1>1. ASSUME NEW d \in Devices, CreateDevice(d)
      PROVE  TableTypeOK' /\ Stored \subseteq Stored'
  BY <1>1 DEF CreateDevice, TableTypeOK, Stored, IsStored
<1>2. CASE UNCHANGED tableVars
  BY <1>2 DEF tableVars, TableTypeOK, Stored, IsStored
<1> QED
  BY <1>1, <1>2, InsertTyped, <1>MarkTyped DEF TableNext

\* A handler at work has a message of the model.
LEMMA HandlerMessage ==
    ASSUME InletTypeOK, HandlerInv, NEW h \in Handlers, handler[h].pc # "rest"
    PROVE  handler[h].msg \in Messages
BY DEF InletTypeOK, HandlerInv

\* The inbox and REST ingest write nothing but the transaction of the store.
LEMMA InletStepIsTableStep ==
    ASSUME InletTypeOK, HandlerInv, [InletNext]_allVars
    PROVE  [TableNext]_tableVars
<1>1. ASSUME NEW m \in Messages, NEW received \in Times, NEW id \in Ids,
             RestoreTelemetry(m, received, id)
      PROVE  TableNext
  BY <1>1 DEF TableNext
<1>2. ASSUME NEW h \in Handlers, NEW received \in Times, NEW id \in Ids,
             InboxStores(h, received, id) \/ InboxFails(h, received, id)
      PROVE  [TableNext]_tableVars
  <2>1. handler[h].msg \in Messages
    BY <1>2, HandlerMessage DEF InboxStores, InboxFails, In
  <2> QED
    BY <1>1, <1>2, <2>1 DEF InboxStores, InboxFails
<1>3. ASSUME NEW h \in Handlers,
             \/ AcquireSlot(h) \/ SlotTimeout(h) \/ PublishTelemetry(h)
             \/ PublishFails(h) \/ DeadLetter(h) \/ DeadLetterFails(h)
      PROVE  UNCHANGED tableVars
  BY <1>3 DEF AcquireSlot, SlotTimeout, PublishTelemetry, PublishFails,
              DeadLetter, DeadLetterFails
<1>4. ASSUME NEW h \in Handlers, NEW m \in Messages, Admit(h, m)
      PROVE  UNCHANGED tableVars
  BY <1>4 DEF Admit
<1>5. CASE CloseAdmission \/ ForceDrain \/ Drained \/ Disconnect \/ Restart
  BY <1>5 DEF CloseAdmission, ForceDrain, Drained, Disconnect, Restart, RunUnchanged
<1>6. ASSUME NEW m \in Messages, NEW received \in Times, NEW id \in Ids,
             IngestTelemetry(m, received, id)
      PROVE  [TableNext]_tableVars
  BY <1>1, <1>6 DEF IngestTelemetry
<1>7. ASSUME NEW m \in Messages,
             IngestPublishes(m) \/ IngestFails(m) \/ DevicePublishes(m)
      PROVE  UNCHANGED tableVars
  BY <1>7 DEF IngestPublishes, IngestFails, DevicePublishes
<1>8. CASE Others
  BY <1>8 DEF Others
<1>9. CASE UNCHANGED allVars
  BY <1>9 DEF allVars
<1> QED
  BY <1>2, <1>3, <1>4, <1>5, <1>6, <1>7, <1>8, <1>9, SMTT(30)
  DEF InletNext, InletSystem, Handle, InboxStep

\* After the inbox or REST ingest stored a message, or found it stored, its row
\* is there with a receive time.
LEMMA RestoredIsStored ==
    ASSUME TableTypeOK, [TableNext]_tableVars, NEW m \in Messages,
           \/ \E received \in Times, id \in Ids : RestoreTelemetry(m, received, id)
           \/ RestoreOutcome(m) = "duplicate" /\ UNCHANGED tableVars
    PROVE  m \in Stored' /\ telemetry_records'[m].received \in Times
<1>1. m \in Stored'
  <2>1. ASSUME NEW received \in Times, NEW id \in Ids, RestoreTelemetry(m, received, id)
        PROVE  m \in Stored'
    BY <2>1, InsertTyped
  <2>2. CASE RestoreOutcome(m) = "duplicate" /\ UNCHANGED tableVars
    BY <2>2 DEF RestoreOutcome, Stored, IsStored, tableVars
  <2> QED
    BY <2>1, <2>2
<1>2. TableTypeOK'
  BY TableStep
<1> QED
  BY <1>1, <1>2 DEF TableTypeOK

-----------------------------------------------------------------------------
(* Types                                                                   *)

\* An idle handler is well typed and holds no slot.
LEMMA RestingTyped == Resting \in HandlerType /\ Resting.slot = "no"
BY DEF Resting, HandlerType

\* Every step keeps the types and the bound on the slots.
LEMMA InletTypeStep ==
    ASSUME TableTypeOK, InletTypeOK, HandlerInv, IngestInv, [InletNext]_allVars
    PROVE  InletTypeOK'
  \* Handing back a slot, or none, keeps the bound.
<1>SlotsShrink.
      ASSUME Cardinality(SlotsTaken) <= Slots, SlotsTaken' \subseteq SlotsTaken
      PROVE  Cardinality(SlotsTaken') <= Slots
  <2> USE <1>SlotsShrink
  <2>1. IsFiniteSet(SlotsTaken)
    BY BridgeAssumption, FS_Subset DEF SlotsTaken
  <2>2. /\ Cardinality(SlotsTaken') <= Cardinality(SlotsTaken)
        /\ Cardinality(SlotsTaken') \in Nat /\ Cardinality(SlotsTaken) \in Nat
    BY <2>1, FS_Subset, FS_CardinalityType
  <2> QED
    BY <2>2, BridgeAssumption
  \* A slot is taken only when one is free.
<1>SlotsGrow.
      ASSUME NEW h, Cardinality(SlotsTaken) < Slots, SlotsTaken' \subseteq SlotsTaken \cup {h}
      PROVE  Cardinality(SlotsTaken') <= Slots
  <2> USE <1>SlotsGrow
  <2>1. IsFiniteSet(SlotsTaken)
    BY BridgeAssumption, FS_Subset DEF SlotsTaken
  <2>2. /\ IsFiniteSet(SlotsTaken \cup {h})
        /\ Cardinality(SlotsTaken \cup {h}) <= Cardinality(SlotsTaken) + 1
    <3>1. /\ IsFiniteSet(SlotsTaken \cup {h})
          /\ Cardinality(SlotsTaken \cup {h}) =
                IF h \in SlotsTaken THEN Cardinality(SlotsTaken)
                                    ELSE Cardinality(SlotsTaken) + 1
      BY <2>1, FS_AddElement
    <3>2. Cardinality(SlotsTaken) \in Nat
      BY <2>1, FS_CardinalityType
    <3> QED
      BY <3>1, <3>2
  <2>3. /\ Cardinality(SlotsTaken') <= Cardinality(SlotsTaken \cup {h})
        /\ Cardinality(SlotsTaken') \in Nat
        /\ Cardinality(SlotsTaken \cup {h}) \in Nat
        /\ Cardinality(SlotsTaken) \in Nat
    BY <2>1, <2>2, FS_Subset, FS_CardinalityType
  <2> QED
    BY <2>2, <2>3, BridgeAssumption
  \* What a step must show of its types, besides the bound on the slots.
<1>InletTypeFrame.
      ASSUME InletTypeOK,
             sent \subseteq sent', sent' \subseteq Messages, acked' \subseteq acked \cup sent,
             topic' \subseteq Records, dlq' \subseteq Messages,
             ingesting' \subseteq Messages, answered' \subseteq Messages,
             handler' \in [Handlers -> HandlerType],
             run' \in {"select", "drain", "forced", "disconnect", "exited"},
             stopping' \in BOOLEAN, canceled' \in BOOLEAN, fatal' \in BOOLEAN,
             \A h \in Handlers : handler'[h].slot = "yes" => handler[h].slot = "yes"
      PROVE  InletTypeOK'
  <2> USE <1>InletTypeFrame
  <2>1. SlotsTaken' \subseteq SlotsTaken
    BY DEF SlotsTaken
  <2>2. Cardinality(SlotsTaken') <= Slots
    BY <2>1, <1>SlotsShrink DEF InletTypeOK
  <2> QED
    BY <2>2 DEF InletTypeOK, HandlerType
  \* A handler that returns leaves well typed handlers and takes no slot.
<1>ReturnTyped.
      ASSUME handler \in [Handlers -> HandlerType], NEW h \in Handlers, Return(h)
      PROVE  /\ handler' \in [Handlers -> HandlerType]
             /\ \A g \in Handlers : handler'[g].slot = "yes" => handler[g].slot = "yes"
             /\ handler'[h] = Resting
             /\ \A g \in Handlers \ {h} : handler'[g] = handler[g]
  <2> USE <1>ReturnTyped
  <2> HIDE DEF Resting
  <2> QED
    BY RestingTyped, SMTT(30) DEF Return
<1>0. handler \in [Handlers -> HandlerType]
  BY DEF InletTypeOK, HandlerType
<1>1. ASSUME NEW h \in Handlers, NEW m \in Messages, Admit(h, m) PROVE InletTypeOK'
  <2>1. /\ handler' \in [Handlers -> HandlerType]
        /\ \A g \in Handlers : handler'[g].slot = "yes" => handler[g].slot = "yes"
    BY <1>0, <1>1, Zenon DEF Admit, Resting, HandlerType
  <2> QED
    BY <1>1, <2>1, <1>InletTypeFrame
    DEF Admit, HandlerUnchanged, logVars, restVars, InletTypeOK
<1>2. ASSUME NEW h \in Handlers, AcquireSlot(h) PROVE InletTypeOK'
  <2>1. handler' \in [Handlers -> HandlerType]
    <3>1. \A pc \in {"dlq", "inbox"} :
             [handler[h] EXCEPT !.slot = "yes", !.pc = pc] \in HandlerType
      BY <1>0, ZenonT(30) DEF HandlerType
    <3> QED
      BY <1>0, <1>2, <3>1, Zenon DEF AcquireSlot
  <2>2. SlotsTaken' \subseteq SlotsTaken \cup {h}
    BY <1>0, <1>2 DEF AcquireSlot, SlotsTaken
  <2>3. Cardinality(SlotsTaken') <= Slots
    BY <1>2, <2>2, <1>SlotsGrow DEF AcquireSlot
  <2> QED
    BY <1>2, <2>1, <2>3
    DEF AcquireSlot, HandlerUnchanged, logVars, restVars, InletTypeOK, HandlerType
<1>3. ASSUME NEW h \in Handlers, SlotTimeout(h) PROVE InletTypeOK'
  <2>1. /\ handler' \in [Handlers -> HandlerType]
        /\ \A g \in Handlers : handler'[g].slot = "yes" => handler[g].slot = "yes"
    BY <1>0, <1>3, ZenonT(30) DEF SlotTimeout, HandlerType
  <2> QED
    BY <1>3, <2>1, <1>InletTypeFrame
    DEF SlotTimeout, HandlerUnchanged, logVars, restVars, InletTypeOK
<1>4. ASSUME NEW h \in Handlers, NEW received \in Times, NEW id \in Ids,
             InboxStores(h, received, id)
      PROVE  InletTypeOK'
  <2>1. handler[h].msg \in Messages /\ handler[h].msg \in sent
    BY <1>4, HandlerMessage DEF InboxStores, In, HandlerInv
  <2>2. PICK r \in Times : r = telemetry_records'[handler[h].msg].received
    <3>1. [TableNext]_tableVars
      BY InletStepIsTableStep
    <3> QED
      BY <1>4, <2>1, <3>1, RestoredIsStored DEF InboxStores
  <2> DEFINE new == [handler[h] EXCEPT !.pc = "publish", !.durable = "yes",
                                       !.received = r]
  <2>3. new \in HandlerType /\ new.slot = handler[h].slot
    BY <1>0, ZenonT(30) DEF HandlerType
  <2>4. /\ handler' \in [Handlers -> HandlerType]
        /\ \A g \in Handlers : handler'[g].slot = "yes" => handler[g].slot = "yes"
    <3>1. handler' = [handler EXCEPT ![h] = new]
      BY <1>4, <2>2 DEF InboxStores
    <3> HIDE DEF new
    <3> QED
      BY <1>0, <2>3, <3>1
  <2> QED
    BY <1>4, <2>1, <2>4, <1>InletTypeFrame
    DEF InboxStores, Confirm, HandlerUnchanged, logVars, restVars, InletTypeOK
<1>5. ASSUME NEW h \in Handlers, NEW received \in Times, NEW id \in Ids,
             InboxFails(h, received, id)
      PROVE  InletTypeOK'
  <2> DEFINE new == [handler[h] EXCEPT !.pc = "publish", !.received = received]
  <2>1. /\ handler' \in [Handlers -> HandlerType]
        /\ \A g \in Handlers : handler'[g].slot = "yes" => handler[g].slot = "yes"
    <3>1. new \in HandlerType /\ new.slot = handler[h].slot
      BY <1>0, ZenonT(30) DEF HandlerType
    <3>2. handler' = [handler EXCEPT ![h] = new]
      BY <1>5 DEF InboxFails
    <3> HIDE DEF new
    <3> QED
      BY <1>0, <3>1, <3>2
  <2> QED
    BY <1>5, <2>1, <1>InletTypeFrame
    DEF InboxFails, HandlerUnchanged, logVars, restVars, InletTypeOK
<1>6. ASSUME NEW h \in Handlers, PublishTelemetry(h) \/ PublishFails(h)
      PROVE  InletTypeOK'
  <2>1. handler[h].msg \in Messages /\ handler[h].msg \in sent
    BY <1>6, HandlerMessage DEF PublishTelemetry, PublishFails, In, HandlerInv
  <2>2. RecordOf(h) \in Records
    BY <1>6, <2>1 DEF PublishTelemetry, PublishFails, In, HandlerInv, RecordOf, Records
  <2>3. /\ handler' \in [Handlers -> HandlerType]
        /\ \A g \in Handlers : handler'[g].slot = "yes" => handler[g].slot = "yes"
    <3>1. CASE PublishTelemetry(h)
      BY <1>0, <3>1, <1>ReturnTyped DEF PublishTelemetry
    <3>2. CASE PublishFails(h)
      BY <1>0, <3>2 DEF PublishFails, HandlerType
    <3> QED
      BY <1>6, <3>1, <3>2
  <2>4. topic' \subseteq Records /\ acked' \subseteq acked \cup sent
    BY <1>6, <2>1, <2>2, Zenon
    DEF PublishTelemetry, PublishFails, Confirm, InletTypeOK
  <2> QED
    BY <1>6, <2>3, <2>4, <1>InletTypeFrame, SMTT(30)
    DEF PublishTelemetry, PublishFails, HandlerUnchanged, restVars, InletTypeOK
<1>7. ASSUME NEW h \in Handlers, DeadLetter(h) \/ DeadLetterFails(h)
      PROVE  InletTypeOK'
  <2>1. handler[h].msg \in Messages /\ handler[h].msg \in sent
    BY <1>7, HandlerMessage DEF DeadLetter, DeadLetterFails, In, HandlerInv
  <2>2. /\ handler' \in [Handlers -> HandlerType]
        /\ \A g \in Handlers : handler'[g].slot = "yes" => handler[g].slot = "yes"
    BY <1>0, <1>7, <1>ReturnTyped DEF DeadLetter, DeadLetterFails
  <2>3. dlq' \subseteq Messages /\ acked' \subseteq acked \cup sent
    BY <1>7, <2>1 DEF DeadLetter, DeadLetterFails, Confirm, InletTypeOK
  <2>4. fatal' \in BOOLEAN
    BY <1>7, Zenon DEF DeadLetter, DeadLetterFails, InletTypeOK
  <2> QED
    BY <1>7, <2>2, <2>3, <2>4, <1>InletTypeFrame, Zenon
    DEF DeadLetter, DeadLetterFails, HandlerUnchanged, restVars, InletTypeOK
<1>8. CASE CloseAdmission \/ ForceDrain \/ Drained \/ Disconnect
  BY <1>0, <1>8, <1>InletTypeFrame, Zenon
  DEF CloseAdmission, ForceDrain, Drained, Disconnect, RunUnchanged, logVars,
      restVars, InletTypeOK
<1>9. CASE Restart
  <2>1. /\ handler' \in [Handlers -> HandlerType]
        /\ \A g \in Handlers : handler'[g].slot = "no"
    <3> HIDE DEF Resting
    <3> QED
      BY <1>9, RestingTyped, Zenon DEF Restart
  <2> QED
    BY <1>9, <2>1, <1>InletTypeFrame, Zenon DEF Restart, logVars, restVars, InletTypeOK
<1>10. ASSUME NEW m \in Messages, NEW received \in Times, NEW id \in Ids,
              IngestTelemetry(m, received, id)
       PROVE  InletTypeOK'
  BY <1>0, <1>10, <1>InletTypeFrame, Zenon
  DEF IngestTelemetry, RestUnchanged, logVars, bridgeVars, InletTypeOK
<1>11. ASSUME NEW m \in Messages, IngestPublishes(m) \/ IngestFails(m)
       PROVE  InletTypeOK'
  <2>1. m \in Stored /\ [msg |-> m, received |-> telemetry_records[m].received] \in Records
    BY <1>11 DEF IngestPublishes, IngestFails, IngestInv, TableTypeOK, Records
  <2>2. topic' \subseteq Records
    BY <1>11, <2>1, Zenon DEF IngestPublishes, IngestFails, InletTypeOK
  <2> QED
    BY <1>0, <1>11, <2>2, <1>InletTypeFrame, Zenon
    DEF IngestPublishes, IngestFails, RestUnchanged, bridgeVars, InletTypeOK
<1>12. ASSUME NEW m \in Messages, DevicePublishes(m) PROVE InletTypeOK'
  BY <1>0, <1>12, <1>InletTypeFrame, Zenon
  DEF DevicePublishes, logVars, bridgeVars, restVars, InletTypeOK
<1>13. CASE UNCHANGED inletVars
  BY <1>0, <1>13, <1>InletTypeFrame, Zenon
  DEF inletVars, logVars, bridgeVars, restVars, InletTypeOK
<1> QED
  BY <1>1, <1>2, <1>3, <1>4, <1>5, <1>6, <1>7, <1>8, <1>9, <1>10, <1>11, <1>12, <1>13, Zenon
  DEF InletNext, InletSystem, Handle, InboxStep, Others, allVars

-----------------------------------------------------------------------------
(* What is confirmed is kept                                               *)

\* Every step keeps the invariant, action by action.
LEMMA InletInvStep == InletInv /\ [InletNext]_allVars => InletInv'
  \* What a step must show of the handlers and of what it confirms, given that
  \* the tables make a step of the store.
<1>InletInvFrame.
      ASSUME InletInv, [TableNext]_tableVars, InletTypeOK',
             sent \subseteq sent', topic \subseteq topic', dlq \subseteq dlq',
             \A h \in Handlers :
                \/ handler'[h] = handler[h]
                \/ handler'[h].pc = "rest" /\ handler'[h].durable = "no"
                \/ /\ handler'[h].msg \in sent
                   /\ handler'[h].durable = "yes" => handler'[h].msg \in Stored'
                   /\ handler'[h].pc = "publish" => handler'[h].received \in Times,
             \A m \in acked' \ acked : DurableNext(m),
             \A m \in ingesting' \ ingesting : m \in Stored',
             \A m \in answered' \ answered : m \in Stored' /\ InTopicNext(m),
             run' # "select" => stopping',
             run' \in {"disconnect", "exited"}
                => \A h \in Handlers : handler'[h].pc = "rest"
      PROVE  InletInv'
  <2> USE <1>InletInvFrame
  <2> USE DEF InletInv
  <2>1. TableTypeOK'
    BY TableStep, Zenon
  <2>2. Stored \subseteq Stored'
    BY TableStep, Zenon
  <2>3. HandlerInv'
    <3> SUFFICES ASSUME NEW h \in Handlers
                 PROVE  /\ handler'[h].pc # "rest" => handler'[h].msg \in sent'
                        /\ handler'[h].durable = "yes" => handler'[h].msg \in Stored'
                        /\ handler'[h].pc = "publish" => handler'[h].received \in Times
      BY DEF HandlerInv
    <3>1. CASE handler'[h] = handler[h]
      BY <2>2, <3>1 DEF HandlerInv
    <3> QED
      BY <3>1, SMTT(30)
  <2>4. IngestInv'
    BY <2>2 DEF IngestInv
  <2>5. AckedIsDurable'
    <3>1. \A m \in acked : DurableNext(m)
      BY <2>2 DEF AckedIsDurable, Durable, IsStored, Stored, InTopic, DurableNext,
                  InTopicNext, InletTypeOK
    <3>2. \A m \in acked' : m \in Messages /\ DurableNext(m)
      BY <3>1, Zenon DEF InletTypeOK
    <3> QED
      BY <3>2, Zenon DEF AckedIsDurable, Durable, IsStored, Stored, InTopic, DurableNext,
                  InTopicNext
  <2>6. AnsweredIsPublished'
    <3>1. \A m \in answered : m \in Stored' /\ InTopicNext(m)
      BY <2>2, ZenonT(30)
      DEF AnsweredIsPublished, IsStored, Stored, InTopic, InTopicNext, InletTypeOK
    <3> QED
      BY <3>1, Zenon DEF AnsweredIsPublished, IsStored, Stored, InTopic, InTopicNext
  <2>7. BridgeIsDrained'
    BY SMTT(30) DEF BridgeIsDrained, Pending
  <2> QED
    BY <2>1, <2>3, <2>4, <2>5, <2>6, <2>7, Zenon DEF StoppingInv
<1> SUFFICES ASSUME InletInv, [InletNext]_allVars PROVE InletInv'
  OBVIOUS
<1>1. [TableNext]_tableVars /\ InletTypeOK' /\ Stored \subseteq Stored'
  BY InletStepIsTableStep, InletTypeStep, TableStep DEF InletInv
<1>2. /\ run # "select" => stopping
      /\ run \in {"disconnect", "exited"}
            => \A h \in Handlers : handler[h].pc = "rest"
  BY DEF InletInv, StoppingInv, BridgeIsDrained, Pending
<1>3. \A h \in Handlers :
         /\ handler[h].pc # "rest" => handler[h].msg \in sent
         /\ handler[h].durable = "yes" => handler[h].msg \in Stored
         /\ handler[h].pc = "publish" => handler[h].received \in Times
  BY DEF InletInv, HandlerInv
<1>4. handler \in [Handlers -> HandlerType]
  BY Zenon DEF InletInv, InletTypeOK, HandlerType
<1>5. ASSUME NEW h \in Handlers, NEW m \in Messages, Admit(h, m) PROVE InletInv'
  <2>1. /\ handler'[h].msg = m /\ m \in sent /\ handler'[h].durable = "no"
        /\ handler'[h].pc = "slot"
    BY <1>4, <1>5 DEF Admit, Resting
  <2>2. \A g \in Handlers \ {h} : handler'[g] = handler[g]
    BY <1>4, <1>5 DEF Admit
  <2>3. /\ UNCHANGED <<sent, acked, topic, dlq, ingesting, answered, run, stopping>>
        /\ ~stopping
    BY <1>5 DEF Admit, HandlerUnchanged, logVars, restVars
  <2> QED
    BY <1>1, <1>2, <2>1, <2>2, <2>3, <1>InletInvFrame
<1>6. ASSUME NEW h \in Handlers, Handle(h) PROVE InletInv'
  <2>0. handler[h].pc # "rest" /\ handler[h].msg \in sent /\ handler[h].msg \in Messages
    <3>1. handler[h].pc # "rest"
      BY <1>6, Zenon
      DEF Handle, InboxStep, AcquireSlot, SlotTimeout, InboxStores, InboxFails,
                  PublishTelemetry, PublishFails, DeadLetter, DeadLetterFails, In
    <3> QED
      BY <1>3, <3>1, HandlerMessage, SMTT(30) DEF InletInv
  <2>1. run \notin {"disconnect", "exited"}
    BY <1>2, <2>0, SMTT(30)
  <2>2. UNCHANGED <<sent, ingesting, answered, run, stopping>>
    BY <1>6, Zenon
    DEF Handle, InboxStep, AcquireSlot, SlotTimeout, InboxStores, InboxFails,
                PublishTelemetry, PublishFails, DeadLetter, DeadLetterFails,
                HandlerUnchanged, restVars
  <2>3. CASE AcquireSlot(h) \/ SlotTimeout(h) \/ PublishFails(h)
    <3>1. /\ handler'[h].msg = handler[h].msg
          /\ handler'[h].durable = handler[h].durable
          /\ handler'[h].pc # "publish"
      <4>1. CASE AcquireSlot(h)
        BY <1>4, <4>1 DEF AcquireSlot, HandlerType
      <4>2. CASE SlotTimeout(h) \/ PublishFails(h)
        BY <1>4, <4>2 DEF SlotTimeout, PublishFails, HandlerType
      <4> QED
        BY <2>3, <4>1, <4>2
    <3>2. \A g \in Handlers \ {h} : handler'[g] = handler[g]
      BY <1>4, <2>3 DEF AcquireSlot, SlotTimeout, PublishFails
    <3>3. UNCHANGED <<acked, dlq>> /\ topic \subseteq topic'
      BY <2>3, Zenon DEF AcquireSlot, SlotTimeout, PublishFails, logVars
    <3> QED
      BY <1>1, <1>2, <1>3, <2>0, <2>1, <2>2, <3>1, <3>2, <3>3, <1>InletInvFrame, Zenon
  <2>4. ASSUME NEW received \in Times, NEW id \in Ids, InboxStores(h, received, id)
        PROVE  InletInv'
    <3>1. handler[h].msg \in Stored'
          /\ telemetry_records'[handler[h].msg].received \in Times
      BY <1>1, <2>0, <2>4, RestoredIsStored DEF InboxStores, InletInv
    <3>2. /\ handler'[h].msg = handler[h].msg
          /\ handler'[h].received = telemetry_records'[handler[h].msg].received
      BY <1>4, <2>4 DEF InboxStores, HandlerType
    <3>3. \A g \in Handlers \ {h} : handler'[g] = handler[g]
      BY <1>4, <2>4 DEF InboxStores
    <3>4. UNCHANGED <<topic, dlq>> /\ acked' \subseteq acked \cup {handler[h].msg}
      BY <2>4 DEF InboxStores, logVars, Confirm
    <3>5. \A m \in acked' \ acked : DurableNext(m)
      BY <3>1, <3>4, Zenon DEF DurableNext
    <3> QED
      BY <1>1, <1>2, <2>0, <2>1, <2>2, <3>1, <3>2, <3>3, <3>4, <3>5, <1>InletInvFrame, Zenon
  <2>5. ASSUME NEW received \in Times, NEW id \in Ids, InboxFails(h, received, id)
        PROVE  InletInv'
    <3>1. /\ handler'[h].msg = handler[h].msg
          /\ handler'[h].durable = handler[h].durable
          /\ handler'[h].received = received
      BY <1>4, <2>5 DEF InboxFails, HandlerType
    <3>2. \A g \in Handlers \ {h} : handler'[g] = handler[g]
      BY <1>4, <2>5 DEF InboxFails
    <3>3. UNCHANGED <<acked, topic, dlq>>
      BY <2>5, Zenon DEF InboxFails, logVars
    <3> QED
      BY <1>1, <1>2, <1>3, <2>0, <2>1, <2>2, <3>1, <3>2, <3>3, <1>InletInvFrame, Zenon
  <2>6. CASE PublishTelemetry(h) \/ DeadLetter(h) \/ DeadLetterFails(h)
    <3>1. \A g \in Handlers :
             \/ handler'[g] = handler[g]
             \/ handler'[g].pc = "rest" /\ handler'[g].durable = "no"
      BY <1>4, <2>6, SMTT(30)
      DEF PublishTelemetry, DeadLetter, DeadLetterFails, Return, Resting
    <3>2. topic \subseteq topic' /\ dlq \subseteq dlq'
      BY <2>6 DEF PublishTelemetry, DeadLetter, DeadLetterFails
    <3>3. \A m \in acked' \ acked : DurableNext(m)
      <4>1. CASE PublishTelemetry(h)
        <5>1. RecordOf(h) \in topic' /\ RecordOf(h).msg = handler[h].msg
          BY <4>1, Zenon DEF PublishTelemetry, RecordOf
        <5> QED
          BY <4>1, <5>1, Zenon DEF PublishTelemetry, Confirm, DurableNext, InTopicNext
      <4>2. CASE DeadLetter(h) \/ DeadLetterFails(h)
        BY <4>2, Zenon DEF DeadLetter, DeadLetterFails, Confirm, DurableNext
      <4> QED
        BY <2>6, <4>1, <4>2
    <3> QED
      BY <1>1, <1>2, <2>1, <2>2, <3>1, <3>2, <3>3, <1>InletInvFrame, Zenon
  <2> QED
    BY <1>6, <2>3, <2>4, <2>5, <2>6, SMTT(30) DEF Handle, InboxStep
<1>7. CASE CloseAdmission \/ ForceDrain \/ Drained \/ Disconnect
  <2>1. UNCHANGED <<sent, acked, topic, dlq, handler, ingesting, answered>>
    BY <1>7 DEF CloseAdmission, ForceDrain, Drained, Disconnect, RunUnchanged,
                logVars, restVars
  <2>2. run' # "select" => stopping'
    BY <1>2, <1>7 DEF CloseAdmission, ForceDrain, Drained, Disconnect
  <2>3. run' \in {"disconnect", "exited"}
           => \A h \in Handlers : handler[h].pc = "rest"
    BY <1>2, <1>7 DEF CloseAdmission, ForceDrain, Drained, Disconnect, Pending
  <2> QED
    BY <1>1, <2>1, <2>2, <2>3, <1>InletInvFrame
<1>8. CASE Restart
  <2>1. \A h \in Handlers : handler'[h].pc = "rest" /\ handler'[h].durable = "no"
    BY <1>8 DEF Restart, Resting
  <2>2. UNCHANGED <<sent, acked, topic, dlq, ingesting, answered>> /\ run' = "select"
    BY <1>8, Zenon DEF Restart, logVars, restVars
  <2> QED
    BY <1>1, <2>1, <2>2, <1>InletInvFrame
<1>9. ASSUME NEW m \in Messages, NEW received \in Times, NEW id \in Ids,
             IngestTelemetry(m, received, id)
      PROVE  InletInv'
  <2>1. m \in Stored'
    BY <1>1, <1>9, RestoredIsStored DEF IngestTelemetry, InletInv
  <2>2. /\ UNCHANGED <<sent, acked, topic, dlq, handler, answered, run, stopping>>
        /\ ingesting' = ingesting \cup {m}
    BY <1>9, Zenon DEF IngestTelemetry, RestUnchanged, logVars, bridgeVars
  <2> QED
    BY <1>1, <1>2, <2>1, <2>2, <1>InletInvFrame, Zenon
<1>10. ASSUME NEW m \in Messages, IngestPublishes(m) \/ IngestFails(m) PROVE InletInv'
  <2>1. m \in Stored'
    BY <1>1, <1>10 DEF IngestPublishes, IngestFails, InletInv, IngestInv
  <2>2. \A n \in answered' \ answered : n = m /\ InTopicNext(m)
    <3>1. CASE IngestPublishes(m)
      <4> DEFINE rec == [msg |-> m, received |-> telemetry_records[m].received]
      <4>1. rec \in topic' /\ rec.msg = m
        BY <3>1 DEF IngestPublishes
      <4> HIDE DEF rec
      <4> QED
        BY <3>1, <4>1 DEF IngestPublishes, InTopicNext
    <3>2. CASE IngestFails(m)
      BY <3>2, Zenon DEF IngestFails
    <3> QED
      BY <1>10, <3>1, <3>2
  <2>3. /\ UNCHANGED <<sent, acked, dlq, handler, run, stopping>>
        /\ topic \subseteq topic' /\ ingesting' \subseteq ingesting
    BY <1>10, Zenon DEF IngestPublishes, IngestFails, RestUnchanged, bridgeVars
  <2> QED
    BY <1>1, <1>2, <2>1, <2>2, <2>3, <1>InletInvFrame, Zenon
<1>11. ASSUME NEW m \in Messages, DevicePublishes(m) PROVE InletInv'
  <2>1. /\ UNCHANGED <<acked, topic, dlq, handler, ingesting, answered, run, stopping>>
        /\ sent \subseteq sent'
    BY <1>11, Zenon DEF DevicePublishes, logVars, bridgeVars, restVars
  <2> QED
    BY <1>1, <1>2, <2>1, <1>InletInvFrame
<1>12. CASE UNCHANGED inletVars
  <2>1. UNCHANGED <<sent, acked, topic, dlq, handler, ingesting, answered, run, stopping>>
    BY <1>12, Zenon DEF inletVars, logVars, bridgeVars, restVars
  <2> QED
    BY <1>1, <1>2, <2>1, <1>InletInvFrame, SMTT(30)
<1> QED
  BY <1>5, <1>6, <1>7, <1>8, <1>9, <1>10, <1>11, <1>12, Zenon
  DEF InletNext, InletSystem, Others, allVars

\* A fresh process over empty tables and topics satisfies the invariant.
LEMMA InletInvInit == InletInit => InletInv
<1> SUFFICES ASSUME InletInit PROVE InletInv
  OBVIOUS
<1>1. TableTypeOK
  BY DEF InletInit, TableInit, TableTypeOK, Stored, IsStored, NoRecord, Unseen
<1>2. \A h \in Handlers : handler[h] = Resting
  BY DEF InletInit
<1>3. InletTypeOK
  <2>1. handler \in [Handlers -> HandlerType]
    BY RestingTyped DEF InletInit
  <2>2. SlotsTaken = {}
    BY <1>2, RestingTyped DEF SlotsTaken
  <2>3. Cardinality(SlotsTaken) <= Slots
    BY <2>2, FS_EmptySet, BridgeAssumption
  <2>4. stopping = FALSE /\ canceled = FALSE /\ fatal = FALSE /\ run = "select"
    BY DEF InletInit
  <2> QED
    BY <2>1, <2>3, <2>4, Zenon DEF InletInit, InletTypeOK, HandlerType
<1> QED
  BY <1>1, <1>2, <1>3
  DEF InletInit, InletInv, HandlerInv, IngestInv, StoppingInv, AckedIsDurable,
      AnsweredIsPublished, BridgeIsDrained, Pending, Resting

\* The inductive invariant holds in every reachable state.
LEMMA InletInvariant == InletSpec => []InletInv
BY InletInvInit, InletInvStep, PTL DEF InletSpec

\* Slots, handlers and logs keep their types, and the publish slots are never
\* overcommitted.
THEOREM InletTyped == InletSpec => []InletTypeOK
BY InletInvariant, PTL DEF InletInv

\* processMessage and deadLetter: a PUBACK proves a durable copy, for any
\* number of concurrent handlers and any failures, stops and crashes.
THEOREM PubackSafe == InletSpec => []AckedIsDurable
BY InletInvariant, PTL DEF InletInv

\* IngestTelemetry: success over REST means stored and published.
THEOREM IngestSafe == InletSpec => []AnsweredIsPublished
BY InletInvariant, PTL DEF InletInv

\* stop: nothing admitted is at work after the disconnect.
THEOREM BridgeDrainSafe == InletSpec => []BridgeIsDrained
BY InletInvariant, PTL DEF InletInv

\* The inlets are clients of the tables: what TelemetrySinkProofs shows of
\* liveness times and history holds while they run.
THEOREM InletImplementsTable == InletSpec => TableSpec
<1>1. InletInit => TableInit
  BY DEF InletInit
<1>2. InletInv /\ [InletNext]_allVars => [TableNext]_tableVars
  BY InletStepIsTableStep DEF InletInv
<1> QED
  BY <1>1, <1>2, InletInvariant, PTL DEF InletSpec, TableSpec


-----------------------------------------------------------------------------
(* Finite orders                                                           *)

\* A finite set has an element that none precedes, and, with the relation turned
\* round, one that precedes none.
LEMMA FirstExists ==
    ASSUME NEW S, IsFiniteSet(S), S # {}, NEW R,
           \A a \in S : <<a, a>> \notin R,
           \A a, b, c \in S : <<a, b>> \in R /\ <<b, c>> \in R => <<a, c>> \in R
    PROVE  \E m \in S : \A a \in S : <<a, m>> \notin R
<1> DEFINE Below(m) == {a \in S : <<a, m>> \in R}
           T == {Below(m) : m \in S}
<1>1. T \subseteq FiniteSubsetsOf(S) /\ T # {}
  <2>1. FiniteSubsetsOf(S) = SUBSET S
    BY FS_FiniteSubsetsOfFinite
  <2>2. PICK m \in S : TRUE
    OBVIOUS
  <2>3. Below(m) \in T
    OBVIOUS
  <2>4. ASSUME NEW x \in T PROVE x \in SUBSET S
    <3>1. PICK a \in S : x = Below(a)
      OBVIOUS
    <3> QED  BY <3>1
  <2> QED  BY <2>1, <2>3, <2>4, Zenon
<1>2. PICK x \in T : \A y \in T : ~(<<y, x>> \in StrictSubsetOrdering(S))
  <2> HIDE DEF T
  <2> QED  BY <1>1, FS_StrictSubsetOrderingWellFounded, WFMin
<1>3. PICK m \in S : x = Below(m)
  BY <1>2
<1>4. ASSUME NEW a \in S, <<a, m>> \in R PROVE FALSE
  <2>1. Below(a) \subseteq Below(m)
    BY <1>4
  <2>2. a \in Below(m) /\ a \notin Below(a)
    BY <1>4
  <2>3. Below(a) \in T /\ Below(a) \in SUBSET S /\ Below(m) \in SUBSET S
    OBVIOUS
  <2>4. <<Below(a), Below(m)>> \in StrictSubsetOrdering(S)
    <3> HIDE DEF Below
    <3> QED  BY <2>1, <2>2, <2>3 DEF StrictSubsetOrdering
  <2> QED  BY <1>2, <1>3, <2>3, <2>4
<1> QED  BY <1>4

-----------------------------------------------------------------------------
(* The order of a list                                                     *)

SortKeys == [at : Int, id : Int]

\* Rows the table can hold; the time of one is as fine as the table keeps it.
RowsType == rows \in [RowIds -> [class : Classes \cup {NoClass}, at : Int, bytes : Nat]]

LEMMA KeyOrder ==
    ASSUME NEW d, NEW a \in SortKeys, NEW b \in SortKeys, NEW c \in SortKeys
    PROVE  /\ ~Precedes(d, a, a)
           /\ Precedes(d, a, b) /\ Precedes(d, b, c) => Precedes(d, a, c)
           /\ Precedes(d, a, b) \/ a = b \/ Precedes(d, b, a)
           /\ Precedes(d, a, b) => ~Precedes(d, b, a)
<1>1. /\ a.at \in Int /\ a.id \in Int /\ b.at \in Int /\ b.id \in Int
      /\ c.at \in Int /\ c.id \in Int
  BY DEF SortKeys
<1>2. a.at = b.at /\ a.id = b.id => a = b
  BY DEF SortKeys
<1>3. /\ ~KeyBefore(a, a)
      /\ KeyBefore(a, b) /\ KeyBefore(b, c) => KeyBefore(a, c)
      /\ KeyBefore(c, b) /\ KeyBefore(b, a) => KeyBefore(c, a)
      /\ KeyBefore(a, b) \/ a = b \/ KeyBefore(b, a)
      /\ KeyBefore(a, b) => ~KeyBefore(b, a)
  BY <1>1, <1>2 DEF KeyBefore
<1> QED  BY <1>3, Zenon DEF Precedes

LEMMA RowKeys ==
    ASSUME RowsType, NEW i \in RowIds, NEW j \in RowIds
    PROVE  KeyOf(i) \in SortKeys /\ (KeyOf(i) = KeyOf(j) => i = j)
<1>1. rows[i].at \in Int /\ i \in Int
  BY PagesAssumption DEF RowsType
<1> QED  BY <1>1 DEF KeyOf, SortKeys

\* A set of rows has a first and a last one.
LEMMA Ends ==
    ASSUME RowsType, NEW d, NEW S \in SUBSET RowIds, S # {}
    PROVE  /\ \E m \in S : \A i \in S : ~Precedes(d, KeyOf(i), KeyOf(m))
           /\ \E m \in S : \A i \in S : ~Precedes(d, KeyOf(m), KeyOf(i))
<1>1. IsFiniteSet(S)
  BY PagesAssumption, FS_Subset, Zenon
<1>2. \A i \in S : KeyOf(i) \in SortKeys
  BY RowKeys
<1> DEFINE R == {p \in S \X S : Precedes(d, KeyOf(p[1]), KeyOf(p[2]))}
           Q == {p \in S \X S : Precedes(d, KeyOf(p[2]), KeyOf(p[1]))}
<1>3. \A i, j \in S : /\ <<i, j>> \in R <=> Precedes(d, KeyOf(i), KeyOf(j))
                      /\ <<i, j>> \in Q <=> Precedes(d, KeyOf(j), KeyOf(i))
  OBVIOUS
<1> HIDE DEF R, Q
<1>4. /\ \A a \in S : <<a, a>> \notin R /\ <<a, a>> \notin Q
      /\ \A a, b, c \in S : <<a, b>> \in R /\ <<b, c>> \in R => <<a, c>> \in R
      /\ \A a, b, c \in S : <<a, b>> \in Q /\ <<b, c>> \in Q => <<a, c>> \in Q
  BY <1>2, <1>3, KeyOrder, Zenon
<1>5. \E m \in S : \A i \in S : <<i, m>> \notin R
  BY <1>1, <1>4, FirstExists
<1>6. \E m \in S : \A i \in S : <<i, m>> \notin Q
  BY <1>1, <1>4, FirstExists
<1> QED  BY <1>3, <1>5, <1>6, Zenon

-----------------------------------------------------------------------------
(* One page                                                                *)

\* The budget of a single row.
LEMMA BytesOfOne ==
    ASSUME RowsType, NEW i \in RowIds
    PROVE  Used({i}) = rows[i].bytes
<1> DEFINE Body(g) == [s \in SUBSET {i} |->
                          IF s = {} THEN 0
                          ELSE LET x == CHOOSE x \in s : TRUE
                               IN rows[x].bytes + g[s \ {x}]]
           sum == CHOOSE g : g = Body(g)
           one == [s \in SUBSET {i} |-> IF s = {} THEN 0 ELSE rows[i].bytes]
<1>1. rows[i].bytes \in Nat
  BY DEF RowsType
<1>2. \A s \in SUBSET {i} : s # {} =>
         (CHOOSE x \in s : TRUE) = i /\ s \ {CHOOSE x \in s : TRUE} = {}
  OBVIOUS
<1>3. one = Body(one)
  BY <1>1, <1>2
<1>4. sum = Body(sum)
  <2> HIDE DEF one, Body
  <2> QED  BY <1>3
<1>5. sum[{}] = 0 /\ sum[{i}] = rows[i].bytes
  <2> HIDE DEF sum
  <2>1. {} \in SUBSET {i} /\ {i} \in SUBSET {i} /\ {i} # {}
    OBVIOUS
  <2>2. Body(sum)[{}] = 0 /\ Body(sum)[{i}] = rows[i].bytes + sum[{}]
    BY <1>2, <2>1
  <2> HIDE DEF Body
  <2>3. sum[{}] = 0 /\ sum[{i}] = rows[i].bytes + sum[{}]
    BY <1>4, <2>2
  <2> QED  BY <1>1, <2>3
<1>6. Used({i}) = sum[{i}]
  BY DEF Used, MapThenFoldSet
<1> QED  BY <1>5, <1>6

LEMMA UpToFacts ==
    ASSUME RowsType, NEW r, NEW S \in SUBSET RowIds, NEW i \in RowIds, NEW j \in RowIds
    PROVE  /\ UpTo(r, S, i) \subseteq S
           /\ i \in S => i \in UpTo(r, S, i)
           /\ ~Precedes(Direction(r), KeyOf(i), KeyOf(j)) => UpTo(r, S, j) \subseteq UpTo(r, S, i)
           /\ IsFiniteSet(UpTo(r, S, i)) /\ Cardinality(UpTo(r, S, i)) \in Nat
<1>1. UpTo(r, S, i) \subseteq S
  BY DEF UpTo
<1>2. ASSUME i \in S PROVE i \in UpTo(r, S, i)
  BY <1>2, RowKeys, KeyOrder DEF UpTo
<1>3. ASSUME ~Precedes(Direction(r), KeyOf(i), KeyOf(j)), NEW k \in UpTo(r, S, j)
      PROVE  k \in UpTo(r, S, i)
  <2>1. k \in S /\ k \in RowIds /\ ~Precedes(Direction(r), KeyOf(j), KeyOf(k))
    BY <1>3 DEF UpTo
  <2>2. KeyOf(i) \in SortKeys /\ KeyOf(j) \in SortKeys /\ KeyOf(k) \in SortKeys
    BY <2>1, RowKeys
  <2>3. ~Precedes(Direction(r), KeyOf(i), KeyOf(k))
    BY <1>3, <2>1, <2>2, KeyOrder, Zenon
  <2> QED  BY <2>1, <2>3 DEF UpTo
<1>4. IsFiniteSet(UpTo(r, S, i))
  BY <1>1, PagesAssumption, FS_Subset, Zenon
<1> QED  BY <1>1, <1>2, <1>3, <1>4, FS_CardinalityType

\* What a page P holds of S when W was fetched: a part of the rows from the
\* front, no more than were asked for; all of them if no row is left over; and
\* none only if a row is too large.
FrontPage(r, S, W, P) ==
    /\ P \subseteq S /\ Cardinality(P) \in Nat /\ Cardinality(P) <= PageSize(r)
    /\ \A i \in P, j \in S : ~Precedes(Direction(r), KeyOf(i), KeyOf(j)) => j \in P
    /\ P = W => P = S
    /\ P = {} /\ W # {} => \E i \in RowIds : rows[i].bytes > Budget

LEMMA PageFacts ==
    ASSUME RowsType, NEW r, PageSize(r) \in Nat \ {0}, NEW S \in SUBSET RowIds,
           NEW W, W = Fetched(r, S), NEW P, P = Filled(r, W)
    PROVE  FrontPage(r, S, W, P)
<1>1. W \subseteq S /\ P \subseteq W /\ W \in SUBSET RowIds /\ P \in SUBSET RowIds
  BY DEF Fetched, Filled
<1>2. IsFiniteSet(P) /\ Cardinality(P) \in Nat /\ IsFiniteSet(W)
  BY <1>1, PagesAssumption, FS_Subset, FS_CardinalityType
<1>3. Cardinality(P) <= PageSize(r)
  <2>1. CASE P = {}
    BY <2>1, FS_EmptySet
  <2>2. CASE P # {}
    <3>1. PICK m \in P : \A i \in P : ~Precedes(Direction(r), KeyOf(m), KeyOf(i))
      BY <1>1, <2>2, Ends, Zenon
    <3>2. P \subseteq UpTo(r, W, m)
      BY <1>1, <3>1 DEF UpTo
    <3>3. Fits(r, UpTo(r, W, m))
      BY <1>1, <3>1, <3>2 DEF Filled
    <3>4. /\ IsFiniteSet(UpTo(r, W, m)) /\ Cardinality(UpTo(r, W, m)) \in Nat
          /\ Cardinality(UpTo(r, W, m)) <= PageSize(r)
      BY <1>1, <3>3, UpToFacts, Zenon DEF Fits
    <3>5. Cardinality(P) <= Cardinality(UpTo(r, W, m))
      BY <3>2, <3>4, FS_Subset
    <3> QED  BY <1>2, <3>4, <3>5
  <2> QED  BY <2>1, <2>2
<1>4. ASSUME NEW i \in P, NEW j \in S, ~Precedes(Direction(r), KeyOf(i), KeyOf(j))
      PROVE  j \in P
  <2>1. UpTo(r, S, j) \subseteq UpTo(r, S, i) /\ UpTo(r, W, j) \subseteq UpTo(r, W, i)
    BY <1>1, <1>4, UpToFacts
  <2>2. /\ IsFiniteSet(UpTo(r, S, i)) /\ Cardinality(UpTo(r, S, i)) \in Nat
        /\ Cardinality(UpTo(r, S, j)) \in Nat
        /\ Cardinality(UpTo(r, S, i)) <= PageSize(r) + 1
    BY <1>1, UpToFacts DEF Fetched
  <2>3. Cardinality(UpTo(r, S, j)) <= Cardinality(UpTo(r, S, i))
    BY <2>1, <2>2, FS_Subset
  <2>4. Cardinality(UpTo(r, S, j)) <= PageSize(r) + 1
    BY <2>2, <2>3
  <2>5. j \in W
    BY <2>4 DEF Fetched
  <2> QED  BY <2>1, <2>5 DEF Filled
<1>5. ASSUME P = W, P # S PROVE FALSE
  <2>1. S \ W # {} /\ S \ W \in SUBSET RowIds
    BY <1>1, <1>5
  <2>2. PICK m \in S \ W : \A i \in S \ W : ~Precedes(Direction(r), KeyOf(i), KeyOf(m))
    BY <2>1, Ends, Zenon
  <2> DEFINE U == UpTo(r, S, m)
  <2>3. m \in RowIds /\ m \in U /\ U \subseteq S /\ IsFiniteSet(U) /\ Cardinality(U) \in Nat
    BY <2>2, UpToFacts
  <2>4. Cardinality(U) > PageSize(r) + 1
    BY <2>2, <2>3 DEF Fetched
  <2>5. ASSUME NEW k \in U \ {m} PROVE k \in W
    <3>1. k \in S /\ k \in RowIds /\ k # m /\ ~Precedes(Direction(r), KeyOf(m), KeyOf(k))
      BY <2>5 DEF UpTo
    <3>2. Precedes(Direction(r), KeyOf(k), KeyOf(m))
      BY <2>3, <3>1, RowKeys, KeyOrder, Zenon
    <3> QED  BY <2>2, <3>1, <3>2
  <2> HIDE DEF U
  <2>6. IsFiniteSet(U \ {m}) /\ Cardinality(U \ {m}) = Cardinality(U) - 1
    BY <2>3, FS_RemoveElement
  <2>7. Cardinality(U \ {m}) <= Cardinality(P)
    BY <1>2, <1>5, <2>5, FS_Subset
  <2> QED  BY <1>2, <1>3, <2>3, <2>4, <2>6, <2>7
<1>6. ASSUME P = {}, W # {} PROVE \E i \in RowIds : rows[i].bytes > Budget
  <2>1. PICK m \in W : \A i \in W : ~Precedes(Direction(r), KeyOf(i), KeyOf(m))
    BY <1>1, <1>6, Ends, Zenon
  <2>2. m \in RowIds /\ rows[m].bytes \in Nat
    BY <1>1, <2>1 DEF RowsType
  <2>3. UpTo(r, W, m) = {m}
    <3>1. m \in UpTo(r, W, m)
      BY <1>1, <2>1, <2>2, UpToFacts, Zenon
    <3>2. ASSUME NEW k \in UpTo(r, W, m) PROVE k = m
      <4>1. k \in W /\ k \in RowIds /\ ~Precedes(Direction(r), KeyOf(m), KeyOf(k))
        BY <1>1 DEF UpTo
      <4>2. ~Precedes(Direction(r), KeyOf(k), KeyOf(m))
        BY <2>1, <4>1
      <4> QED  BY <2>2, <4>1, <4>2, RowKeys, KeyOrder
    <3> QED  BY <3>1, <3>2
  <2>4. ~Fits(r, {m})
    BY <1>6, <2>1, <2>3 DEF Filled
  <2>5. Cardinality({m}) = 1
    BY FS_Singleton
  <2>6. ~(rows[m].bytes <= Budget)
    BY <2>2, <2>4, <2>5, BytesOfOne DEF Fits
  <2> QED  BY <2>2, <2>6, PagesAssumption
<1> QED  BY <1>1, <1>2, <1>3, <1>4, <1>5, <1>6, Zenon DEF FrontPage

-----------------------------------------------------------------------------
(* The list of a client                                                    *)

\* The cursor is accepted with request r.
Own(r) ==
    /\ kind = "devices" => DeviceCursor(r)
    /\ kind \in Timed => ScopedCursor(r)

\* The rows a query may return.
Rest(r, follow) == {i \in RowIds : InList(r.scope, i) /\ After(r, follow, i)}

\* Times are as fine as the table keeps them.
TimesKept ==
    kind \in Timed => \A i \in RowIds : Present(i) => rows[i].at % Unit = 0

\* What was returned is in the table, and what has been in the list still is.
RowsKept ==
    /\ \A i \in earlier \cup page : Present(i)
    /\ \A i \in steady : InList(asked.scope, i)

\* Between two pages: the cursor is one of this list, and every row of the list
\* from its start was returned or is behind the cursor.
CursorInv ==
    /\ kind \notin Timed => asked.sort = "asc"
    /\ phase = "start" => earlier = {} /\ page = {}
    /\ phase = "more" =>
          /\ kind # "tenants" => cursor.scope = asked.scope
          /\ cursor.sort = asked.sort
          /\ kind \in Timed => cursor.key.at % Unit = 0
          /\ \A i \in steady \ (earlier \cup page) :
                Precedes(asked.sort, cursor.key, KeyOf(i))

PagesInv == PagesAreWhole /\ TimesKept /\ RowsKept /\ CursorInv

\* Whatever the list, a request is refused, or its cursor is, or it is served.
LEMMA ListKinds ==
    ASSUME PagesTypeOK, NEW r \in Requests, NEW follow \in BOOLEAN, List(r, follow)
    PROVE  \/ Refuse("refused")
           \/ Refuse("invalid") /\ follow = TRUE /\ ~Own(r)
           \/ /\ Serve(r, Rest(r, follow))
              /\ PageSize(r) \in 1..MaxPageSize /\ Direction(r) \in Directions
              /\ follow = TRUE => Own(r)
<1>1. PageSize(r) # 0 => PageSize(r) \in 1..MaxPageSize
  <2>1. r.size \in Nat
    BY PagesAssumption, Zenon DEF Requests
  <2>2. DefaultPageSize \in 1..MaxPageSize /\ MaxPageSize \in Nat
    BY PagesAssumption
  <2> QED  BY <2>1, <2>2 DEF PageSize
<1>2. /\ kind \notin Timed => r.sort = "default"
      /\ kind \in Timed => r.sort \in Directions \cup {"default", "wrong"}
      /\ r.scope \subseteq Classes
  BY PagesAssumption DEF Requests
<1>3. r.sort # "wrong" => Direction(r) \in Directions
  BY <1>2 DEF Direction, Directions
<1>4. /\ kind = "tenants" => Rest(r, follow) = {i \in RowIds : Present(i) /\ After(r, follow, i)}
      /\ kind # "tenants" => Rest(r, follow) = InScope(r, follow)
  BY Zenon DEF Rest, InList, InScope
<1>5. CASE listTenantsHandler(r, follow)
  BY <1>1, <1>2, <1>3, <1>4, <1>5, Zenon DEF listTenantsHandler, ListTenants, ListTenantsPage,
     pageFromRequest, Own, Timed
<1>6. CASE listDevicesHandler(r, follow)
  BY <1>1, <1>2, <1>3, <1>4, <1>6, Zenon DEF listDevicesHandler, ListDevices, ListDevicesPage,
     pageFromRequest, NormalizeListRequest, Own, Timed
<1>7. CASE listTelemetryHandler(r, follow)
  BY <1>1, <1>2, <1>3, <1>4, <1>7, Zenon DEF listTelemetryHandler, ListTelemetry, ListTelemetryPage,
     pageFromRequest, listPageFromRPC, NormalizeListRequest, Own, Timed
<1>8. CASE listCommandsHandler(r, follow)
  BY <1>1, <1>2, <1>3, <1>4, <1>8, Zenon DEF listCommandsHandler, ListCommands, ListCommandsPage,
     pageFromRequest, listPageFromRPC, NormalizeListRequest, Own, Timed
<1> QED  BY <1>5, <1>6, <1>7, <1>8, Zenon DEF List

\* A page from the front of S: it ends the list with all of S, or its cursor is
\* its last row and the rest of S comes later.
ServedFrom(r, S) ==
    /\ page' \subseteq S /\ Cardinality(page') <= MaxPageSize
    /\ \/ page' = S /\ phase' = "end" /\ UNCHANGED cursor
       \/ /\ phase' = "more"
          /\ \E m \in page' :
                /\ cursor' = CursorAt(r, m)
                /\ \A i \in page' : ~Precedes(Direction(r), KeyOf(m), KeyOf(i))
                /\ \A i \in S \ page' : Precedes(Direction(r), KeyOf(m), KeyOf(i))

\* A list is given up for a row that is too large, or goes on from the front of
\* what is left.
LEMMA ServeKinds ==
    ASSUME PagesTypeOK, NEW r, PageSize(r) \in 1..MaxPageSize, NEW S \in SUBSET RowIds,
           Serve(r, S)
    PROVE  \/ /\ answer' = "too_large" /\ UNCHANGED <<page, phase, cursor>>
              /\ \E i \in RowIds : rows[i].bytes > Budget
           \/ answer' = "page" /\ ServedFrom(r, S)
<1> DEFINE W == Fetched(r, S)
           P == Filled(r, W)
<1>1. RowsType /\ PageSize(r) \in Nat \ {0} /\ PageSize(r) <= MaxPageSize /\ MaxPageSize \in Nat
  <2>1. RowsType
    BY Zenon DEF PagesTypeOK, RowsType
  <2>2. MaxPageSize \in Nat
    BY PagesAssumption
  <2> QED  BY <2>1, <2>2
<1>2. W = Fetched(r, S) /\ P = Filled(r, W)
  BY Zenon
<1>3. \/ answer' = "too_large" /\ UNCHANGED <<page, phase, cursor>> /\ P = {} /\ W # {}
      \/ Deliver(r, P, P # W)
  BY Zenon DEF Serve
<1> HIDE DEF W, P
<1>4. /\ P \subseteq S /\ Cardinality(P) \in Nat /\ Cardinality(P) <= PageSize(r)
      /\ \A i \in P, j \in S :
            ~Precedes(Direction(r), KeyOf(i), KeyOf(j)) => j \in P
      /\ P = W => P = S
      /\ P = {} /\ W # {} => \E i \in RowIds : rows[i].bytes > Budget
  <2>1. FrontPage(r, S, W, P)
    BY <1>1, <1>2, PageFacts, Zenon
  <2> QED  BY <2>1, Zenon DEF FrontPage
<1>5. Cardinality(P) <= MaxPageSize
  BY <1>1, <1>4
<1>6. CASE Deliver(r, P, P # W) /\ P = W
  BY <1>4, <1>5, <1>6, Zenon DEF Deliver, ServedFrom
<1>7. CASE Deliver(r, P, P # W) /\ P # W
  <2>1. /\ answer' = "page" /\ page' = P /\ phase' = "more"
        /\ \E i \in P : UpTo(r, P, i) = P /\ cursor' = CursorAt(r, i)
    BY <1>7 DEF Deliver
  <2>2. PICK m \in P : UpTo(r, P, m) = P /\ cursor' = CursorAt(r, m)
    BY <2>1
  <2>3. \A i \in P : ~Precedes(Direction(r), KeyOf(m), KeyOf(i))
    BY <2>2, Zenon DEF UpTo
  <2>4. \A i \in S \ P : Precedes(Direction(r), KeyOf(m), KeyOf(i))
    BY <1>4, <2>2, Zenon
  <2> QED  BY <1>4, <1>5, <2>1, <2>2, <2>3, <2>4, Zenon DEF ServedFrom
<1> QED  BY <1>4, <1>3, <1>6, <1>7, Zenon

\* A page that was served.  S is what was left of the list.
LEMMA PageKept ==
    ASSUME PagesTypeOK, TimesKept, NEW r \in Requests, NEW S \in SUBSET RowIds,
           Direction(r) \in Directions,
           UNCHANGED <<kind, rows>>, answer' = "page", foreign' = FALSE,
           ServedFrom(r, S),
           earlier' \subseteq RowIds, steady' \subseteq RowIds, steady' \subseteq earlier' \cup S,
           asked' \in [scope : SUBSET Classes, sort : Directions],
           asked'.sort = Direction(r), kind # "tenants" => asked'.scope = r.scope,
           \A i \in earlier' \cup S : Present(i),
           \A i \in steady' : InList(asked'.scope, i),
           \A i \in earlier', j \in S : Precedes(Direction(r), KeyOf(i), KeyOf(j))
    PROVE  PagesInv'
<1>0. page' \subseteq S /\ Cardinality(page') <= MaxPageSize
  BY Zenon DEF ServedFrom
<1>1. \A i \in RowIds : KeyOf(i)' = KeyOf(i) /\ Present(i)' = Present(i)
  BY Zenon DEF KeyOf, Present
<1>2. \A i \in RowIds : KeyOf(i) \in SortKeys
  BY RowKeys, Zenon DEF PagesTypeOK, RowsType
<1>3. TimesKept'
  BY <1>1, Zenon DEF TimesKept, PagesTypeOK
<1>4. RowsKept'
  <2>1. \A i \in steady' : InList(asked.scope, i)'
    BY Zenon DEF InList, Present
  <2> QED  BY <1>0, <1>1, <2>1, Zenon DEF RowsKept
<1>5. \A i \in earlier', j \in page' : Precedes(asked.sort, KeyOf(i), KeyOf(j))'
  BY <1>0, <1>1, ZenonT(30) DEF Precedes, KeyBefore
<1>6. kind \notin Timed => asked'.sort = "asc"
  BY Zenon DEF Direction
<1>7. CASE page' = S /\ phase' = "end" /\ UNCHANGED cursor
  <2>1. PagesTypeOK'
    BY <1>0, <1>7, Zenon DEF PagesTypeOK
  <2>2. PagesAreWhole'
    BY <1>5, <1>7, <2>1, Zenon DEF PagesAreWhole
  <2>3. CursorInv'
    BY <1>6, <1>7, Zenon DEF CursorInv
  <2> QED  BY <1>3, <1>4, <2>2, <2>3, Zenon DEF PagesInv
<1>8. ASSUME phase' = "more", NEW m \in page', cursor' = CursorAt(r, m),
             \A i \in page' : ~Precedes(Direction(r), KeyOf(m), KeyOf(i)),
             \A i \in S \ page' : Precedes(Direction(r), KeyOf(m), KeyOf(i))
      PROVE  PagesInv'
  <2>1. /\ cursor'.scope = r.scope /\ cursor'.sort = Direction(r) /\ cursor'.key = KeyOf(m)
        /\ m \in S /\ m \in RowIds
        /\ cursor' \in [scope : SUBSET Classes, sort : Directions, key : SortKeys]
    <3>1. r.scope \in SUBSET Classes
      BY PagesAssumption, Zenon DEF Requests
    <3>2. m \in S /\ m \in RowIds
      BY <1>0, <1>8, Zenon
    <3> QED  BY <1>2, <1>8, <3>1, <3>2, Zenon DEF CursorAt
  <2>2. PagesTypeOK'
    BY <1>0, <1>8, <2>1, Zenon DEF PagesTypeOK, SortKeys
  <2>3. \A i \in earlier' \cup page' :
           KeyOf(i)' = cursor'.key \/ Precedes(asked.sort, KeyOf(i), cursor.key)'
    <3>1. ASSUME NEW i \in earlier' PROVE Precedes(Direction(r), KeyOf(i), KeyOf(m))
      BY <2>1, Zenon
    <3>2. ASSUME NEW i \in page'
          PROVE  KeyOf(i) = KeyOf(m) \/ Precedes(Direction(r), KeyOf(i), KeyOf(m))
      BY <1>0, <1>2, <1>8, <2>1, KeyOrder, Zenon
    <3>3. \A i \in RowIds : Precedes(asked.sort, KeyOf(i), cursor.key)'
             = Precedes(Direction(r), KeyOf(i), KeyOf(m))
      BY <1>1, <2>1, Zenon DEF Precedes, KeyBefore
    <3> QED  BY <1>0, <1>1, <2>1, <3>1, <3>2, <3>3, Zenon
  <2>4. PagesAreWhole'
    BY <1>5, <1>8, <2>2, <2>3, Zenon DEF PagesAreWhole
  <2>5. kind \in Timed => cursor'.key.at % Unit = 0
    <3>1. Present(m) /\ (kind \in Timed => KeyOf(m).at = rows[m].at)
      BY <2>1 DEF KeyOf
    <3>2. kind \in Timed => KeyOf(m).at % Unit = 0
      BY <2>1, <3>1, Zenon DEF TimesKept
    <3> QED  BY <2>1, <3>2, Zenon
  <2>6. \A i \in steady' \ (earlier' \cup page') : Precedes(asked.sort, cursor.key, KeyOf(i))'
    <3>1. \A i \in RowIds : Precedes(asked.sort, cursor.key, KeyOf(i))'
             = Precedes(Direction(r), KeyOf(m), KeyOf(i))
      BY <1>1, <2>1, Zenon DEF Precedes, KeyBefore
    <3> QED  BY <1>8, <3>1, Zenon
  <2>7. CursorInv'
    BY <1>6, <1>8, <2>1, <2>5, <2>6, Zenon DEF CursorInv
  <2> QED  BY <1>3, <1>4, <2>4, <2>7, Zenon DEF PagesInv
<1> QED  BY <1>7, <1>8, Zenon DEF ServedFrom

\* An answer without a page.
LEMMA AnswerKept ==
    ASSUME PagesInv, UNCHANGED <<kind, rows, page, phase, cursor, earlier>>,
           answer' \in {"refused", "invalid", "too_large"}, foreign' \in BOOLEAN,
           answer' # "refused" => (answer' = "invalid") = foreign',
           \/ UNCHANGED <<asked, steady>>
           \/ /\ phase = "start"
              /\ asked' \in [scope : SUBSET Classes, sort : Directions]
              /\ kind \notin Timed => asked'.sort = "asc"
              /\ steady' \subseteq RowIds /\ \A i \in steady' : InList(asked'.scope, i)
    PROVE  PagesInv'
<1>1. PagesTypeOK /\ PagesAreWhole /\ TimesKept /\ RowsKept /\ CursorInv
  BY DEF PagesInv, PagesAreWhole
<1>2. PagesTypeOK'
  BY <1>1, Zenon DEF PagesTypeOK
<1>3. TimesKept'
  BY <1>1, Zenon DEF TimesKept, Present
<1>4. RowsKept'
  BY <1>1 DEF RowsKept, Present, InList
<1>5. CASE UNCHANGED <<asked, steady>>
  <2>1. PagesAreWhole'
    <3>1. ASSUME NEW i \in earlier', NEW j \in page'
          PROVE  Precedes(asked.sort, KeyOf(i), KeyOf(j))'
      <4>1. Precedes(asked.sort, KeyOf(i), KeyOf(j))
        BY <1>1, Zenon DEF PagesAreWhole
      <4>2. KeyOf(i)' = KeyOf(i) /\ KeyOf(j)' = KeyOf(j)
        BY Zenon DEF KeyOf
      <4> QED  BY <1>5, <4>1, <4>2 DEF Precedes, KeyBefore
    <3>2. /\ phase' = "end" => steady' \subseteq earlier' \cup page'
          /\ phase' = "more" =>
                /\ page' # {}
                /\ \A i \in earlier' \cup page' :
                      KeyOf(i)' = cursor'.key \/ Precedes(asked.sort, KeyOf(i), cursor.key)'
      BY <1>1, <1>5, ZenonT(30) DEF PagesAreWhole, KeyOf, Precedes, KeyBefore
    <3> QED  BY <1>2, <3>1, <3>2, Zenon DEF PagesAreWhole
  <2>2. CursorInv'
    BY <1>1, <1>5, Zenon DEF CursorInv, KeyOf, Precedes, KeyBefore
  <2> QED  BY <1>3, <1>4, <2>1, <2>2 DEF PagesInv
<1>6. CASE phase = "start" /\ (kind \notin Timed => asked'.sort = "asc")
  <2>1. page' = {} /\ earlier' = {} /\ phase' = "start"
    BY <1>1, <1>6, Zenon DEF CursorInv
  <2>2. PagesAreWhole' /\ CursorInv'
    BY <1>2, <1>6, <2>1, Zenon DEF PagesAreWhole, CursorInv
  <2> QED  BY <1>3, <1>4, <2>2, Zenon DEF PagesInv
<1> QED  BY <1>5, <1>6, Zenon

LEMMA FirstPageKept ==
    ASSUME PagesInv, NEW r \in Requests, FirstPage(r)
    PROVE  PagesInv'
<1>1. PagesTypeOK /\ TimesKept /\ CursorInv
  BY DEF PagesInv, PagesAreWhole
<1>2. /\ phase = "start" /\ List(r, FALSE) /\ foreign' = FALSE
      /\ UNCHANGED <<kind, rows, earlier>> /\ earlier = {}
  BY <1>1, Zenon DEF FirstPage, CursorInv
<1>3. r.scope \in SUBSET Classes
  BY PagesAssumption DEF Requests
<1>4. kind \notin Timed => Direction(r) = "asc"
  BY DEF Direction
<1> DEFINE S == Rest(r, FALSE)
<1>5. S = {i \in RowIds : InList(r.scope, i)}
  BY DEF Rest, After
<1>6. \A i \in S : Present(i)
  BY <1>3, <1>5, PagesAssumption, Zenon DEF InList, Present
<1>7. CASE Refuse("refused")
  <2>1. /\ answer' = "refused" /\ UNCHANGED <<page, phase, cursor>>
        /\ UNCHANGED <<asked, steady>>
    BY <1>7 DEF Refuse, FirstPage
  <2> QED  BY <1>2, <2>1, AnswerKept, Zenon
<1>8. ASSUME Serve(r, S), PageSize(r) \in 1..MaxPageSize, Direction(r) \in Directions
      PROVE  PagesInv'
  <2>1. answer' # "refused" =>
           asked' = [scope |-> r.scope, sort |-> Direction(r)] /\ steady' = S
    BY <1>5, Zenon DEF FirstPage
  <2>2. S \in SUBSET RowIds
    BY <1>5, Zenon
  <2> HIDE DEF S
  <2>3. CASE answer' = "too_large" /\ UNCHANGED <<page, phase, cursor>>
    <3>1. /\ asked' \in [scope : SUBSET Classes, sort : Directions]
          /\ kind \notin Timed => asked'.sort = "asc"
          /\ steady' \subseteq RowIds /\ \A i \in steady' : InList(asked'.scope, i)
      BY <1>3, <1>4, <1>5, <1>8, <2>1, <2>3
    <3> QED  BY <1>2, <2>3, <3>1, AnswerKept, Zenon
  <2>4. CASE answer' = "page"
    <3>1. /\ asked' \in [scope : SUBSET Classes, sort : Directions]
          /\ asked'.sort = Direction(r) /\ asked'.scope = r.scope
          /\ steady' = S /\ \A i \in steady' : InList(asked'.scope, i)
      BY <1>3, <1>5, <1>8, <2>1, <2>4
    <3>2. ServedFrom(r, S)
      BY <1>1, <1>8, <2>2, <2>4, ServeKinds, Zenon
    <3>3. /\ earlier' = {} /\ steady' \subseteq RowIds /\ steady' \subseteq earlier' \cup S
          /\ \A i \in earlier' \cup S : Present(i)
      BY <1>2, <1>6, <2>2, <3>1, Zenon
    <3> QED  BY <1>1, <1>2, <1>8, <2>2, <2>4, <3>1, <3>2, <3>3, PageKept, Zenon
  <2> QED  BY <1>1, <1>8, <2>2, <2>3, <2>4, ServeKinds, Zenon
<1> QED  BY <1>1, <1>2, <1>7, <1>8, ListKinds, Zenon

\* The cursor of a list goes on with that list.
LEMMA OwnIsNotForeign ==
    ASSUME PagesInv, phase = "more", NEW r \in Requests
    PROVE  Own(r) = ~Foreign(r)
<1>1. PagesTypeOK /\ CursorInv
  BY Zenon DEF PagesInv, PagesAreWhole
<1>2. kind \notin Timed => Direction(r) = asked.sort
  BY <1>1 DEF CursorInv, Direction
<1> QED  BY <1>1, <1>2, Zenon DEF PagesTypeOK, CursorInv, Own, Foreign, DeviceCursor, ScopedCursor,
            Kinds, Timed

LEMMA NextPageKept ==
    ASSUME PagesInv, NEW r \in Requests, NextPage(r)
    PROVE  PagesInv'
<1>1. PagesTypeOK /\ PagesAreWhole /\ TimesKept /\ RowsKept /\ CursorInv
  BY DEF PagesInv, PagesAreWhole
<1>2. /\ phase = "more" /\ List(r, TRUE) /\ foreign' = Foreign(r)
      /\ UNCHANGED <<kind, rows, asked, steady>>
      /\ answer' = "page" => earlier' = earlier \cup page
      /\ answer' # "page" => earlier' = earlier
  BY Zenon DEF NextPage
<1>3. Own(r) = ~Foreign(r) /\ Foreign(r) \in BOOLEAN
  BY <1>2, OwnIsNotForeign, Zenon DEF Foreign
<1>4. CASE Refuse("refused")
  BY <1>2, <1>3, <1>4, AnswerKept DEF Refuse
<1>5. CASE Refuse("invalid") /\ ~Own(r)
  BY <1>2, <1>3, <1>5, AnswerKept, Zenon DEF Refuse
<1> DEFINE S == Rest(r, TRUE)
<1>6. ASSUME Serve(r, S), PageSize(r) \in 1..MaxPageSize, Direction(r) \in Directions, Own(r)
      PROVE  PagesInv'
  <2>1. /\ foreign' = FALSE
        /\ kind # "tenants" => r.scope = asked.scope /\ Direction(r) = asked.sort
        /\ kind = "tenants" => Direction(r) = asked.sort
    BY <1>1, <1>2, <1>3, <1>6, Zenon DEF Foreign, CursorInv, Direction, Timed
  <2>2. /\ S \in SUBSET RowIds
        /\ \A i \in S : InList(r.scope, i) /\ Precedes(asked.sort, cursor.key, KeyOf(i))
    BY <2>1, Zenon DEF Rest, After
  <2>3. \A i \in RowIds : InList(r.scope, i) = InList(asked.scope, i)
    BY <2>1 DEF InList
  <2>4. \A i \in S : Present(i)
    <3>1. r.scope \in SUBSET Classes
      BY PagesAssumption DEF Requests
    <3> QED  BY <2>2, <3>1, PagesAssumption, Zenon DEF InList, Present
  <2>5. CASE answer' = "too_large" /\ UNCHANGED <<page, phase, cursor>>
    BY <1>2, <2>1, <2>5, AnswerKept, Zenon
  <2>6. CASE answer' = "page"
    <3>1. earlier' = earlier \cup page /\ earlier' \subseteq RowIds /\ steady' \subseteq RowIds
      BY <1>1, <1>2, <2>6 DEF PagesTypeOK
    <3>2. steady' \subseteq earlier' \cup S
      <4>1. ASSUME NEW i \in steady, i \notin earlier \cup page PROVE i \in S
        <5>1. i \in RowIds /\ InList(r.scope, i) /\ Precedes(asked.sort, cursor.key, KeyOf(i))
          BY <1>1, <1>2, <2>3, <4>1, Zenon DEF PagesTypeOK, RowsKept, CursorInv
        <5> QED  BY <2>1, <5>1, Zenon DEF Rest, After
      <4> HIDE DEF S
      <4> QED  BY <1>2, <3>1, <4>1, Zenon
    <3>3. ASSUME NEW i \in earlier', NEW j \in S
          PROVE  Precedes(Direction(r), KeyOf(i), KeyOf(j))
      <4>1. /\ KeyOf(i) \in SortKeys /\ KeyOf(j) \in SortKeys /\ cursor.key \in SortKeys
        BY <1>1, <2>2, <3>1, RowKeys, Zenon DEF PagesTypeOK, RowsType, SortKeys
      <4>2. KeyOf(i) = cursor.key \/ Precedes(asked.sort, KeyOf(i), cursor.key)
        BY <1>1, <1>2, <3>1 DEF PagesAreWhole
      <4>3. Precedes(asked.sort, cursor.key, KeyOf(j)) /\ Direction(r) = asked.sort
        BY <2>1, <2>2, Zenon
      <4>4. CASE KeyOf(i) = cursor.key
        BY <4>3, <4>4
      <4>5. CASE Precedes(asked.sort, KeyOf(i), cursor.key)
        <5>1. \A a, b, c \in SortKeys : Precedes(asked.sort, a, b) /\ Precedes(asked.sort, b, c)
                 => Precedes(asked.sort, a, c)
          BY KeyOrder
        <5>2. Precedes(asked.sort, KeyOf(i), KeyOf(j))
          BY <4>1, <4>3, <4>5, <5>1, Zenon
        <5> QED  BY <4>3, <5>2, Zenon
      <4> QED  BY <4>2, <4>4, <4>5
    <3>4. /\ asked' \in [scope : SUBSET Classes, sort : Directions]
          /\ asked'.sort = Direction(r) /\ (kind # "tenants" => asked'.scope = r.scope)
          /\ \A i \in steady' : InList(asked'.scope, i)
          /\ \A i \in earlier' \cup S : Present(i)
      BY <1>1, <1>2, <2>1, <2>4, <3>1, Zenon DEF PagesTypeOK, RowsKept
    <3> HIDE DEF S
    <3>5. ServedFrom(r, S)
      BY <1>1, <1>6, <2>2, <2>6, ServeKinds, Zenon
    <3> QED  BY <1>1, <1>2, <1>6, <2>1, <2>2, <2>6, <3>1, <3>2, <3>3, <3>4, <3>5, PageKept, Zenon
  <2> HIDE DEF S
  <2> QED  BY <1>1, <1>6, <2>2, <2>5, <2>6, ServeKinds, Zenon
<1> QED  BY <1>1, <1>2, <1>4, <1>5, <1>6, ListKinds, Zenon

-----------------------------------------------------------------------------
(* The other clients                                                       *)

\* A change of the table that keeps the keys of its rows.
LEMMA WriteKept ==
    ASSUME PagesInv, UNCHANGED <<kind, asked, phase, cursor, earlier, page, answer, foreign>>,
           RowsType', TimesKept',
           \A i \in RowIds : Present(i) => Present(i)' /\ KeyOf(i)' = KeyOf(i),
           steady' \subseteq steady, \A i \in steady' : InList(asked.scope, i)'
    PROVE  PagesInv'
<1>1. PagesTypeOK /\ PagesAreWhole /\ RowsKept /\ CursorInv
  BY DEF PagesInv, PagesAreWhole
<1>2. PagesTypeOK'
  BY <1>1 DEF PagesTypeOK, RowsType
<1>3. \A i \in earlier \cup page : Present(i)' /\ KeyOf(i)' = KeyOf(i)
  BY <1>1 DEF RowsKept, PagesTypeOK
<1>4. \A i \in steady : KeyOf(i)' = KeyOf(i)
  <2>1. ASSUME NEW i \in steady PROVE i \in RowIds /\ Present(i)
    <3>1. i \in RowIds /\ InList(asked.scope, i) /\ asked.scope \in SUBSET Classes
      BY <1>1 DEF RowsKept, PagesTypeOK
    <3> QED  BY <3>1, PagesAssumption, Zenon DEF InList, Present
  <2> QED  BY <2>1, Zenon
<1>5. RowsKept'
  BY <1>3 DEF RowsKept
<1>6. PagesAreWhole'
  <2>1. ASSUME NEW i \in earlier', NEW j \in page'
        PROVE  Precedes(asked.sort, KeyOf(i), KeyOf(j))'
    <3>1. Precedes(asked.sort, KeyOf(i), KeyOf(j))
      BY <1>1, Zenon DEF PagesAreWhole
    <3>2. KeyOf(i)' = KeyOf(i) /\ KeyOf(j)' = KeyOf(j)
      BY <1>3
    <3> QED  BY <3>1, <3>2 DEF Precedes, KeyBefore
  <2>2. phase' = "more" =>
          /\ page' # {}
          /\ \A i \in earlier' \cup page' :
                KeyOf(i)' = cursor'.key \/ Precedes(asked.sort, KeyOf(i), cursor.key)'
    BY <1>1, <1>3, Zenon DEF PagesAreWhole, Precedes, KeyBefore
  <2>3. phase' = "end" => steady' \subseteq earlier' \cup page'
    BY <1>1 DEF PagesAreWhole
  <2>4. answer' \in {"page", "too_large", "invalid"} => (answer' = "invalid") = foreign'
    BY <1>1, Zenon DEF PagesAreWhole
  <2> QED  BY <1>2, <2>1, <2>2, <2>3, <2>4, Zenon DEF PagesAreWhole
<1>7. CursorInv'
  <2>1. phase = "more" => \A i \in steady' \ (earlier' \cup page') :
           Precedes(asked.sort, cursor.key, KeyOf(i))'
    BY <1>1, <1>4, Zenon DEF CursorInv, Precedes, KeyBefore
  <2> QED  BY <1>1, <2>1, Zenon DEF CursorInv
<1> QED  BY <1>5, <1>6, <1>7, Zenon DEF PagesInv

LEMMA AddKept ==
    ASSUME PagesInv, NEW i \in RowIds, NEW class \in Classes, NEW at \in Int, NEW bytes \in Nat,
           Add(i, class, at, bytes), kind \in Timed => at % Unit = 0
    PROVE  PagesInv'
<1>1. PagesTypeOK /\ TimesKept /\ RowsKept
  BY DEF PagesInv, PagesAreWhole
<1> DEFINE new == [class |-> class, at |-> at, bytes |-> bytes]
<1>2. /\ ~Present(i) /\ rows' = [rows EXCEPT ![i] = new]
      /\ UNCHANGED <<kind, asked, phase, cursor, earlier, page, answer, foreign, steady>>
  BY Zenon DEF Add, listVars
<1>3. /\ \A j \in RowIds : j # i => rows'[j] = rows[j]
      /\ rows'[i] = new /\ new.at = at /\ new.class = class
      /\ RowsType'
  BY <1>1, <1>2, Zenon DEF PagesTypeOK, RowsType
<1>4. \A j \in RowIds : Present(j) => Present(j)' /\ KeyOf(j)' = KeyOf(j)
  BY <1>2, <1>3 DEF Present, KeyOf
<1>5. TimesKept'
  BY <1>1, <1>2, <1>3, Zenon DEF TimesKept, Present
<1>6. ASSUME NEW j \in steady PROVE InList(asked.scope, j)'
  <2>1. j \in RowIds /\ InList(asked.scope, j) /\ asked.scope \in SUBSET Classes
    BY <1>1, Zenon DEF RowsKept, PagesTypeOK
  <2>2. j # i
    BY <1>2, <2>1, PagesAssumption, Zenon DEF InList, Present
  <2> QED  BY <1>2, <1>3, <2>1, <2>2, Zenon DEF InList, Present
<1> QED  BY <1>2, <1>3, <1>4, <1>5, <1>6, WriteKept, Zenon

\* A time is a multiple of the unit once it is stored.
LEMMA StoredIsWhole ==
    ASSUME NEW t \in Int
    PROVE  StoredTime(t) \in Int /\ StoredTime(t) % Unit = 0
<1> DEFINE q == t \div Unit
           s == StoredTime(t)
           p == s \div Unit
<1>1. Unit \in Int /\ Unit > 0
  BY PagesAssumption
<1>2. q \in Int /\ t % Unit \in Int /\ t = Unit * q + (t % Unit)
  BY <1>1
<1>3. s \in Int /\ s = Unit * q
  BY <1>1, <1>2 DEF StoredTime
<1>4. /\ p \in Int /\ s % Unit \in Int /\ 0 <= s % Unit /\ s % Unit < Unit
      /\ s = Unit * p + (s % Unit)
  BY <1>1, <1>3
<1> HIDE DEF q, s, p
<1>5. s % Unit = Unit * (q - p)
  BY <1>1, <1>2, <1>3, <1>4
<1>6. q - p <= 0 \/ Unit * (q - p) >= Unit
  BY <1>1, <1>2, <1>4
<1>7. q - p >= 0 \/ Unit * (q - p) < 0
  BY <1>1, <1>2, <1>4
<1>8. q - p = 0
  BY <1>1, <1>2, <1>4, <1>5, <1>6, <1>7
<1> QED  BY <1>1, <1>3, <1>5, <1>8 DEF s

LEMMA UpdateKept ==
    ASSUME PagesInv, NEW i \in RowIds, NEW class \in Classes, NEW bytes \in Nat,
           UpdateCommand(i, class, bytes)
    PROVE  PagesInv'
<1>1. PagesTypeOK /\ TimesKept /\ RowsKept
  BY DEF PagesInv, PagesAreWhole
<1>2. /\ kind = "commands" /\ Present(i)
      /\ rows' = [rows EXCEPT ![i].class = class, ![i].bytes = bytes]
      /\ steady' = IF class \in asked.scope THEN steady ELSE steady \ {i}
      /\ UNCHANGED <<kind, asked, phase, cursor, earlier, page, answer, foreign>>
  BY DEF UpdateCommand
<1>3. /\ \A j \in RowIds : j # i => rows'[j] = rows[j]
      /\ rows'[i].at = rows[i].at /\ rows'[i].class = class
      /\ RowsType'
  BY <1>1, <1>2, ZenonT(30) DEF PagesTypeOK, RowsType
<1>4. \A j \in RowIds : Present(j)' = Present(j) /\ rows'[j].at = rows[j].at
  BY <1>2, <1>3, PagesAssumption, Zenon DEF Present
<1>5. TimesKept'
  BY <1>1, <1>2, <1>4, Zenon DEF TimesKept
<1>6. ASSUME NEW j \in steady' PROVE InList(asked.scope, j)'
  <2>1. j \in steady /\ j \in RowIds /\ rows[j].class \in asked.scope
    BY <1>1, <1>2 DEF RowsKept, InList, PagesTypeOK
  <2> QED  BY <1>2, <1>3, <2>1, Zenon DEF InList
<1>7. steady' \subseteq steady
  BY <1>2
<1>8. \A j \in RowIds : Present(j) => Present(j)' /\ KeyOf(j)' = KeyOf(j)
  BY <1>2, <1>4, Zenon DEF KeyOf
<1> QED  BY <1>2, <1>3, <1>5, <1>6, <1>7, <1>8, WriteKept, Zenon

LEMMA NothingAsked ==
    /\ NoList \in [scope : SUBSET Classes, sort : Directions]
    /\ NoCursor \in [scope : SUBSET Classes, sort : Directions, key : [at : Int, id : Int]]
    /\ Cardinality({}) <= MaxPageSize
<1>1. Cardinality({}) = 0 /\ MaxPageSize \in Nat
  BY FS_EmptySet, PagesAssumption
<1> QED  BY <1>1 DEF NoList, NoCursor, Directions

LEMMA PagesStep == PagesInv /\ [PagesNext]_pageVars => PagesInv'
<1> SUFFICES ASSUME PagesInv, [PagesNext]_pageVars PROVE PagesInv'
  OBVIOUS
<1>1. ASSUME NEW r \in Requests, FirstPage(r) PROVE PagesInv'
  BY <1>1, FirstPageKept
<1>2. ASSUME NEW r \in Requests, NextPage(r) PROVE PagesInv'
  BY <1>2, NextPageKept
<1>3. CASE StartOver
  <2>1. PagesTypeOK /\ TimesKept
    BY Zenon DEF PagesInv, PagesAreWhole
  <2>2. PagesTypeOK'
    BY <1>3, <2>1, NothingAsked, Zenon DEF StartOver, PagesTypeOK
  <2>3. PagesAreWhole'
    BY <1>3, <2>2, Zenon DEF StartOver, PagesAreWhole
  <2>4. TimesKept'
    BY <1>3, <2>1 DEF StartOver, TimesKept, Present
  <2>5. RowsKept' /\ CursorInv'
    BY <1>3, Zenon DEF StartOver, RowsKept, CursorInv, NoList
  <2> QED  BY <2>3, <2>4, <2>5 DEF PagesInv
<1>4. CASE Write
  <2>1. PICK i \in RowIds, class \in Classes, bytes \in RowBytes[kind] :
           \/ CreateTenantRow(i, class, bytes) \/ CreateDeviceRow(i, class, bytes)
           \/ UpdateCommand(i, class, bytes)
           \/ \E t \in Clock :
                 RecordTelemetry(i, class, t, bytes) \/ CreateCommand(i, class, t, bytes)
    BY <1>4, Zenon DEF Write
  <2>2. kind \in Kinds /\ bytes \in Nat
    BY <2>1, PagesAssumption, Zenon DEF PagesInv, PagesAreWhole, PagesTypeOK
  <2>3. CASE CreateTenantRow(i, class, bytes) \/ CreateDeviceRow(i, class, bytes)
    BY <2>2, <2>3, AddKept DEF CreateTenantRow, CreateDeviceRow, Timed
  <2>4. CASE UpdateCommand(i, class, bytes)
    BY <2>2, <2>4, UpdateKept, Zenon
  <2>5. ASSUME NEW t \in Clock, RecordTelemetry(i, class, t, bytes) PROVE PagesInv'
    <3>1. t \in Int /\ t % Unit = 0 /\ Add(i, class, t, bytes)
      BY <2>5, PagesAssumption, Zenon DEF RecordTelemetry
    <3> QED  BY <2>2, <3>1, AddKept
  <2>6. ASSUME NEW t \in Clock, CreateCommand(i, class, t, bytes) PROVE PagesInv'
    <3>1. StoredTime(t) \in Int /\ StoredTime(t) % Unit = 0
      BY PagesAssumption, StoredIsWhole, Zenon
    <3>2. Add(i, class, StoredTime(t), bytes)
      BY <2>6, Zenon DEF CreateCommand
    <3> QED  BY <2>2, <3>1, <3>2, AddKept, Zenon
  <2> QED  BY <2>1, <2>3, <2>4, <2>5, <2>6, Zenon
<1>5. CASE UNCHANGED pageVars
  <2>1. UNCHANGED <<kind, rows, asked, phase, cursor, earlier, page, answer, foreign, steady>>
    BY <1>5 DEF pageVars, listVars
  <2>2. RowsType /\ TimesKept /\ RowsKept
    BY DEF PagesInv, PagesAreWhole, PagesTypeOK, RowsType
  <2>3. RowsType' /\ TimesKept'
    BY <2>1, <2>2, Zenon DEF RowsType, TimesKept, Present
  <2>4. \A i \in RowIds : Present(i) => Present(i)' /\ KeyOf(i)' = KeyOf(i)
    BY <2>1, Zenon DEF Present, KeyOf
  <2>5. \A i \in steady' : InList(asked.scope, i)'
    BY <2>1, <2>2 DEF RowsKept, InList, Present
  <2> QED  BY <2>1, <2>3, <2>4, <2>5, WriteKept
<1> QED  BY <1>1, <1>2, <1>3, <1>4, <1>5 DEF PagesNext

LEMMA PagesAlways == PagesSpec => []PagesInv
<1>1. PagesInit => PagesInv
  <2> SUFFICES ASSUME PagesInit PROVE PagesInv
    OBVIOUS
  <2>1. PagesTypeOK
    <3>1. [i \in RowIds |-> Absent]
             \in [RowIds -> [class : Classes \cup {NoClass}, at : Int, bytes : Nat]]
      BY DEF Absent
    <3> QED  BY <3>1, NothingAsked, Zenon DEF PagesInit, PagesTypeOK
  <2>2. PagesAreWhole
    BY <2>1 DEF PagesInit, PagesAreWhole
  <2>3. TimesKept
    BY DEF PagesInit, TimesKept, Present, Absent
  <2>4. RowsKept /\ CursorInv
    BY Zenon DEF PagesInit, RowsKept, CursorInv, NoList
  <2> QED  BY <2>2, <2>3, <2>4, Zenon DEF PagesInv
<1> QED  BY <1>1, PagesStep, PTL DEF PagesSpec

\* For every table, page size, limit and budget: the pages of a list are in
\* order and repeat nothing, an empty nextCursor means that nothing was skipped,
\* and decodePageCursor accepts a cursor with the parameters of its list only.
THEOREM PagesSafe == PagesSpec => []PagesAreWhole
BY PagesAlways, PTL DEF PagesInv

\* accept: for every table and budget, ErrListItemTooLarge means that there is a
\* row which fits no page.
THEOREM TooLargeSafe == PagesSpec => TooLargeIsTrue
<1>1. ASSUME PagesInv, [PagesNext]_pageVars, answer' = "too_large", answer # "too_large"
      PROVE  \E i \in RowIds : rows[i].bytes > Budget
  <2>1. ASSUME NEW r \in Requests, NEW follow \in BOOLEAN, List(r, follow)
        PROVE  \E i \in RowIds : rows[i].bytes > Budget
    <3>1. PagesTypeOK /\ Rest(r, follow) \in SUBSET RowIds
      BY <1>1 DEF PagesInv, PagesAreWhole, Rest
    <3>2. Serve(r, Rest(r, follow)) /\ PageSize(r) \in 1..MaxPageSize
      BY <1>1, <2>1, <3>1, ListKinds, Zenon DEF Refuse
    <3> QED  BY <1>1, <3>1, <3>2, ServeKinds, Zenon
  <2>2. ASSUME NEW r \in Requests, FirstPage(r) \/ NextPage(r)
        PROVE  \E i \in RowIds : rows[i].bytes > Budget
    BY <2>1, <2>2, Zenon DEF FirstPage, NextPage
  <2>3. ~StartOver
    BY <1>1 DEF StartOver
  <2>4. ~Write
    BY <1>1, ZenonT(30) DEF Write, CreateTenantRow, CreateDeviceRow, RecordTelemetry, CreateCommand,
       UpdateCommand, Add, listVars
  <2>5. ~UNCHANGED pageVars
    BY <1>1 DEF pageVars, listVars
  <2> QED  BY <1>1, <2>2, <2>3, <2>4, <2>5, Zenon DEF PagesNext
<1>2. ASSUME PagesInv, [PagesNext]_pageVars
      PROVE  [(answer' = "too_large" /\ answer # "too_large")
                 => \E i \in RowIds : rows[i].bytes > Budget]_pageVars
  BY <1>1, <1>2
<1> QED  BY <1>2, PagesAlways, PTL DEF PagesSpec, TooLargeIsTrue


=============================================================================
