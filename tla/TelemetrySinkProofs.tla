------------------------ MODULE TelemetrySinkProofs -------------------------
(***************************************************************************)
(* Proofs about TelemetryStore, for every set of devices, messages and     *)
(* receive times, with unconstrained clients, and about TelemetrySink, for *)
(* any number of workers, devices, messages and records, any batch size    *)
(* and any set of rejected messages.                                       *)
(***************************************************************************)
EXTENDS TelemetrySink, TLAPS

RecordType == [written : {"none", "no", "yes"}, received : Times \cup {0},
               id : Ids \cup {0}]
StateType == [seen : Times \cup {0}, msg : Messages \cup {NoMessage}]

-----------------------------------------------------------------------------
(* What a transaction does to the rows                                     *)

\* Receive times are positive numbers.
LEMMA TimesAreNat == \A t \in Times : t \in Nat /\ t # 0
BY TelemetryAssumption

\* An insert creates one row of a registered device and touches the liveness of
\* that device only: it keeps it, or moves it forward to the new message.
LEMMA InsertShape ==
    \A m \in Messages : \A received \in Times : \A id \in Ids :
        /\ TableTypeOK
        /\ RestoreTelemetry(m, received, id)
        => /\ ~IsStored(m) /\ DeviceOf[m] \in devices /\ DeviceOf[m] \in Devices
           /\ devices' = devices
           /\ telemetry_records' \in [Messages -> RecordType]
           /\ telemetry_records'[m].written = "no"
           /\ telemetry_records'[m].received = received
           /\ \A n \in Messages \ {m} : telemetry_records'[n] = telemetry_records[n]
           /\ device_state' \in [Devices -> StateType]
           /\ \A d \in Devices \ {DeviceOf[m]} : device_state'[d] = device_state[d]
           /\ \/ /\ received <= device_state[DeviceOf[m]].seen
                 /\ device_state'[DeviceOf[m]] = device_state[DeviceOf[m]]
              \/ /\ device_state[DeviceOf[m]].seen < received
                 /\ device_state'[DeviceOf[m]].seen = received
                 /\ device_state'[DeviceOf[m]].msg = m
  \* MoveSeen keeps the state or replaces it by a later one.
<1>MoveSeenMoves.
      ASSUME NEW state \in StateType, NEW m \in Messages, NEW received \in Times
      PROVE  /\ MoveSeen(state, m, received) \in StateType
             /\ \/ /\ received <= state.seen
                   /\ MoveSeen(state, m, received) = state
                \/ /\ state.seen < received
                   /\ MoveSeen(state, m, received).seen = received
                   /\ MoveSeen(state, m, received).msg = m
  <2>1. state.seen \in Nat /\ received \in Nat
    BY TimesAreNat DEF StateType
  <2>2. CASE state.seen < received
    BY <2>2 DEF MoveSeen, StateType
  <2>3. CASE ~(state.seen < received)
    <3>1. received <= state.seen
      BY <2>1, <2>3
    <3> QED
      BY <2>3, <3>1 DEF MoveSeen
  <2> QED
    BY <2>2, <2>3
<1> SUFFICES ASSUME TableTypeOK, NEW m \in Messages, NEW received \in Times, NEW id \in Ids,
                    RestoreTelemetry(m, received, id)
             PROVE  /\ ~IsStored(m) /\ DeviceOf[m] \in devices /\ DeviceOf[m] \in Devices
                    /\ devices' = devices
                    /\ telemetry_records' \in [Messages -> RecordType]
                    /\ telemetry_records'[m].written = "no"
                    /\ telemetry_records'[m].received = received
                    /\ \A n \in Messages \ {m} : telemetry_records'[n] = telemetry_records[n]
                    /\ device_state' \in [Devices -> StateType]
                    /\ \A d \in Devices \ {DeviceOf[m]} : device_state'[d] = device_state[d]
                    /\ \/ /\ received <= device_state[DeviceOf[m]].seen
                          /\ device_state'[DeviceOf[m]] = device_state[DeviceOf[m]]
                       \/ /\ device_state[DeviceOf[m]].seen < received
                          /\ device_state'[DeviceOf[m]].seen = received
                          /\ device_state'[DeviceOf[m]].msg = m
  OBVIOUS
<1> DEFINE e == DeviceOf[m]
           row == [written |-> "no", received |-> received, id |-> id]
           new == MoveSeen(device_state[e], m, received)
<1>1. ~IsStored(m) /\ e \in devices /\ InsertTelemetry(m, received, id)
  BY DEF RestoreTelemetry, RestoreOutcome
<1>2. e \in Devices
  BY <1>1 DEF TableTypeOK
<1>3. /\ telemetry_records \in [Messages -> RecordType]
      /\ device_state \in [Devices -> StateType]
  BY DEF TableTypeOK, RecordType, StateType
<1>4. row \in RecordType
  BY DEF RecordType
<1>5. /\ new \in StateType
      /\ \/ received <= device_state[e].seen /\ new = device_state[e]
         \/ device_state[e].seen < received /\ new.seen = received /\ new.msg = m
  BY <1>2, <1>3, <1>MoveSeenMoves
<1>6. /\ telemetry_records' = [telemetry_records EXCEPT ![m] = row]
      /\ device_state' = [device_state EXCEPT ![e] = new]
      /\ devices' = devices
  BY <1>1 DEF InsertTelemetry
<1> HIDE DEF e, row, new
<1>7. /\ telemetry_records' \in [Messages -> RecordType]
      /\ telemetry_records'[m] = row
      /\ \A n \in Messages \ {m} : telemetry_records'[n] = telemetry_records[n]
      /\ device_state' \in [Devices -> StateType]
      /\ device_state'[e] = new
      /\ \A d \in Devices \ {e} : device_state'[d] = device_state[d]
  BY <1>2, <1>3, <1>4, <1>5, <1>6
<1> QED
  BY <1>1, <1>2, <1>5, <1>6, <1>7 DEF e, row

\* The marker changes at most the flag of a row that exists.
LEMMA MarkShape ==
    ASSUME TableTypeOK, NEW m \in Messages, MarkTelemetryWritten(m)
    PROVE  /\ UNCHANGED <<devices, device_state>>
           /\ telemetry_records' \in [Messages -> RecordType]
           /\ \A n \in Messages :
                 /\ telemetry_records'[n].received = telemetry_records[n].received
                 /\ telemetry_records'[n].id = telemetry_records[n].id
                 /\ telemetry_records'[n].written = "none"
                       <=> telemetry_records[n].written = "none"
                 /\ telemetry_records[n].written = "yes"
                       => telemetry_records'[n].written = "yes"
                 /\ n # m => telemetry_records'[n] = telemetry_records[n]
BY DEF MarkTelemetryWritten, TableTypeOK, RecordType

\* Rows are never deleted.
LEMMA StoredStays ==
    ASSUME TableTypeOK, [TableNext]_tableVars
    PROVE  Stored \subseteq Stored'
<1>1. CASE \E d \in Devices : CreateDevice(d)
  BY <1>1 DEF CreateDevice, Stored, IsStored
<1>2. ASSUME NEW m \in Messages, NEW received \in Times, NEW id \in Ids,
             RestoreTelemetry(m, received, id)
      PROVE  Stored \subseteq Stored'
  BY <1>2, InsertShape DEF Stored, IsStored
<1>3. ASSUME NEW m \in Messages, MarkTelemetryWritten(m)
      PROVE  Stored \subseteq Stored'
  BY <1>3, MarkShape DEF Stored, IsStored
<1>4. CASE UNCHANGED tableVars
  BY <1>4 DEF tableVars, Stored, IsStored
<1> QED
  BY <1>1, <1>2, <1>3, <1>4 DEF TableNext

-----------------------------------------------------------------------------
(* The invariants                                                          *)

\* The empty tables satisfy both invariants.
LEMMA TableInitially == TableInit => TableTypeOK /\ SeenIsLatest
BY DEF TableInit, TableTypeOK, SeenIsLatest, Stored, IsStored, NoRecord, Unseen

\* Every transaction keeps the types: no row without its device.
LEMMA TableTypeStep ==
    ASSUME TableTypeOK, [TableNext]_tableVars
    PROVE  TableTypeOK'
<1>1. ASSUME NEW d \in Devices, CreateDevice(d) PROVE TableTypeOK'
  BY <1>1 DEF CreateDevice, TableTypeOK, Stored, IsStored
<1>2. ASSUME NEW m \in Messages, NEW received \in Times, NEW id \in Ids,
             RestoreTelemetry(m, received, id)
      PROVE  TableTypeOK'
  BY <1>2, InsertShape DEF TableTypeOK, Stored, IsStored, RecordType, StateType
<1>3. ASSUME NEW m \in Messages, MarkTelemetryWritten(m) PROVE TableTypeOK'
  BY <1>3, MarkShape DEF TableTypeOK, Stored, IsStored, RecordType
<1>4. CASE UNCHANGED tableVars
  BY <1>4 DEF tableVars, TableTypeOK, Stored, IsStored
<1> QED
  BY <1>1, <1>2, <1>3, <1>4 DEF TableNext

\* Every row belongs to a registered device and has a receive time, in all
\* behaviours of the tables.
THEOREM TableTyped == TableSpec => []TableTypeOK
<1>1. TableInit => TableTypeOK
  BY TableInitially
<1>2. TableTypeOK /\ [TableNext]_tableVars => TableTypeOK'
  BY TableTypeStep
<1> QED
  BY <1>1, <1>2, PTL DEF TableSpec

\* last_seen_at and last_msg_id name the latest stored message, in whatever
\* order RestoreTelemetryContext is called.
THEOREM SeenSafe == TableSpec => []SeenIsLatest
  \* The latest receive time stays the latest: a row that arrives late leaves the
  \* state alone, any other one becomes the latest.
<1>SeenStep.
      ASSUME TableTypeOK, SeenIsLatest, [TableNext]_tableVars
      PROVE  SeenIsLatest'
  <2> USE <1>SeenStep
  <2>1. CASE \E d \in Devices : CreateDevice(d)
    BY <2>1 DEF CreateDevice, SeenIsLatest, Stored, IsStored
  <2>2. ASSUME NEW m \in Messages, NEW received \in Times, NEW id \in Ids,
               RestoreTelemetry(m, received, id)
        PROVE  SeenIsLatest'
    <3> DEFINE e == DeviceOf[m]
               Own(d) == {n \in Stored : DeviceOf[n] = d}
               OwnNext(d) == {n \in Stored' : DeviceOf[n] = d}
    <3>1. Stored' = Stored \cup {m} /\ m \notin Stored /\ Stored \subseteq Messages
      BY <2>2, InsertShape DEF Stored, IsStored
    <3>2. \A n \in Stored : telemetry_records'[n] = telemetry_records[n]
      BY <2>2, <3>1, InsertShape
    <3>3. telemetry_records'[m].received = received
      BY <2>2, InsertShape
    <3>4. SUFFICES ASSUME NEW d \in Devices
                   PROVE  /\ \A n \in OwnNext(d) :
                                telemetry_records'[n].received <= device_state'[d].seen
                          /\ IF OwnNext(d) = {} THEN device_state'[d] = Unseen
                             ELSE /\ device_state'[d].msg \in OwnNext(d)
                                  /\ telemetry_records'[device_state'[d].msg].received
                                        = device_state'[d].seen
      BY DEF SeenIsLatest, Unseen
    <3>5. /\ \A n \in Own(d) : telemetry_records[n].received <= device_state[d].seen
          /\ IF Own(d) = {} THEN device_state[d] = Unseen
             ELSE /\ device_state[d].msg \in Own(d)
                  /\ telemetry_records[device_state[d].msg].received
                        = device_state[d].seen
      BY DEF SeenIsLatest
    <3>6. CASE d # e
      <4>1. device_state'[d] = device_state[d] /\ OwnNext(d) = Own(d)
        BY <2>2, <3>1, <3>6, InsertShape
      <4> QED
        BY <3>2, <3>5, <4>1
    <3>7. CASE d = e
      <4>1. OwnNext(d) = Own(d) \cup {m}
        BY <3>1, <3>7
      <4>4. received \in Nat /\ received # 0 /\ device_state[d].seen \in Nat
        BY TimesAreNat DEF TableTypeOK
      <4>5. \A n \in Own(d) : telemetry_records[n].received \in Nat
        BY TimesAreNat DEF TableTypeOK
      <4>6. CASE /\ received <= device_state[d].seen
                 /\ device_state'[d] = device_state[d]
        <5>1. Own(d) # {}
          BY <3>5, <4>4, <4>6 DEF Unseen
        <5> QED
          BY <3>2, <3>3, <3>5, <4>1, <4>6, <5>1
      <4>7. CASE /\ device_state[d].seen < received
                 /\ device_state'[d].seen = received
                 /\ device_state'[d].msg = m
        <5>1. \A n \in Own(d) : telemetry_records'[n].received <= received
          BY <3>2, <3>5, <4>4, <4>5, <4>7
        <5> QED
          BY <3>3, <4>1, <4>4, <4>7, <5>1
      <4> QED
        BY <2>2, <3>7, <4>6, <4>7, InsertShape
    <3> QED
      BY <3>6, <3>7
  <2>3. ASSUME NEW m \in Messages, MarkTelemetryWritten(m) PROVE SeenIsLatest'
    <3>1. Stored' = Stored /\ device_state' = device_state
      BY <2>3, MarkShape DEF Stored, IsStored
    <3>2. \A n \in Messages :
             telemetry_records'[n].received = telemetry_records[n].received
      BY <2>3, MarkShape
    <3>3. Stored \subseteq Messages
      BY DEF Stored
    <3> QED
      BY <3>1, <3>2, <3>3 DEF SeenIsLatest, Unseen
  <2>4. CASE UNCHANGED tableVars
    BY <2>4 DEF tableVars, SeenIsLatest, Stored, IsStored
  <2> QED
    BY <2>1, <2>2, <2>3, <2>4 DEF TableNext
<1>1. TableInit => SeenIsLatest
  BY TableInitially
<1>2. TableTypeOK /\ SeenIsLatest /\ [TableNext]_tableVars => SeenIsLatest'
  BY <1>SeenStep
<1> QED
  BY <1>1, <1>2, TableTyped, PTL DEF TableSpec

\* Duplicates and replays change nothing, and liveness never moves back.
THEOREM HistorySafe == TableSpec => HistoryIsKept
  \* One transaction keeps receive times, ids and markers, and refreshes a device
  \* only with a message that is new and later.
<1>HistoryStep.
      ASSUME TableTypeOK, [TableNext]_tableVars
      PROVE  /\ \A m \in Stored :
                   /\ telemetry_records'[m].received = telemetry_records[m].received
                   /\ telemetry_records'[m].id = telemetry_records[m].id
                   /\ IsWritten(m) => telemetry_records'[m].written = "yes"
             /\ \A d \in Devices :
                   device_state'[d] # device_state[d] =>
                      /\ device_state[d].seen < device_state'[d].seen
                      /\ device_state'[d].msg \notin Stored
  <2> USE <1>HistoryStep
  <2> USE DEF Stored, IsStored, IsWritten
  <2>1. ASSUME NEW m \in Messages, NEW received \in Times, NEW id \in Ids,
               RestoreTelemetry(m, received, id)
        PROVE  /\ \A n \in Stored : telemetry_records'[n] = telemetry_records[n]
               /\ \A d \in Devices :
                     device_state'[d] # device_state[d] =>
                        /\ device_state[d].seen < device_state'[d].seen
                        /\ device_state'[d].msg \notin Stored
    <3>1. ~IsStored(m) /\ device_state \in [Devices -> StateType]
      BY <2>1, InsertShape DEF TableTypeOK, StateType
    <3>2. \A d \in Devices : device_state'[d] # device_state[d] =>
             /\ device_state[d].seen < received
             /\ device_state'[d].seen = received
             /\ device_state'[d].msg = m
      BY <2>1, <3>1, InsertShape
    <3> QED
      BY <2>1, <3>1, <3>2, InsertShape
  <2>2. CASE UNCHANGED <<telemetry_records, device_state>>
    BY <2>2
  <2>3. ASSUME NEW m \in Messages, MarkTelemetryWritten(m)
        PROVE  /\ UNCHANGED device_state
               /\ \A n \in Messages :
                     /\ telemetry_records'[n].received = telemetry_records[n].received
                     /\ telemetry_records'[n].id = telemetry_records[n].id
                     /\ IsWritten(n) => telemetry_records'[n].written = "yes"
    BY <2>3, MarkShape
  <2> QED
    BY <2>1, <2>2, <2>3 DEF TableNext, CreateDevice, tableVars
<1>1. TableTypeOK /\ [TableNext]_tableVars =>
         [/\ \A m \in Stored :
                /\ telemetry_records'[m].received = telemetry_records[m].received
                /\ telemetry_records'[m].id = telemetry_records[m].id
                /\ IsWritten(m) => telemetry_records'[m].written = "yes"
          /\ \A d \in Devices :
                device_state'[d] # device_state[d] =>
                   /\ device_state[d].seen < device_state'[d].seen
                   /\ device_state'[d].msg \notin Stored]_tableVars
  BY <1>HistoryStep
<1> QED
  BY <1>1, TableTyped, PTL DEF TableSpec, HistoryIsKept

-----------------------------------------------------------------------------
(* The sink                                                                *)

WorkerType == [pc : {"fetch", "restore", "write", "mark", "deadletter", "commit"},
               offset : Nat]
SweepType == [pc : {"tick", "write", "mark"}, after : Ids \cup {0},
              rows : SUBSET Messages, next : Ids \cup {0},
              row : Messages \cup {NoMessage}]

\* What a worker relies on: everything before its record is kept, even if the
\* committed offset has moved since; it writes only stored rows, marks only
\* what has a point, and commits only what is kept.
WorkerInv ==
    \A w \in Workers :
        /\ worker[w].pc # "fetch" =>
              \A i \in 1..(worker[w].offset - 1) : Kept(topic[i])
        /\ worker[w].pc \in {"write", "mark"} =>
              topic[worker[w].offset].msg \in Stored
        /\ worker[w].pc = "mark" =>
              /\ HasPoint(topic[worker[w].offset].msg)
              /\ topic[worker[w].offset].msg \notin Rejected
        /\ worker[w].pc = "commit" => Kept(topic[worker[w].offset])

\* What a sweep relies on: its rows, read some time ago, are still there, and
\* the row to be marked has its point.
SweepInv ==
    \A w \in Workers :
        /\ sweep[w].rows \subseteq Stored
        /\ sweep[w].pc = "mark" =>
              /\ sweep[w].row \in Messages \ Rejected
              /\ HasPoint(sweep[w].row)

SinkInv ==
    /\ TableTypeOK
    /\ SinkTypeOK
    /\ WorkerInv
    /\ SweepInv
    /\ WrittenHasPoint
    /\ CommittedIsKept

\* HasPoint and Kept, in the state after a step.
HasPointNext(m) == tdengine'[Key(m)] # NoMessage
KeptNext(rec) == (rec.msg \in Stored' /\ HasPointNext(rec.msg)) \/ rec \in dlq'

-----------------------------------------------------------------------------
(* Records, points and workers                                             *)

\* Every message has a place in the time series.
LEMMA KeyTyped == \A m \in Messages : Key(m) \in Keys
<1> TAKE m \in Messages
<1>1. DeviceOf[m] \in Devices
  BY TelemetryAssumption
<1>2. StampOf[m] \in Stamps
  BY SinkAssumption
<1> QED
  BY <1>1, <1>2 DEF Key, Keys

\* A record of the partition names a message and has a receive time.
LEMMA RecordFields ==
    ASSUME SinkTypeOK, NEW i \in 1..Len(topic)
    PROVE  topic[i] \in Records /\ topic[i].msg \in Messages
           /\ topic[i].received \in Times
<1>1. topic[i] \in Records
  BY DEF SinkTypeOK
<1> QED
  BY <1>1 DEF Records

\* A worker past Fetch holds a record of the partition.
LEMMA InHandTyped ==
    ASSUME SinkTypeOK, NEW w \in Workers, worker[w].pc # "fetch"
    PROVE  /\ worker[w].offset \in 1..Len(topic)
           /\ InHand(w) = topic[worker[w].offset]
           /\ InHand(w) \in Records
           /\ InHand(w).msg \in Messages /\ InHand(w).received \in Times
<1>1. worker[w].offset \in 1..Len(topic)
  BY DEF SinkTypeOK, At
<1> QED
  BY <1>1, RecordFields DEF InHand

\* An insert puts the message in its own place and removes no point.
LEMMA PointShape ==
    ASSUME tdengine \in [Keys -> Messages \cup {NoMessage}],
           NEW m \in Messages, InsertPoint(m)
    PROVE  /\ tdengine' \in [Keys -> Messages \cup {NoMessage}]
           /\ tdengine'[Key(m)] = m /\ HasPointNext(m)
           /\ \A k \in Keys : tdengine'[k] = tdengine[k] \/ (tdengine'[k] = m /\ Key(m) = k)
<1>1. Key(m) \in Keys /\ m # NoMessage
  BY KeyTyped, TelemetryAssumption
<1>2. tdengine' = [tdengine EXCEPT ![Key(m)] = m]
  BY DEF InsertPoint
<1> QED
  BY <1>1, <1>2 DEF HasPointNext

-----------------------------------------------------------------------------
(* Types                                                                   *)

\* What a step must show of its types.
LEMMA SinkTypeFrame ==
    ASSUME SinkTypeOK,
           topic' \in Seq(Records), Len(topic) <= Len(topic'),
           committed' \in 0..Len(topic'), owner' \in Workers, dlq' \subseteq Records,
           tdengine' \in [Keys -> Messages \cup {NoMessage}],
           worker' \in [Workers -> WorkerType],
           \A w \in Workers : \/ worker'[w] = worker[w]
                              \/ worker'[w].pc = "fetch"
                              \/ worker'[w].offset \in 1..Len(topic'),
           sweep' \in [Workers -> SweepType],
           aged' \in Times \cup {0}
    PROVE  SinkTypeOK'
<1>1. \A w \in Workers : worker'[w].pc # "fetch" => worker'[w].offset \in 1..Len(topic')
  <2> SUFFICES ASSUME NEW w \in Workers, worker'[w].pc # "fetch"
               PROVE  worker'[w].offset \in 1..Len(topic')
    OBVIOUS
  <2>1. Len(topic) \in Nat /\ Len(topic') \in Nat
    BY DEF SinkTypeOK
  <2>2. worker[w].pc # "fetch" => worker[w].offset \in 1..Len(topic)
    BY DEF SinkTypeOK, At
  <2> QED
    BY <2>1, <2>2
<1> QED
  BY <1>1 DEF SinkTypeOK, WorkerType, SweepType, At

-----------------------------------------------------------------------------
(* What every step keeps                                                   *)

\* No step removes a row, a point or a dead letter.
Grows ==
    /\ Stored \subseteq Stored'
    /\ dlq \subseteq dlq'
    /\ \A k \in Keys : \/ tdengine'[k] = tdengine[k]
                       \/ tdengine'[k] \in Stored /\ Key(tdengine'[k]) = k

\* What a worker's step must show: it did not move, is waiting, or everything
\* it will rely on holds.
WorkerMoves(w) ==
    \/ worker'[w] = worker[w]
    \/ worker'[w].pc = "fetch"
    \/ /\ worker'[w].offset \in 1..Len(topic)
       /\ \A i \in 1..(worker'[w].offset - 1) : Kept(topic[i])
       /\ worker'[w].pc \in {"write", "mark"} =>
             topic[worker'[w].offset].msg \in Stored'
       /\ worker'[w].pc = "mark" =>
             /\ HasPointNext(topic[worker'[w].offset].msg)
             /\ topic[worker'[w].offset].msg \notin Rejected
       /\ worker'[w].pc = "commit" => KeptNext(topic[worker'[w].offset])

\* The same of a sweep.
SweepMoves(w) ==
    \/ sweep'[w] = sweep[w]
    \/ /\ sweep'[w].rows \subseteq sweep[w].rows \cup Stored
       /\ sweep'[w].pc = "mark" =>
             /\ sweep'[w].row \in Messages \ Rejected
             /\ HasPointNext(sweep'[w].row)

\* A step that grows the tables and shows the above keeps the invariant.
LEMMA SinkFrame ==
    ASSUME SinkInv, [TableNext]_tableVars, SinkTypeOK', Grows,
           Len(topic) <= Len(topic'),
           \A i \in 1..Len(topic) : topic'[i] = topic[i],
           \A m \in Messages : telemetry_records'[m].written = "yes" =>
              \/ telemetry_records[m].written = "yes"
              \/ HasPoint(m) /\ m \notin Rejected,
           \A w \in Workers : WorkerMoves(w) /\ SweepMoves(w),
           committed' <= Len(topic),
           \A i \in 1..committed' : Kept(topic[i])
    PROVE  SinkInv'
  \* What is kept stays kept.
<1>KeptStays.
      ASSUME Grows, SinkTypeOK
      PROVE  /\ \A m \in Messages : HasPoint(m) => HasPointNext(m)
             /\ \A rec \in Records : Kept(rec) => KeptNext(rec)
  <2> USE <1>KeptStays
  <2>1. NoMessage \notin Stored
    BY TelemetryAssumption DEF Stored
  <2>2. \A m \in Messages : HasPoint(m) => HasPointNext(m)
    BY <2>1, KeyTyped DEF Grows, HasPoint, HasPointNext
  <2>3. \A rec \in Records : rec.msg \in Messages
    BY DEF Records
  <2> QED
    BY <2>2, <2>3 DEF Grows, Kept, KeptNext, Stored
<1>1. TableTypeOK'
  BY TableTypeStep DEF SinkInv
<1>2. /\ \A m \in Messages : HasPoint(m) => HasPointNext(m)
      /\ \A rec \in Records : Kept(rec) => KeptNext(rec)
  BY <1>KeptStays, Zenon DEF SinkInv
<1>3. Len(topic) \in Nat /\ \A i \in 1..Len(topic) : topic[i] \in Records /\ topic[i].msg \in Messages
  <2>1. SinkTypeOK
    BY Zenon DEF SinkInv
  <2>2. Len(topic) \in Nat
    BY <2>1 DEF SinkTypeOK
  <2> QED
    BY <2>1, <2>2, RecordFields, Zenon
<1>4. \A i \in 1..Len(topic) : Kept(topic[i]) => KeptNext(topic'[i])
  BY <1>2, <1>3, Zenon
<1>5. WorkerInv'
  <2> SUFFICES ASSUME NEW w \in Workers
               PROVE  /\ worker'[w].pc # "fetch" =>
                            \A i \in 1..(worker'[w].offset - 1) : KeptNext(topic'[i])
                      /\ worker'[w].pc \in {"write", "mark"} =>
                            topic'[worker'[w].offset].msg \in Stored'
                      /\ worker'[w].pc = "mark" =>
                            /\ HasPointNext(topic'[worker'[w].offset].msg)
                            /\ topic'[worker'[w].offset].msg \notin Rejected
                      /\ worker'[w].pc = "commit" => KeptNext(topic'[worker'[w].offset])
    BY DEF WorkerInv, Kept, KeptNext, HasPoint, HasPointNext, IsStored, Stored
  <2>1. CASE worker'[w].pc = "fetch"
    BY <2>1, Zenon
  <2>2. CASE worker'[w] = worker[w] /\ worker[w].pc # "fetch"
    <3>1. worker[w].offset \in 1..Len(topic)
      BY <2>2, InHandTyped, Zenon DEF SinkInv
    <3>2. \A i \in 1..(worker[w].offset - 1) : i \in 1..Len(topic)
      BY <1>3, <3>1
    <3> QED
      BY <1>2, <1>3, <1>4, <2>2, <3>1, <3>2, Zenon DEF SinkInv, WorkerInv, Grows
  <2>3. CASE /\ worker'[w].pc # "fetch" /\ worker'[w] # worker[w]
    <3>1. worker'[w].offset \in 1..Len(topic)
      BY <2>3 DEF WorkerMoves
    <3>2. \A i \in 1..(worker'[w].offset - 1) : i \in 1..Len(topic)
      BY <1>3, <3>1, SMTT(30)
    <3> QED
      BY <1>4, <2>3, <3>1, <3>2, Zenon DEF WorkerMoves
  <2> QED
    BY <2>1, <2>2, <2>3, Zenon
<1>6. SweepInv'
  <2> SUFFICES ASSUME NEW w \in Workers
               PROVE  /\ sweep'[w].rows \subseteq Stored'
                      /\ sweep'[w].pc = "mark" =>
                            /\ sweep'[w].row \in Messages \ Rejected
                            /\ HasPointNext(sweep'[w].row)
    BY Zenon DEF SweepInv, HasPoint, HasPointNext
  <2> QED
    BY <1>2, Zenon DEF SinkInv, SweepInv, SweepMoves, Grows
<1>7. WrittenHasPoint'
  <2>1. \A m \in Messages : telemetry_records'[m].written = "yes" =>
           HasPointNext(m) /\ m \notin Rejected
    BY <1>2, Zenon DEF SinkInv, WrittenHasPoint, IsWritten
  <2>2. \A k \in Keys : tdengine'[k] # NoMessage =>
           tdengine'[k] \in Stored' /\ Key(tdengine'[k]) = k
    <3> SUFFICES ASSUME NEW k \in Keys, tdengine'[k] # NoMessage
                 PROVE  tdengine'[k] \in Stored' /\ Key(tdengine'[k]) = k
      OBVIOUS
    <3>1. tdengine[k] \in Messages \cup {NoMessage}
      BY DEF SinkInv, SinkTypeOK
    <3> QED
      BY <3>1 DEF SinkInv, WrittenHasPoint, Grows, Stored
  <2> QED
    BY <2>1, <2>2, Zenon
    DEF WrittenHasPoint, IsWritten, IsStored, HasPoint, HasPointNext, Stored, Key
<1>8. CommittedIsKept'
  <2>1. committed' \in Nat
    BY DEF SinkTypeOK
  <2>2. \A i \in 1..committed' : i \in 1..Len(topic)
    BY <1>3, <2>1, SMTT(30)
  <2> SUFFICES ASSUME NEW i \in 1..committed' PROVE KeptNext(topic'[i])
    BY DEF CommittedIsKept, Kept, KeptNext, HasPoint, HasPointNext, IsStored, Stored
  <2> QED
    BY <1>4, <2>2
<1> QED
  BY <1>1, <1>5, <1>6, <1>7, <1>8 DEF SinkInv

-----------------------------------------------------------------------------
(* The steps                                                               *)

\* The markers a step sets are those of rows with a point.
MarksPoints ==
    \A m \in Messages : telemetry_records'[m].written = "yes" =>
       \/ telemetry_records[m].written = "yes"
       \/ HasPoint(m) /\ m \notin Rejected

\* How a step may change the points.
PointsMove ==
    /\ tdengine' \in [Keys -> Messages \cup {NoMessage}]
    /\ \A k \in Keys : \/ tdengine'[k] = tdengine[k]
                       \/ tdengine'[k] \in Stored /\ Key(tdengine'[k]) = k

\* A step that writes no point, or that of a stored row.
LEMMA PointsMoved ==
    \A m :
        /\ tdengine \in [Keys -> Messages \cup {NoMessage}]
        /\ \/ UNCHANGED tdengine
           \/ m \in Stored /\ (InsertPoint(m) \/ InsertFails(m))
        => PointsMove
  \* A failed insert removes no point either.
<1>FailedPointShape.
      ASSUME tdengine \in [Keys -> Messages \cup {NoMessage}],
             NEW m \in Messages, InsertFails(m)
      PROVE  /\ tdengine' \in [Keys -> Messages \cup {NoMessage}]
             /\ \A k \in Keys : tdengine'[k] = tdengine[k] \/ (tdengine'[k] = m /\ Key(m) = k)
  BY <1>FailedPointShape, PointShape DEF InsertFails
<1> SUFFICES ASSUME tdengine \in [Keys -> Messages \cup {NoMessage}], NEW m,
                    \/ UNCHANGED tdengine
                    \/ m \in Stored /\ (InsertPoint(m) \/ InsertFails(m))
             PROVE  PointsMove
  OBVIOUS
<1>1. CASE tdengine' = tdengine
  <2>1. tdengine' \in [Keys -> Messages \cup {NoMessage}]
    BY <1>1
  <2>2. \A k \in Keys : tdengine'[k] = tdengine[k]
    BY <1>1
  <2> QED
    BY <2>1, <2>2 DEF PointsMove
<1>2. CASE m \in Stored /\ (InsertPoint(m) \/ InsertFails(m))
  <2>1. m \in Messages
    BY <1>2 DEF Stored
  <2>2. /\ tdengine' \in [Keys -> Messages \cup {NoMessage}]
        /\ \A k \in Keys : tdengine'[k] = tdengine[k] \/ (tdengine'[k] = m /\ Key(m) = k)
    BY <1>2, <2>1, PointShape, <1>FailedPointShape
  <2>3. \A k \in Keys : \/ tdengine'[k] = tdengine[k]
                        \/ tdengine'[k] \in Stored /\ Key(tdengine'[k]) = k
    <3> TAKE k \in Keys
    <3>1. CASE tdengine'[k] = m /\ Key(m) = k
      BY <1>2, <3>1
    <3> QED
      BY <2>2, <3>1
  <2> QED
    BY <2>2, <2>3 DEF PointsMove
<1> QED
  BY <1>1, <1>2

\* A new row is not marked, and other rows keep their marker.
LEMMA InsertMarksNothing ==
    ASSUME TableTypeOK, NEW m \in Messages, NEW received \in Times, NEW id \in Ids,
           RestoreTelemetry(m, received, id)
    PROVE  MarksPoints /\ [TableNext]_tableVars /\ m \in Stored'
<1>1. MarksPoints
  BY InsertShape DEF MarksPoints
<1>2. m \in Stored'
  BY InsertShape DEF Stored, IsStored
<1> QED
  BY <1>1, <1>2, Zenon DEF TableNext

\* A step that leaves the tables alone marks nothing.
LEMMA QuietTables ==
    ASSUME UNCHANGED tableVars
    PROVE  MarksPoints /\ [TableNext]_tableVars /\ Stored' = Stored
BY DEF MarksPoints, tableVars, Stored, IsStored

\* The marker is set on one row, which has its point.
LEMMA MarkMarksPoint ==
    ASSUME TableTypeOK, NEW m \in Messages, MarkTelemetryWritten(m),
           HasPoint(m), m \notin Rejected
    PROVE  MarksPoints /\ [TableNext]_tableVars /\ Stored' = Stored
<1>1. MarksPoints
  BY MarkShape DEF MarksPoints
<1>2. Stored' = Stored
  BY MarkShape DEF Stored, IsStored
<1> QED
  BY <1>1, <1>2 DEF TableNext

\* What a step of one consumer loop must show.
LEMMA ConsumerFrame ==
    ASSUME SinkInv, NEW w \in Workers, ConsumerUnchanged,
           [TableNext]_tableVars, MarksPoints, PointsMove,
           dlq \subseteq dlq', dlq' \subseteq Records,
           worker' \in [Workers -> WorkerType],
           \A v \in Workers \ {w} : worker'[v] = worker[v],
           WorkerMoves(w),
           committed' \in 0..Len(topic),
           \A i \in 1..committed' : Kept(topic[i])
    PROVE  SinkInv'
<1>1. UNCHANGED <<topic, owner, sweep, aged>>
  BY DEF ConsumerUnchanged
<1>2. Len(topic) \in Nat /\ topic' = topic
  BY <1>1, SMTT(30) DEF SinkInv, SinkTypeOK
<1>3. SinkTypeOK'
  <2>1. \A v \in Workers : \/ worker'[v] = worker[v]
                           \/ worker'[v].pc = "fetch"
                           \/ worker'[v].offset \in 1..Len(topic')
    BY <1>2 DEF WorkerMoves
  <2>2. /\ topic \in Seq(Records) /\ owner \in Workers /\ aged \in Times \cup {0}
        /\ sweep \in [Workers -> SweepType] /\ SinkTypeOK
    BY DEF SinkInv, SinkTypeOK, SweepType
  <2> QED
    BY <1>1, <1>2, <2>1, <2>2, SinkTypeFrame, SMTT(30) DEF PointsMove
<1>4. Grows
  BY StoredStays DEF SinkInv, Grows, PointsMove
<1>5. \A v \in Workers : WorkerMoves(v) /\ SweepMoves(v)
  <2>1. \A v \in Workers \ {w} : WorkerMoves(v)
    BY Zenon DEF WorkerMoves
  <2>2. \A v \in Workers : SweepMoves(v)
    BY <1>1 DEF SweepMoves
  <2> QED
    BY <2>1, <2>2, Zenon
<1>6. Len(topic) <= Len(topic') /\ committed' <= Len(topic)
  BY <1>2
<1> QED
  BY <1>2, <1>3, <1>4, <1>5, <1>6, SinkFrame DEF MarksPoints

\* A step of consumeTelemetry keeps the invariant.
LEMMA ConsumeStep ==
    \A w \in Workers :
        /\ SinkInv
        /\ Consume(w)
        => SinkInv'
  \* The same for steps that keep the committed offset and change only the
  \* worker's step.
<1>StepFrame.
        \A w \in Workers : \A pc \in {"fetch", "restore", "write", "mark", "deadletter", "commit"} :
            /\ SinkInv
            /\ ConsumerUnchanged
            /\ worker[w].pc # "fetch"
            /\ Step(w, pc)
            /\ UNCHANGED committed
            /\ [TableNext]_tableVars
            /\ MarksPoints
            /\ PointsMove
            /\ dlq \subseteq dlq'
            /\ dlq' \subseteq Records
            /\ pc \in {"write", "mark"} => InHand(w).msg \in Stored'
            /\ pc = "mark" => HasPointNext(InHand(w).msg) /\ InHand(w).msg \notin Rejected
            /\ pc = "commit" => KeptNext(InHand(w))
            => SinkInv'
      \* A step of the consumer loop moves one worker and keeps its record.
  <2>StepShape.
        ASSUME worker \in [Workers -> WorkerType], NEW w \in Workers,
               NEW pc \in {"fetch", "restore", "write", "mark", "deadletter", "commit"},
               Step(w, pc)
        PROVE  /\ worker' \in [Workers -> WorkerType]
               /\ worker'[w].pc = pc /\ worker'[w].offset = worker[w].offset
               /\ \A v \in Workers \ {w} : worker'[v] = worker[v]
    BY <2>StepShape, Zenon DEF Step, WorkerType
  <2> SUFFICES ASSUME SinkInv, NEW w \in Workers, ConsumerUnchanged, worker[w].pc # "fetch",
                      NEW pc \in {"fetch", "restore", "write", "mark", "deadletter", "commit"},
                      Step(w, pc), UNCHANGED committed,
                      [TableNext]_tableVars, MarksPoints, PointsMove,
                      dlq \subseteq dlq', dlq' \subseteq Records,
                      pc \in {"write", "mark"} => InHand(w).msg \in Stored',
                      pc = "mark" => HasPointNext(InHand(w).msg) /\ InHand(w).msg \notin Rejected,
                      pc = "commit" => KeptNext(InHand(w))
               PROVE  SinkInv'
    OBVIOUS
  <2>1. worker \in [Workers -> WorkerType] /\ committed \in 0..Len(topic)
    BY DEF SinkInv, SinkTypeOK, WorkerType
  <2>2. /\ worker' \in [Workers -> WorkerType]
        /\ worker'[w].pc = pc /\ worker'[w].offset = worker[w].offset
        /\ \A v \in Workers \ {w} : worker'[v] = worker[v]
    BY <2>1, <2>StepShape, Zenon
  <2>3. worker[w].offset \in 1..Len(topic) /\ InHand(w) = topic[worker[w].offset]
    BY InHandTyped, Zenon DEF SinkInv
  <2>4. \A i \in 1..(worker[w].offset - 1) : Kept(topic[i])
    BY Zenon DEF SinkInv, WorkerInv
  <2>5. WorkerMoves(w)
    BY <2>2, <2>3, <2>4 DEF WorkerMoves
  <2>6. \A i \in 1..committed' : Kept(topic[i])
    BY DEF SinkInv, CommittedIsKept
  <2> QED
    BY <2>1, <2>2, <2>5, <2>6, ConsumerFrame
<1> SUFFICES ASSUME SinkInv, NEW w \in Workers, Consume(w)
             PROVE  SinkInv'
  OBVIOUS
<1> DEFINE m == InHand(w).msg
<1>a. /\ TableTypeOK /\ SinkTypeOK
      /\ tdengine \in [Keys -> Messages \cup {NoMessage}] /\ dlq \subseteq Records
      /\ worker \in [Workers -> WorkerType]
      /\ committed \in Nat /\ Len(topic) \in Nat /\ committed \in 0..Len(topic)
  BY DEF SinkInv, SinkTypeOK, WorkerType
<1>b. ASSUME UNCHANGED tdengine PROVE PointsMove
  BY <1>a, <1>b, PointsMoved
<1>c. ASSUME UNCHANGED dlq PROVE dlq \subseteq dlq' /\ dlq' \subseteq Records
  BY <1>a, <1>c
<1>d. ASSUME worker[w].pc # "fetch"
      PROVE  /\ InHand(w) \in Records /\ m \in Messages /\ InHand(w).received \in Times
             /\ InHand(w) = topic[worker[w].offset]
             /\ worker[w].offset \in 1..Len(topic)
  BY <1>a, <1>d, InHandTyped, Zenon
<1> HIDE DEF m
<1>1. CASE Fetch(w)
  <2>1. /\ worker' = [worker EXCEPT ![w] = [pc |-> "restore", offset |-> committed + 1]]
        /\ committed < Len(topic)
        /\ UNCHANGED tableVars /\ UNCHANGED committed /\ UNCHANGED dlq /\ UNCHANGED tdengine
        /\ ConsumerUnchanged
    BY <1>1 DEF Fetch
  <2>2. /\ worker' \in [Workers -> WorkerType]
        /\ worker'[w].pc = "restore" /\ worker'[w].offset = committed + 1
        /\ \A v \in Workers \ {w} : worker'[v] = worker[v]
    BY <1>a, <2>1 DEF WorkerType
  <2>3. \A i \in 1..committed : Kept(topic[i])
    BY DEF SinkInv, CommittedIsKept
  <2>4. committed + 1 \in 1..Len(topic) /\ (committed + 1) - 1 = committed
    BY <1>a, <2>1
  <2>5. WorkerMoves(w)
    BY <2>2, <2>3, <2>4 DEF WorkerMoves
  <2> QED
    BY <1>a, <1>b, <1>c, <2>1, <2>2, <2>3, <2>5, QuietTables, ConsumerFrame
<1>2. CASE Restore(w)
  <2>1. worker[w].pc # "fetch" /\ UNCHANGED committed /\ UNCHANGED dlq
        /\ UNCHANGED tdengine /\ ConsumerUnchanged
    BY <1>2, Zenon DEF Restore, At
  <2>2. ASSUME NEW id \in Ids, RestoreTelemetry(m, InHand(w).received, id), Step(w, "write")
        PROVE  SinkInv'
    <3>1. MarksPoints /\ [TableNext]_tableVars /\ m \in Stored'
      BY <1>a, <1>d, <2>1, <2>2, InsertMarksNothing
    <3> QED
      BY <1>b, <1>c, <2>1, <2>2, <3>1, <1>StepFrame DEF m
  <2>3. ASSUME RestoreOutcome(m) = "duplicate", UNCHANGED tableVars,
               Step(w, IF IsWritten(m) THEN "commit" ELSE "write")
        PROVE  SinkInv'
    <3>1. MarksPoints /\ [TableNext]_tableVars /\ Stored' = Stored
      BY <2>3, QuietTables, Zenon
    <3>2. m \in Stored'
      BY <1>d, <2>1, <2>3, <3>1, Zenon DEF RestoreOutcome, Stored
    <3>3. CASE IsWritten(m)
      <4>1. HasPointNext(m)
        BY <1>d, <2>1, <3>3 DEF SinkInv, WrittenHasPoint, HasPoint, HasPointNext, Key
      <4>2. KeptNext(InHand(w))
        BY <3>2, <4>1 DEF KeptNext, m
      <4>3. Step(w, "commit")
        BY <2>3, <3>3, Zenon
      <4> QED
        BY <1>b, <1>c, <2>1, <3>1, <4>2, <4>3, <1>StepFrame, Zenon
    <3>4. CASE ~IsWritten(m)
      <4>1. Step(w, "write")
        BY <2>3, <3>4, Zenon
      <4> QED
        BY <1>b, <1>c, <2>1, <3>1, <3>2, <4>1, <1>StepFrame DEF m
    <3> QED
      BY <3>3, <3>4
  <2> QED
    BY <1>2, <2>2, <2>3, Zenon DEF Restore, m
<1>3. CASE RestoreFails(w)
  <2>1. worker[w].pc # "fetch" /\ UNCHANGED committed /\ UNCHANGED dlq
        /\ UNCHANGED tdengine /\ ConsumerUnchanged /\ Step(w, "deadletter")
    BY <1>3 DEF RestoreFails, At
  <2>2. MarksPoints /\ [TableNext]_tableVars
    BY <1>3, <1>a, <1>d, <2>1, QuietTables, InsertMarksNothing, Zenon
    DEF RestoreFails, m
  <2> QED
    BY <1>b, <1>c, <2>1, <2>2, <1>StepFrame
<1>4. CASE WriteTelemetry(w)
  <2>1. worker[w].pc = "write" /\ UNCHANGED committed /\ UNCHANGED dlq
        /\ InsertPoint(m) /\ m \notin Rejected /\ UNCHANGED tableVars
        /\ ConsumerUnchanged /\ Step(w, "mark")
    BY <1>4, Zenon DEF WriteTelemetry, At, m
  <2>2. m \in Stored /\ m \in Messages
    BY <1>d, <2>1 DEF SinkInv, WorkerInv, m
  <2>3. PointsMove /\ HasPointNext(m)
    BY <1>a, <2>1, <2>2, PointShape, PointsMoved, Zenon
  <2> QED
    BY <1>c, <2>1, <2>2, <2>3, QuietTables, <1>StepFrame, Zenon DEF m
<1>5. CASE WriteTelemetryFails(w)
  <2>1. worker[w].pc = "write" /\ UNCHANGED committed /\ UNCHANGED dlq
        /\ InsertFails(m) /\ UNCHANGED tableVars
        /\ ConsumerUnchanged /\ Step(w, "deadletter")
    BY <1>5, Zenon DEF WriteTelemetryFails, At, m
  <2>2. m \in Stored /\ m \in Messages
    BY <1>d, <2>1 DEF SinkInv, WorkerInv, m
  <2>3. PointsMove
    BY <1>a, <2>1, <2>2, PointsMoved, Zenon
  <2> QED
    BY <1>c, <2>1, <2>3, QuietTables, <1>StepFrame
<1>6. CASE MarkWritten(w)
  <2>1. worker[w].pc = "mark" /\ UNCHANGED committed /\ UNCHANGED dlq
        /\ UNCHANGED tdengine /\ ConsumerUnchanged /\ Step(w, "commit")
        /\ (MarkTelemetryWritten(m) \/ UNCHANGED tableVars)
    BY <1>6, Zenon DEF MarkWritten, At, m
  <2>2. m \in Stored /\ HasPoint(m) /\ m \notin Rejected /\ m \in Messages
    BY <1>d, <2>1 DEF SinkInv, WorkerInv, m
  <2>3. MarksPoints /\ [TableNext]_tableVars /\ Stored' = Stored
    BY <1>a, <2>1, <2>2, QuietTables, MarkMarksPoint, Zenon
  <2>4. KeptNext(InHand(w))
    BY <2>1, <2>2, <2>3, Zenon DEF KeptNext, m, HasPoint, HasPointNext
  <2> QED
    BY <1>b, <1>c, <2>1, <2>3, <2>4, <1>StepFrame
<1>7. CASE DeadLetter(w)
  <2>1. worker[w].pc # "fetch" /\ UNCHANGED committed /\ dlq' = dlq \cup {InHand(w)}
        /\ UNCHANGED tdengine /\ UNCHANGED tableVars
        /\ ConsumerUnchanged /\ Step(w, "commit")
    BY <1>7, Zenon DEF DeadLetter, At
  <2>2. KeptNext(InHand(w)) /\ dlq \subseteq dlq' /\ dlq' \subseteq Records
    BY <1>a, <1>d, <2>1 DEF KeptNext
  <2> QED
    BY <1>b, <2>1, <2>2, QuietTables, <1>StepFrame
<1>8. CASE Commit(w)
  <2>1. /\ worker[w].pc = "commit" /\ committed' = worker[w].offset
        /\ worker' = [worker EXCEPT ![w] = Waiting]
        /\ UNCHANGED tableVars /\ UNCHANGED dlq /\ UNCHANGED tdengine /\ ConsumerUnchanged
    BY <1>8 DEF Commit, At
  <2>2. /\ worker' \in [Workers -> WorkerType]
        /\ worker'[w].pc = "fetch"
        /\ \A v \in Workers \ {w} : worker'[v] = worker[v]
    BY <1>a, <2>1 DEF WorkerType, Waiting
  <2>3. Kept(topic[worker[w].offset])
        /\ \A i \in 1..(worker[w].offset - 1) : Kept(topic[i])
    BY <2>1 DEF SinkInv, WorkerInv
  <2>4. worker[w].offset \in 1..Len(topic)
    BY <1>d, <2>1
  <2>5. \A i \in 1..worker[w].offset : i = worker[w].offset \/ i \in 1..(worker[w].offset - 1)
    BY <1>a, <2>4
  <2>6. committed' \in 0..Len(topic) /\ \A i \in 1..committed' : Kept(topic[i])
    BY <1>a, <2>1, <2>3, <2>4, <2>5, SMTT(30)
  <2>7. WorkerMoves(w)
    BY <2>2, SMTT(30) DEF WorkerMoves
  <2> QED
    BY <1>b, <1>c, <2>1, <2>2, <2>6, <2>7, QuietTables, ConsumerFrame
<1> QED
  BY <1>1, <1>2, <1>3, <1>4, <1>5, <1>6, <1>7, <1>8, Zenon DEF Consume

\* A step of the compensation scan keeps the invariant.
LEMMA SweepStep ==
    \A w \in Workers :
        /\ SinkInv
        /\ Sweep(w)
        => SinkInv'
  \* Scan, NextRow and KeepCursor move one sweep and keep it typed; what they
  \* leave in hand are rows the sweep had, or stored rows.
<1>SweepShape.
      ASSUME TableTypeOK, SinkTypeOK, NEW w \in Workers, NEW m \in Messages,
             \/ Scan(w) \/ NextRow(w, m) \/ KeepCursor(w)
             \/ sweep' = [sweep EXCEPT ![w] = Ticking]
      PROVE  /\ sweep' \in [Workers -> SweepType]
             /\ \A v \in Workers \ {w} : sweep'[v] = sweep[v]
             /\ sweep'[w].pc # "mark"
             /\ sweep'[w].rows \subseteq sweep[w].rows \cup Stored
  <2> USE <1>SweepShape
  <2>1. sweep \in [Workers -> SweepType] /\ sweep[w] \in SweepType
    BY Zenon DEF SinkTypeOK, SweepType
  <2>2. SUFFICES \E new \in SweepType :
                    /\ sweep' = [sweep EXCEPT ![w] = new]
                    /\ new.pc # "mark" /\ new.rows \subseteq sweep[w].rows \cup Stored
    BY <2>1
  <2>3. /\ Ticking \in SweepType /\ Ticking.pc = "tick" /\ Ticking.rows = {}
        /\ \A a \in Ids \cup {0} :
              /\ [Ticking EXCEPT !.after = a] \in SweepType
              /\ [Ticking EXCEPT !.after = a].pc = "tick"
              /\ [Ticking EXCEPT !.after = a].rows = {}
    BY DEF Ticking, SweepType
  <2>4. sweep[w].after \in Ids \cup {0} /\ sweep[w].next \in Ids \cup {0}
        /\ sweep[w].rows \subseteq Messages
    BY <2>1, SMTT(30) DEF SweepType
  <2>5. CASE Scan(w)
    <3> DEFINE rows == Page(Unwritten(sweep[w].after))
    <3>1. rows \subseteq Stored /\ Stored \subseteq Messages
      BY DEF Page, Unwritten, Stored
    <3>2. CASE sweep' = [sweep EXCEPT ![w] = Ticking]
      BY <2>3, <3>2, Zenon
    <3>3. ASSUME NEW last \in rows,
                 sweep' = [sweep EXCEPT ![w] =
                    [@ EXCEPT !.pc = "write", !.rows = rows, !.next = IdOf(last)]]
          PROVE  \E new \in SweepType :
                    /\ sweep' = [sweep EXCEPT ![w] = new]
                    /\ new.pc # "mark" /\ new.rows \subseteq sweep[w].rows \cup Stored
      <4> DEFINE new == [sweep[w] EXCEPT !.pc = "write", !.rows = rows, !.next = IdOf(last)]
      <4> HIDE DEF rows
      <4>1. IdOf(last) \in Ids \cup {0}
        BY <3>1 DEF IdOf, TableTypeOK
      <4>2. new \in SweepType /\ new.pc = "write" /\ new.rows = rows
        BY <2>1, <3>1, <4>1, Zenon DEF SweepType
      <4>3. sweep' = [sweep EXCEPT ![w] = new]
        BY <2>1, <3>3, Zenon
      <4> QED
        BY <3>1, <4>2, <4>3, Zenon
    <3> QED
      BY <2>5, <3>2, <3>3, Zenon DEF Scan
  <2>6. CASE NextRow(w, m)
    <3> DEFINE rest == sweep[w].rows \ {m}
    <3>1. CASE rest = {}
      <4>1. sweep' = [sweep EXCEPT ![w] = [Ticking EXCEPT !.after = sweep[w].next]]
        BY <2>6, <3>1 DEF NextRow
      <4> QED
        BY <2>3, <2>4, <4>1, Zenon
    <3>2. CASE rest # {}
      <4> DEFINE new == [sweep[w] EXCEPT !.pc = "write", !.row = NoMessage, !.rows = rest]
      <4>1. sweep' = [sweep EXCEPT ![w] = new]
        BY <2>1, <2>6, <3>2, Zenon DEF NextRow
      <4>2. new \in SweepType /\ new.pc = "write" /\ new.rows = rest
        BY <2>1, <2>4, Zenon DEF SweepType
      <4> QED
        BY <4>1, <4>2, Zenon
    <3> QED
      BY <3>1, <3>2
  <2>7. CASE KeepCursor(w)
    <3>1. sweep' = [sweep EXCEPT ![w] = [Ticking EXCEPT !.after = sweep[w].after]]
      BY <2>7 DEF KeepCursor
    <3> QED
      BY <2>3, <2>4, <3>1, Zenon
  <2>8. CASE sweep' = [sweep EXCEPT ![w] = Ticking]
    BY <2>3, <2>8, Zenon
  <2> QED
    BY <2>5, <2>6, <2>7, <2>8
  \* Compensate goes on to the marker with the row it wrote.
<1>CompensateShape.
      ASSUME SinkTypeOK, NEW w \in Workers, NEW m \in Messages, Compensate(w, m)
      PROVE  /\ sweep' \in [Workers -> SweepType]
             /\ \A v \in Workers \ {w} : sweep'[v] = sweep[v]
             /\ sweep'[w].row = m
             /\ sweep'[w].rows = sweep[w].rows
  <2> USE <1>CompensateShape
  <2> DEFINE new == [sweep[w] EXCEPT !.pc = "mark", !.row = m]
  <2>1. sweep \in [Workers -> SweepType] /\ sweep[w] \in SweepType
    BY DEF SinkTypeOK, SweepType
  <2>2. sweep' = [sweep EXCEPT ![w] = new]
    BY <2>1 DEF Compensate
  <2>3. new \in SweepType /\ new.row = m /\ new.rows = sweep[w].rows
    BY <2>1, Zenon DEF SweepType
  <2> HIDE DEF new
  <2> QED
    BY <2>1, <2>2, <2>3
  \* What a step of one compensation scan must show.
<1>SweepFrame.
      ASSUME SinkInv, NEW w \in Workers, SweepUnchanged,
             [TableNext]_tableVars, MarksPoints, PointsMove,
             sweep' \in [Workers -> SweepType],
             \A v \in Workers \ {w} : sweep'[v] = sweep[v],
             SweepMoves(w)
      PROVE  SinkInv'
  <2> USE <1>SweepFrame
  <2>1. UNCHANGED <<topic, committed, owner, dlq, worker, aged>>
    BY DEF SweepUnchanged, kafkaVars
  <2>2. /\ topic \in Seq(Records) /\ Len(topic) \in Nat /\ committed \in 0..Len(topic)
        /\ owner \in Workers /\ dlq \subseteq Records /\ aged \in Times \cup {0}
        /\ worker \in [Workers -> WorkerType] /\ SinkTypeOK
    BY DEF SinkInv, SinkTypeOK, WorkerType
  <2>3. SinkTypeOK'
    BY <2>1, <2>2, SinkTypeFrame DEF PointsMove
  <2>4. Grows
    BY <2>1, StoredStays DEF SinkInv, Grows, PointsMove
  <2>5. \A v \in Workers : WorkerMoves(v) /\ SweepMoves(v)
    <3>1. \A v \in Workers \ {w} : SweepMoves(v)
      BY DEF SweepMoves
    <3>2. \A v \in Workers : WorkerMoves(v)
      BY <2>1 DEF WorkerMoves
    <3> QED
      BY <3>1, <3>2
  <2>6. \A i \in 1..committed' : Kept(topic[i])
    BY <2>1 DEF SinkInv, CommittedIsKept
  <2>7. Len(topic) <= Len(topic') /\ committed' <= Len(topic)
    BY <2>1, <2>2
  <2> QED
    BY <2>1, <2>3, <2>4, <2>5, <2>6, <2>7, SinkFrame DEF MarksPoints
<1> SUFFICES ASSUME SinkInv, NEW w \in Workers, Sweep(w)
             PROVE  SinkInv'
  OBVIOUS
<1>a. /\ TableTypeOK /\ SinkTypeOK
      /\ tdengine \in [Keys -> Messages \cup {NoMessage}]
  BY Zenon DEF SinkInv, SinkTypeOK
<1>b. ASSUME UNCHANGED tdengine PROVE PointsMove
  BY <1>a, <1>b, PointsMoved, Zenon
<1>c. ASSUME NEW m \in Messages, Scan(w) \/ NextRow(w, m) \/ KeepCursor(w)
      PROVE  /\ sweep' \in [Workers -> SweepType]
             /\ \A v \in Workers \ {w} : sweep'[v] = sweep[v]
             /\ SweepMoves(w)
  BY <1>a, <1>c, <1>SweepShape DEF SweepMoves
<1>1. CASE Scan(w)
  <2>1. UNCHANGED tableVars /\ UNCHANGED tdengine /\ SweepUnchanged
    BY <1>1, Zenon DEF Scan
  <2>2. /\ sweep' \in [Workers -> SweepType]
        /\ \A v \in Workers \ {w} : sweep'[v] = sweep[v]
        /\ SweepMoves(w)
    <3>1. CASE Messages # {}
      BY <1>1, <1>c, <3>1
    <3>2. CASE Messages = {}
      <4>1. Page(Unwritten(sweep[w].after)) = {}
        BY <3>2 DEF Page, Unwritten, Stored
      <4>2. sweep' = [sweep EXCEPT ![w] = Ticking]
        BY <1>1, <4>1 DEF Scan
      <4>3. Ticking \in SweepType /\ Ticking.pc = "tick" /\ Ticking.rows = {}
        BY DEF Ticking, SweepType
      <4>4. sweep \in [Workers -> SweepType]
        BY <1>a, Zenon DEF SinkTypeOK, SweepType
      <4> QED
        BY <4>2, <4>3, <4>4 DEF SweepMoves
    <3> QED
      BY <3>1, <3>2
  <2> QED
    BY <1>b, <2>1, <2>2, QuietTables, <1>SweepFrame, SMTT(30)
<1>2. ASSUME NEW m \in Messages, Compensate(w, m) PROVE SinkInv'
  <2>1. m \in sweep[w].rows /\ m \notin Rejected /\ InsertPoint(m)
        /\ UNCHANGED tableVars /\ SweepUnchanged
    BY <1>2, Zenon DEF Compensate, IsNext
  <2>2. m \in Stored
    BY <2>1, Zenon DEF SinkInv, SweepInv
  <2>3. PointsMove /\ HasPointNext(m)
    BY <1>a, <2>1, <2>2, PointShape, PointsMoved
  <2>4. /\ sweep' \in [Workers -> SweepType]
        /\ \A v \in Workers \ {w} : sweep'[v] = sweep[v]
        /\ sweep'[w].row = m /\ sweep'[w].rows = sweep[w].rows
    BY <1>2, <1>a, <1>CompensateShape, Zenon
  <2>5. SweepMoves(w)
    BY <2>1, <2>3, <2>4 DEF SweepMoves
  <2> QED
    BY <2>1, <2>3, <2>4, <2>5, QuietTables, <1>SweepFrame
<1>3. ASSUME NEW m \in Messages, CompensateRejected(w, m) PROVE SinkInv'
  <2>1. NextRow(w, m) /\ UNCHANGED tableVars /\ UNCHANGED tdengine /\ SweepUnchanged
    BY <1>3, Zenon DEF CompensateRejected
  <2> QED
    BY <1>b, <1>c, <2>1, QuietTables, <1>SweepFrame
<1>4. ASSUME NEW m \in Messages, CompensateFails(w, m) PROVE SinkInv'
  <2>1. m \in sweep[w].rows /\ InsertFails(m) /\ KeepCursor(w)
        /\ UNCHANGED tableVars /\ SweepUnchanged
    BY <1>4 DEF CompensateFails, IsNext
  <2>2. m \in Stored
    BY <2>1 DEF SinkInv, SweepInv
  <2>3. PointsMove
    BY <1>a, <2>1, <2>2, PointsMoved, Zenon
  <2> QED
    BY <1>c, <2>1, <2>3, QuietTables, <1>SweepFrame, SMTT(30)
<1>5. ASSUME NEW m \in Messages, CompensateMark(w, m) PROVE SinkInv'
  <2>1. sweep[w].pc = "mark" /\ sweep[w].row = m /\ MarkTelemetryWritten(m)
        /\ NextRow(w, m) /\ UNCHANGED tdengine /\ SweepUnchanged
    BY <1>5, Zenon DEF CompensateMark, Sweeping
  <2>2. HasPoint(m) /\ m \notin Rejected
    BY <2>1 DEF SinkInv, SweepInv
  <2> QED
    BY <1>a, <1>b, <1>c, <2>1, <2>2, MarkMarksPoint, <1>SweepFrame, Zenon
<1>6. ASSUME NEW m \in Messages, CompensateMarkFails(w, m) PROVE SinkInv'
  <2>1. NextRow(w, m) /\ UNCHANGED tableVars /\ UNCHANGED tdengine /\ SweepUnchanged
    BY <1>6, Zenon DEF CompensateMarkFails
  <2> QED
    BY <1>b, <1>c, <2>1, QuietTables, <1>SweepFrame
<1> QED
  BY <1>1, <1>2, <1>3, <1>4, <1>5, <1>6, Zenon DEF Sweep

\* A crash, a rebalance, a new record, the clock and the other clients of the
\* tables keep the invariant.
LEMMA RestStep ==
    ASSUME SinkInv,
           \/ \E w \in Workers : Crash(w) \/ Rebalance(w)
           \/ \E rec \in Records : Arrive(rec)
           \/ Tick \/ Others \/ UNCHANGED allVars
    PROVE  SinkInv'
<1>a. /\ topic \in Seq(Records) /\ Len(topic) \in Nat /\ committed \in 0..Len(topic)
      /\ owner \in Workers /\ dlq \subseteq Records /\ aged \in Times \cup {0}
      /\ tdengine \in [Keys -> Messages \cup {NoMessage}]
      /\ worker \in [Workers -> WorkerType] /\ sweep \in [Workers -> SweepType]
      /\ TableTypeOK /\ SinkTypeOK
  BY DEF SinkInv, SinkTypeOK, WorkerType, SweepType
<1>1. UNCHANGED <<committed, dlq, tdengine>>
  BY DEF Crash, Rebalance, Arrive, Tick, Others, allVars, sinkVars, kafkaVars
<1>2. [TableNext]_tableVars /\ MarksPoints
  <2>1. CASE UNCHANGED tableVars
    BY <2>1, QuietTables
  <2>2. CASE Others
    <3>1. ASSUME NEW d \in Devices, CreateDevice(d) PROVE MarksPoints /\ TableNext
      BY <3>1, Zenon DEF CreateDevice, MarksPoints, TableNext
    <3> QED
      BY <1>a, <2>2, <3>1, InsertMarksNothing, SMTT(30) DEF Others
  <2> QED
    BY <2>1, <2>2 DEF Crash, Rebalance, Arrive, Tick, allVars
<1>3. topic' \in Seq(Records) /\ Len(topic) <= Len(topic')
      /\ \A i \in 1..Len(topic) : topic'[i] = topic[i]
  <2>1. CASE UNCHANGED topic
    BY <1>a, <2>1
  <2>2. ASSUME NEW rec \in Records, topic' = Append(topic, rec)
        PROVE  topic' \in Seq(Records) /\ Len(topic) <= Len(topic')
               /\ \A i \in 1..Len(topic) : topic'[i] = topic[i]
    BY <1>a, <2>2
  <2> QED
    BY <2>1, <2>2 DEF Crash, Rebalance, Arrive, Tick, Others, allVars, sinkVars, kafkaVars
<1>4. owner' \in Workers /\ aged' \in Times \cup {0}
  BY <1>a, Zenon DEF Crash, Rebalance, Arrive, Tick, Others, allVars, sinkVars, kafkaVars
<1>5. /\ worker' \in [Workers -> WorkerType] /\ sweep' \in [Workers -> SweepType]
      /\ \A v \in Workers : WorkerMoves(v) /\ SweepMoves(v)
      /\ \A v \in Workers : worker'[v] = worker[v] \/ worker'[v].pc = "fetch"
  <2>1. CASE UNCHANGED <<worker, sweep>>
    BY <1>a, <2>1, Zenon DEF WorkerMoves, SweepMoves
  <2>2. ASSUME NEW w \in Workers, Crash(w)
        PROVE  /\ worker' \in [Workers -> WorkerType] /\ sweep' \in [Workers -> SweepType]
               /\ \A v \in Workers : worker'[v] = worker[v] \/ worker'[v].pc = "fetch"
               /\ \A v \in Workers : WorkerMoves(v) /\ SweepMoves(v)
    <3>1. Ticking \in SweepType /\ Ticking.pc = "tick" /\ Ticking.rows = {}
      BY Zenon DEF Ticking, SweepType
    <3>2. Waiting \in WorkerType /\ Waiting.pc = "fetch"
      BY DEF Waiting, WorkerType
    <3>3. /\ worker' = [worker EXCEPT ![w] = Waiting]
          /\ sweep' = [sweep EXCEPT ![w] = Ticking]
      BY <2>2 DEF Crash
    <3>4. /\ worker' \in [Workers -> WorkerType]
          /\ \A v \in Workers : worker'[v] = worker[v] \/ worker'[v].pc = "fetch"
      BY <1>a, <3>2, <3>3, Zenon
    <3>5. /\ sweep' \in [Workers -> SweepType]
          /\ \A v \in Workers : SweepMoves(v)
      BY <1>a, <3>1, <3>3, Zenon DEF SweepMoves
    <3>6. \A v \in Workers : WorkerMoves(v)
      BY <3>4, Zenon DEF WorkerMoves
    <3> QED
      BY <3>4, <3>5, <3>6, SMTT(30)
  <2> QED
    BY <2>1, <2>2, Zenon DEF Rebalance, Arrive, Tick, Others, allVars, sinkVars
<1>6. Len(topic') \in Nat /\ committed' \in 0..Len(topic') /\ committed' <= Len(topic)
  BY <1>a, <1>1, <1>3, SMTT(30)
<1>7. SinkTypeOK'
  BY <1>a, <1>1, <1>3, <1>4, <1>5, <1>6, SinkTypeFrame, Zenon
<1>8. Grows
  BY <1>a, <1>1, <1>2, StoredStays DEF Grows
<1>9. \A i \in 1..committed' : Kept(topic[i])
  BY <1>1 DEF SinkInv, CommittedIsKept
<1> QED
  BY <1>2, <1>3, <1>5, <1>6, <1>7, <1>8, <1>9, SinkFrame, Zenon DEF MarksPoints

\* Empty tables, topics and time series, and idle workers.
LEMMA SinkInitially == SinkInit => SinkInv
<1> SUFFICES ASSUME SinkInit PROVE SinkInv
  OBVIOUS
<1>1. TableTypeOK
  BY TableInitially DEF SinkInit
<1>2. SinkTypeOK
  <2>1. topic \in Seq(Records) /\ committed \in 0..Len(topic)
    BY DEF SinkInit
  <2>2. owner \in Workers /\ dlq \subseteq Records /\ aged \in Times \cup {0}
    BY DEF SinkInit
  <2>3. tdengine \in [Keys -> Messages \cup {NoMessage}]
    BY DEF SinkInit
  <2>4. worker \in [Workers -> [pc : {"fetch", "restore", "write", "mark",
                                    "deadletter", "commit"}, offset : Nat]]
    BY DEF SinkInit, Waiting
  <2>5. \A w \in Workers : At(w, "fetch")
    BY Zenon DEF SinkInit, At, Waiting
  <2>6. sweep \in [Workers -> [pc : {"tick", "write", "mark"}, after : Ids \cup {0},
                              rows : SUBSET Messages, next : Ids \cup {0},
                              row : Messages \cup {NoMessage}]]
    BY SMTT(30) DEF SinkInit, Ticking
  <2> QED
    BY <2>1, <2>2, <2>3, <2>4, <2>5, <2>6 DEF SinkTypeOK
<1>3. WorkerInv /\ SweepInv
  BY Zenon DEF SinkInit, WorkerInv, SweepInv, Waiting, Ticking
<1>4. WrittenHasPoint
  BY DEF SinkInit, TableInit, NoRecord, WrittenHasPoint, IsWritten
<1>5. CommittedIsKept
  BY DEF SinkInit, CommittedIsKept
<1> QED
  BY <1>1, <1>2, <1>3, <1>4, <1>5 DEF SinkInv

\* Every step of the workers keeps the invariant.
LEMMA SinkStep == SinkInv /\ [SinkNext]_allVars => SinkInv'
BY ConsumeStep, SweepStep, RestStep DEF SinkNext

-----------------------------------------------------------------------------
(* The theorems                                                            *)

\* The inductive invariant holds of every behaviour.
LEMMA SinkSafe == SinkSpec => []SinkInv
BY SinkInitially, SinkStep, PTL DEF SinkSpec

\* Offsets lie within the partition and a working consumer holds a record of it.
THEOREM SinkTyped == SinkSpec => []SinkTypeOK
<1>1. SinkInv => SinkTypeOK
  BY DEF SinkInv
<1> QED
  BY <1>1, SinkSafe, PTL

\* tdengine_written is never set on a row without a point in TDengine, however
\* consumers and compensation scans race, fail and crash.
THEOREM MarkerSafe == SinkSpec => []WrittenHasPoint
<1>1. SinkInv => WrittenHasPoint
  BY DEF SinkInv
<1> QED
  BY <1>1, SinkSafe, PTL

\* No offset of iot.telemetry is committed for a record that is neither stored
\* and written nor dead-lettered.
THEOREM OffsetSafe == SinkSpec => []CommittedIsKept
<1>1. SinkInv => CommittedIsKept
  BY DEF SinkInv
<1> QED
  BY <1>1, SinkSafe, PTL

\* The loops of the workers run only transactions of TelemetryStore: its
\* theorems hold of them.
THEOREM SinkRefinesTable == SinkSpec => SinkImplementsTable
<1>1. SinkInit => TableInit
  BY DEF SinkInit
<1>2. SinkInv /\ [SinkNext]_allVars => [TableNext]_tableVars
  <2> SUFFICES ASSUME SinkInv, [SinkNext]_allVars PROVE [TableNext]_tableVars
    BY Zenon
  <2>1. ASSUME NEW w \in Workers, Consume(w) PROVE [TableNext]_tableVars
    <3>1. CASE Restore(w) \/ RestoreFails(w) \/ MarkWritten(w)
      <4>1. InHand(w).msg \in Messages /\ InHand(w).received \in Times
        BY <3>1, InHandTyped, ZenonT(30)
        DEF SinkInv, Restore, RestoreFails, MarkWritten, At
      <4> QED
        BY <3>1, <4>1, SMTT(30) DEF Restore, RestoreFails, MarkWritten, TableNext
    <3> QED
      BY <2>1, <3>1, Zenon DEF Consume, Fetch, WriteTelemetry, WriteTelemetryFails,
                        DeadLetter, Commit
  <2>2. ASSUME NEW w \in Workers, Sweep(w) PROVE [TableNext]_tableVars
    BY <2>2, Zenon DEF Sweep, Scan, Compensate, CompensateRejected, CompensateFails,
                CompensateMark, CompensateMarkFails, TableNext
  <2>3. CASE Others
    BY <2>3 DEF Others, TableNext
  <2> QED
    BY <2>1, <2>2, <2>3 DEF SinkNext, Crash, Rebalance, Arrive, Tick, allVars
<1> QED
  BY <1>1, <1>2, SinkSafe, PTL DEF SinkSpec, SinkImplementsTable, TableSpec

=============================================================================
