----------------------- MODULE ReadinessReplayProofs -----------------------
(***************************************************************************)
(* Proofs about two components that share nothing: MqttReadiness, for any  *)
(* number of connections and topic filters, and DlqReplay, for every set   *)
(* of stage filters, every topic and any number of runs, records and cuts. *)
(***************************************************************************)
EXTENDS MqttReadiness, DlqReplay, TLAPS

-----------------------------------------------------------------------------
(* Readiness of an MQTT client                                             *)

CallbackType ==
    [pc : {"idle", "begin", "subscribe", "wait", "answered", "done"},
     generation : Nat, left : SUBSET Filters,
     filter : Filters \cup {NoFilter}, epoch : Nat]

\* A callback of the current generation has collected its grants on the current
\* connection; while none is open it has collected nothing.
CallbackInv(c) ==
    /\ callback[c].pc \in {"idle", "begin"} => callback[c].left = Filters
    /\ callback[c].pc \in {"wait", "answered"} => callback[c].filter \in Filters
    /\ (callback[c].pc \in {"subscribe", "wait", "answered"}
        /\ callback[c].generation = generation) =>
          /\ Filters \ callback[c].left \subseteq granted
          /\ callback[c].pc = "answered" => callback[c].filter \in granted
          /\ connection = "dialing" =>
                callback[c].left = Filters /\ callback[c].pc = "subscribe"

GrantInv == \A c \in Connections : CallbackInv(c)

\* Readiness rests on the grants of the connection, and is gone before the next
\* one is dialled.
SubscribedInv ==
    subscribed = "yes" =>
        granted = Filters /\ connection # "dialing" /\ stopped = "no"

\* A probe that saw a connection with all grants saw the process serving.
ProbeInv == probe = "half" /\ granted = Filters => witness = "yes"

ReadinessInv ==
    ReadinessTypeOK /\ GrantInv /\ SubscribedInv /\ ProbeInv /\ ProbeIsHonest

\* The parts that do not concern a probe.
LinkInv == ReadinessTypeOK /\ GrantInv /\ SubscribedInv

-----------------------------------------------------------------------------
(* Steps of one callback                                                   *)

\* A callback in its state after the step.
CallbackNext(c) ==
    /\ callback'[c].pc \in {"idle", "begin"} => callback'[c].left = Filters
    /\ callback'[c].pc \in {"wait", "answered"} => callback'[c].filter \in Filters
    /\ (callback'[c].pc \in {"subscribe", "wait", "answered"}
        /\ callback'[c].generation = generation') =>
          /\ Filters \ callback'[c].left \subseteq granted'
          /\ callback'[c].pc = "answered" => callback'[c].filter \in granted'
          /\ connection' = "dialing" =>
                callback'[c].left = Filters /\ callback'[c].pc = "subscribe"

\* What the types say.
LEMMA LinkTyped ==
    ASSUME ReadinessTypeOK
    PROVE  /\ callback \in [Connections -> CallbackType]
           /\ epoch \in Nat /\ generation \in Nat /\ granted \subseteq Filters
           /\ \A c \in Connections :
                 /\ callback[c] \in CallbackType
                 /\ callback[c].generation \in Nat
                 /\ callback[c].generation <= generation
                 /\ callback[c].left \subseteq Filters
BY ReadinessAssumption DEF ReadinessTypeOK, CallbackType

-----------------------------------------------------------------------------
(* Every step keeps the invariant                                          *)

\* The steps of the client, of the callbacks and of Run keep LinkInv.
LEMMA LinkStep ==
    ASSUME LinkInv, Step, UNCHANGED probe, witness' \in {"no", "yes"}
    PROVE  LinkInv'
  \* The invariant after a step is that of every callback after the step.
<1>GrantNext.
      ASSUME \A c \in Connections : CallbackNext(c)
      PROVE  GrantInv'
  BY <1>GrantNext DEF GrantInv, CallbackInv, CallbackNext, Connections
  \* Replacing one callback by a typed one keeps the array typed.
<1>Replace.
      ASSUME callback \in [Connections -> CallbackType],
             NEW c \in Connections, NEW new \in CallbackType,
             callback' = [callback EXCEPT ![c] = new]
      PROVE  /\ callback' \in [Connections -> CallbackType]
             /\ callback'[c] = new
             /\ \A d \in Connections \ {c} : callback'[d] = callback[d]
  BY <1>Replace
  \* A callback that has ended.
<1>DoneTyped.
      Done \in CallbackType /\ Done.pc = "done" /\ Done.generation = 0
  BY DEF Done, Idle, CallbackType
  \* What a step of the client, of a callback or of Run must show of its types.
<1>TypeFrame.
      ASSUME ReadinessTypeOK,
             connection' \in {"dialing", "open", "lost", "off"},
             epoch' \in 0..MaxConnections, epoch <= epoch',
             granted' \subseteq Filters,
             generation' \in Nat, generation <= generation',
             subscribed' \in {"no", "yes"}, stopped' \in {"no", "yes"},
             callback' \in [Connections -> CallbackType],
             \A c \in Connections :
                /\ \/ callback'[c].generation = callback[c].generation
                   \/ callback'[c].generation <= generation'
                /\ callback'[c].pc # "idle" => callback[c].pc # "idle" \/ c <= epoch',
             gate' \in {"closed", "open"},
             probe' \in {"idle", "half", "ready", "unready"},
             witness' \in {"no", "yes"}
      PROVE  ReadinessTypeOK'
  <2> USE <1>TypeFrame
  <2>1. \A c \in Connections :
           /\ callback'[c].generation <= generation'
           /\ callback'[c].pc # "idle" => c <= epoch'
    <3> TAKE c \in Connections
    <3>1. callback[c].generation \in Nat /\ callback[c].generation <= generation
          /\ generation \in Nat
      BY LinkTyped
    <3>2. callback'[c].generation <= generation'
      BY <3>1
    <3>3. c \in Nat /\ epoch \in Nat /\ epoch' \in Nat
          /\ (callback[c].pc # "idle" => c <= epoch)
      BY ReadinessAssumption DEF ReadinessTypeOK, Connections
    <3>4. callback'[c].pc # "idle" => c <= epoch'
      BY <3>3
    <3> QED
      BY <3>2, <3>4
  <2> QED
    BY <2>1 DEF ReadinessTypeOK, CallbackType
  \* After the generation moved on, no older callback is current.
<1>NewGeneration.
      ASSUME ReadinessTypeOK, generation' = generation + 1
      PROVE  \A c \in Connections : callback[c].generation # generation'
  <2> USE <1>NewGeneration
  <2> TAKE c \in Connections
  <2>1. callback[c].generation \in Nat /\ generation \in Nat
        /\ callback[c].generation <= generation
    BY LinkTyped
  <2> QED
    BY <2>1
<1>a. ReadinessTypeOK /\ GrantInv /\ SubscribedInv
  BY DEF LinkInv
<1>b. /\ callback \in [Connections -> CallbackType]
      /\ epoch \in Nat /\ epoch <= MaxConnections /\ MaxConnections \in Nat
      /\ epoch \in 0..MaxConnections
      /\ generation \in Nat /\ granted \subseteq Filters
      /\ connection \in {"dialing", "open", "lost", "off"}
      /\ subscribed \in {"no", "yes"} /\ stopped \in {"no", "yes"}
      /\ gate \in {"closed", "open"} /\ probe \in {"idle", "half", "ready", "unready"}
  BY <1>a, LinkTyped, ReadinessAssumption DEF ReadinessTypeOK
<1>c. generation <= generation /\ generation + 1 \in Nat /\ generation <= generation + 1
      /\ epoch <= epoch
  BY <1>b
<1>1. CASE Open
  <2> DEFINE e == epoch + 1
             new == [callback[e] EXCEPT !.pc = "begin"]
  <2>1. /\ epoch' = e /\ granted' = {} /\ connection' = "open" /\ connection = "dialing"
        /\ callback' = [callback EXCEPT ![e] = new]
        /\ UNCHANGED <<generation, subscribed, stopped, gate>>
        /\ epoch < MaxConnections
    BY <1>1, <1>b DEF Open, stateVars
  <2>2. e \in Connections /\ e \in 0..MaxConnections /\ epoch <= e
    BY <1>b, <2>1 DEF Connections
  <2>3. callback[e] \in CallbackType
    BY <1>b, <2>2
  <2>4. /\ new \in CallbackType /\ new.pc = "begin"
        /\ new.generation = callback[e].generation /\ new.left = callback[e].left
    BY <2>3 DEF CallbackType
  <2>f. callback[e].pc = "idle"
    <3>1. ~(e <= epoch)
      BY <1>b
    <3> QED
      BY <1>a, <2>2, <3>1 DEF ReadinessTypeOK
  <2>l. callback[e].left = Filters
    BY <1>a, <2>2, <2>f DEF GrantInv, CallbackInv
  <2> HIDE DEF e, new
  <2>5. /\ callback' \in [Connections -> CallbackType] /\ callback'[e] = new
        /\ \A d \in Connections \ {e} : callback'[d] = callback[d]
    BY <1>b, <2>1, <2>2, <2>4, <1>Replace
  <2>6. e <= e
    BY <2>2
  <2>7. ReadinessTypeOK'
    BY <1>a, <1>b, <1>c, <2>1, <2>2, <2>4, <2>5, <2>6, <1>TypeFrame
  <2>8. \A d \in Connections : CallbackNext(d)
    BY <1>a, <2>1, <2>2, <2>4, <2>l, <2>5 DEF GrantInv, CallbackInv, CallbackNext
  <2>9. SubscribedInv'
    BY <1>a, <2>1 DEF SubscribedInv
  <2> QED
    BY <2>7, <2>8, <2>9, <1>GrantNext DEF LinkInv
<1>2. CASE Lose \/ Disconnect
  <2>1. /\ connection' \in {"lost", "off"}
        /\ UNCHANGED <<epoch, granted, generation, subscribed, stopped, callback, gate>>
    BY <1>2 DEF Lose, Disconnect, stateVars
  <2>2. ReadinessTypeOK'
    BY <1>a, <1>b, <1>c, <2>1, <1>TypeFrame
  <2>3. \A d \in Connections : CallbackNext(d)
    BY <1>a, <2>1 DEF GrantInv, CallbackInv, CallbackNext
  <2>4. SubscribedInv'
    BY <1>a, <2>1 DEF SubscribedInv
  <2> QED
    BY <2>2, <2>3, <2>4, <1>GrantNext DEF LinkInv
<1>3. CASE Reconnecting \/ Stop
  <2>1. /\ connection' \in {"dialing", connection}
        /\ generation' = generation + 1 /\ subscribed' = "no" /\ stopped' \in {stopped, "yes"}
        /\ UNCHANGED <<epoch, granted, callback, gate>>
    BY <1>3 DEF Reconnecting, Stop, reset, stop, linkVars
  <2>2. ReadinessTypeOK'
    BY <1>a, <1>b, <1>c, <2>1, <1>TypeFrame
  <2>3. \A d \in Connections : CallbackNext(d)
    BY <1>a, <2>1, <1>NewGeneration DEF GrantInv, CallbackInv, CallbackNext
  <2>4. SubscribedInv'
    BY <2>1 DEF SubscribedInv
  <2> QED
    BY <2>2, <2>3, <2>4, <1>GrantNext DEF LinkInv
<1>4. ASSUME NEW c \in Connections, Suback(c) PROVE LinkInv'
  <2> DEFINE new == [callback[c] EXCEPT !.pc = "answered"]
  <2>1. /\ callback[c].pc = "wait" /\ connection = "open"
        /\ granted' = granted \cup {callback[c].filter}
        /\ callback' = [callback EXCEPT ![c] = new]
        /\ UNCHANGED <<connection, epoch, generation, subscribed, stopped, gate>>
    BY <1>4, <1>b DEF Suback, stateVars
  <2>2. callback[c] \in CallbackType
    BY <1>b
  <2>3. /\ new \in CallbackType /\ new.pc = "answered"
        /\ new.generation = callback[c].generation
        /\ new.left = callback[c].left /\ new.filter = callback[c].filter
    BY <2>2 DEF CallbackType
  <2> HIDE DEF new
  <2>4. /\ callback' \in [Connections -> CallbackType] /\ callback'[c] = new
        /\ \A d \in Connections \ {c} : callback'[d] = callback[d]
    BY <1>b, <2>1, <2>3, <1>Replace
  <2>5. granted' \subseteq Filters
    BY <1>a, <1>4, <1>b, <2>1 DEF GrantInv, CallbackInv
  <2>6. ReadinessTypeOK'
    BY <1>a, <1>b, <1>c, <2>1, <2>3, <2>4, <2>5, <1>TypeFrame
  <2>7. \A d \in Connections : CallbackNext(d)
    BY <1>a, <2>1, <2>3, <2>4 DEF GrantInv, CallbackInv, CallbackNext
  <2>8. SubscribedInv'
    BY <1>a, <2>1, <2>5 DEF SubscribedInv
  <2> QED
    BY <2>6, <2>7, <2>8, <1>GrantNext DEF LinkInv
<1>5. ASSUME NEW c \in Connections, Begin(c) PROVE LinkInv'
  <2> DEFINE g == generation'
             new == [callback[c] EXCEPT !.pc = "subscribe", !.generation = g]
  <2>1. /\ callback[c].pc = "begin"
        /\ generation' = generation + 1 /\ subscribed' = "no"
        /\ callback' = [callback EXCEPT ![c] = new]
        /\ UNCHANGED <<connection, epoch, granted, stopped, gate>>
    BY <1>5, <1>b DEF Begin, reset, linkVars
  <2>2. callback[c] \in CallbackType /\ g \in Nat /\ g <= g
    BY <1>b, <1>c, <2>1
  <2> HIDE DEF g
  <2>3. /\ new \in CallbackType /\ new.pc = "subscribe" /\ new.generation = g
        /\ new.left = callback[c].left
    BY <2>2, Zenon DEF CallbackType
  <2> HIDE DEF new
  <2>4. /\ callback' \in [Connections -> CallbackType] /\ callback'[c] = new
        /\ \A d \in Connections \ {c} : callback'[d] = callback[d]
    BY <1>b, <2>1, <2>3, <1>Replace
  <2>5. ReadinessTypeOK'
    BY <1>a, <1>b, <1>c, <2>1, <2>2, <2>3, <2>4, <1>TypeFrame DEF g
  <2>6. callback[c].left = Filters
    BY <1>a, <2>1 DEF GrantInv, CallbackInv
  <2>7. \A d \in Connections : CallbackNext(d)
    BY <1>a, <2>1, <2>3, <2>4, <2>6, <1>NewGeneration DEF GrantInv, CallbackInv, CallbackNext
  <2>8. SubscribedInv'
    BY <2>1 DEF SubscribedInv
  <2> QED
    BY <2>5, <2>7, <2>8, <1>GrantNext DEF LinkInv
<1>6. ASSUME NEW c \in Connections, NEW f \in Filters, Subscribe(c, f) PROVE LinkInv'
  <2> DEFINE new == [callback[c] EXCEPT !.pc = "wait", !.filter = f, !.epoch = epoch]
  <2>1. /\ callback[c].pc = "subscribe" /\ connection = "open"
        /\ callback' = [callback EXCEPT ![c] = new]
        /\ UNCHANGED <<connection, epoch, granted, generation, subscribed, stopped, gate>>
    BY <1>6, <1>b DEF Subscribe, stateVars, linkVars
  <2>2. callback[c] \in CallbackType
    BY <1>b
  <2>3. /\ new \in CallbackType /\ new.pc = "wait" /\ new.filter = f
        /\ new.generation = callback[c].generation /\ new.left = callback[c].left
    BY <1>b, <2>2, Zenon DEF CallbackType
  <2> HIDE DEF new
  <2>4. /\ callback' \in [Connections -> CallbackType] /\ callback'[c] = new
        /\ \A d \in Connections \ {c} : callback'[d] = callback[d]
    BY <1>b, <2>1, <2>3, <1>Replace
  <2>5. ReadinessTypeOK'
    BY <1>a, <1>b, <1>c, <2>1, <2>3, <2>4, <1>TypeFrame
  <2>6. \A d \in Connections : CallbackNext(d)
    BY <1>a, <2>1, <2>3, <2>4 DEF GrantInv, CallbackInv, CallbackNext
  <2>7. SubscribedInv'
    BY <1>a, <2>1 DEF SubscribedInv
  <2> QED
    BY <2>5, <2>6, <2>7, <1>GrantNext DEF LinkInv
<1>7. ASSUME NEW c \in Connections, Granted(c) PROVE LinkInv'
  <2> DEFINE rest == callback[c].left \ {callback[c].filter}
             new == [callback[c] EXCEPT !.pc = "subscribe", !.left = rest,
                                        !.filter = NoFilter, !.epoch = 0]
  <2>1. /\ callback[c].pc = "answered"
        /\ callback' = [callback EXCEPT ![c] = new]
        /\ UNCHANGED <<connection, epoch, granted, generation, subscribed, stopped, gate>>
    BY <1>7, <1>b DEF Granted, stateVars, linkVars
  <2>2. callback[c] \in CallbackType /\ rest \in SUBSET Filters
    BY <1>b DEF CallbackType
  <2>3. /\ new \in CallbackType /\ new.pc = "subscribe"
        /\ new.generation = callback[c].generation /\ new.left = rest
    BY <2>2, Zenon DEF CallbackType
  <2> HIDE DEF new
  <2>4. /\ callback' \in [Connections -> CallbackType] /\ callback'[c] = new
        /\ \A d \in Connections \ {c} : callback'[d] = callback[d]
    BY <1>b, <2>1, <2>3, <1>Replace
  <2>5. ReadinessTypeOK'
    BY <1>a, <1>b, <1>c, <2>1, <2>3, <2>4, <1>TypeFrame
  <2>6. \A d \in Connections : CallbackNext(d)
    BY <1>a, <2>1, <2>3, <2>4 DEF GrantInv, CallbackInv, CallbackNext
  <2>7. SubscribedInv'
    BY <1>a, <2>1 DEF SubscribedInv
  <2> QED
    BY <2>5, <2>6, <2>7, <1>GrantNext DEF LinkInv
<1>8. ASSUME NEW c \in Connections, SubscribeFails(c) PROVE LinkInv'
  <2>1. /\ callback[c].pc # "idle"
        /\ callback' = [callback EXCEPT ![c] = Done]
        /\ UNCHANGED <<connection, epoch, granted, gate>>
        /\ \/ generation' = generation + 1 /\ subscribed' = "no" /\ stopped' = "yes"
           \/ UNCHANGED <<generation, subscribed, stopped>>
    BY <1>8 DEF SubscribeFails, stop, stateVars, linkVars
  <2>2. /\ callback' \in [Connections -> CallbackType] /\ callback'[c] = Done
        /\ \A d \in Connections \ {c} : callback'[d] = callback[d]
    BY <1>b, <2>1, <1>DoneTyped, <1>Replace
  <2>3. generation' \in Nat /\ generation <= generation' /\ 0 <= generation'
    BY <1>b, <2>1
  <2>4. ReadinessTypeOK'
    BY <1>a, <1>b, <1>c, <2>1, <2>2, <2>3, <1>DoneTyped, <1>TypeFrame
  <2>5. \A d \in Connections : CallbackNext(d)
    BY <1>a, <2>1, <2>2, <1>DoneTyped, <1>NewGeneration DEF GrantInv, CallbackInv, CallbackNext
  <2>6. SubscribedInv'
    BY <1>a, <2>1 DEF SubscribedInv
  <2> QED
    BY <2>4, <2>5, <2>6, <1>GrantNext DEF LinkInv
<1>9. ASSUME NEW c \in Connections, Confirm(c) PROVE LinkInv'
  <2>1. /\ callback[c].pc = "subscribe" /\ callback[c].left = {}
        /\ callback' = [callback EXCEPT ![c] = Done]
        /\ UNCHANGED <<connection, epoch, granted, generation, stopped>>
        /\ \/ /\ callback[c].generation = generation /\ stopped = "no"
              /\ subscribed' = "yes" /\ gate' = "open"
           \/ UNCHANGED <<subscribed, gate>>
    BY <1>9 DEF Confirm, confirms, linkVars
  <2>2. /\ callback' \in [Connections -> CallbackType] /\ callback'[c] = Done
        /\ \A d \in Connections \ {c} : callback'[d] = callback[d]
    BY <1>b, <2>1, <1>DoneTyped, <1>Replace
  <2>3. 0 <= generation'
    BY <1>b, <2>1
  <2>4. ReadinessTypeOK'
    BY <1>a, <1>b, <1>c, <2>1, <2>2, <2>3, <1>DoneTyped, <1>TypeFrame
  <2>5. \A d \in Connections : CallbackNext(d)
    BY <1>a, <2>1, <2>2, <1>DoneTyped DEF GrantInv, CallbackInv, CallbackNext
  <2>6. callback[c].generation = generation =>
           granted = Filters /\ connection # "dialing"
    BY <1>a, <1>b, <2>1, ReadinessAssumption DEF GrantInv, CallbackInv
  <2>7. SubscribedInv'
    BY <1>a, <2>1, <2>6 DEF SubscribedInv
  <2> QED
    BY <2>4, <2>5, <2>7, <1>GrantNext DEF LinkInv
<1> QED
  BY <1>1, <1>2, <1>3, <1>4, <1>5, <1>6, <1>7, <1>8, <1>9 DEF Step, OnConnect

\* Every step keeps the invariant: a probe under way sees each moment at which
\* the process serves.
LEMMA ReadinessStep == ReadinessInv /\ [Next]_vars => ReadinessInv'
<1> SUFFICES ASSUME ReadinessInv, [Next]_vars PROVE ReadinessInv'
  OBVIOUS
<1>a. LinkInv /\ ReadinessTypeOK /\ ProbeInv /\ ProbeIsHonest
  BY DEF ReadinessInv, LinkInv
<1>1. CASE Watched
  <2>1. Step /\ probe' = probe /\ witness' = IF probe = "half" /\ Serving' THEN "yes" ELSE witness
    BY <1>1 DEF Watched
  <2>2. witness \in {"no", "yes"}
    BY <1>a DEF ReadinessTypeOK
  <2>3. LinkInv'
    BY <1>a, <2>1, <2>2, LinkStep
  <2>4. ProbeIsHonest'
    BY <1>a, <2>1, SMTT(30) DEF ProbeIsHonest
  <2>5. granted' = granted \/ granted' = {} \/ connection' = "open"
    BY <2>1, Zenon
    DEF Step, Open, Lose, Reconnecting, Stop, Disconnect, Suback, OnConnect,
                Begin, Subscribe, Granted, SubscribeFails, Confirm, linkVars
  <2>6. ProbeInv'
    BY <1>a, <2>1, <2>5, ReadinessAssumption DEF ProbeInv, Serving
  <2> QED
    BY <2>3, <2>4, <2>6 DEF ReadinessInv, LinkInv
<1>2. CASE CheckOpen \/ CheckSubscribed \/ UNCHANGED vars
  <2>1. UNCHANGED <<linkVars, stateVars, callback, gate>>
    BY <1>2 DEF CheckOpen, CheckSubscribed, vars
  <2>2. /\ probe' \in {"idle", "half", "ready", "unready"}
        /\ witness' \in {"no", "yes"}
    BY <1>2, <1>a DEF CheckOpen, CheckSubscribed, vars, ReadinessTypeOK
  <2>3. ReadinessTypeOK'
    BY <1>a, <2>1, <2>2 DEF ReadinessTypeOK, linkVars, stateVars
  <2>4. GrantInv' /\ SubscribedInv'
    BY <1>a, <2>1 DEF LinkInv, GrantInv, CallbackInv, SubscribedInv, linkVars, stateVars
  <2>5. ProbeInv' /\ ProbeIsHonest'
    <3>1. ASSUME CheckOpen PROVE ProbeInv' /\ ProbeIsHonest'
      BY <2>1, <3>1 DEF CheckOpen, Reads, Serving, ProbeInv, ProbeIsHonest, linkVars
    <3>2. ASSUME CheckSubscribed PROVE ProbeInv' /\ ProbeIsHonest'
      BY <1>a, <2>1, <3>2 DEF CheckSubscribed, Reads, ready, LinkInv, SubscribedInv,
                              ProbeInv, ProbeIsHonest, linkVars
    <3>3. ASSUME UNCHANGED vars PROVE ProbeInv' /\ ProbeIsHonest'
      BY <1>a, <3>3 DEF vars, linkVars, ProbeInv, ProbeIsHonest
    <3> QED
      BY <1>2, <3>1, <3>2, <3>3
  <2> QED
    BY <2>3, <2>4, <2>5 DEF ReadinessInv
<1> QED
  BY <1>1, <1>2 DEF Next

\* Before the first connection nothing is granted and no callback runs.
LEMMA ReadinessInitially == Init => ReadinessInv
<1> SUFFICES ASSUME Init PROVE ReadinessInv
  OBVIOUS
<1>1. Idle \in CallbackType /\ Idle.pc = "idle" /\ Idle.generation = 0 /\ Idle.left = Filters
  BY DEF Idle, CallbackType
<1>2. callback \in [Connections -> CallbackType] /\ \A c \in Connections : callback[c] = Idle
  BY <1>1 DEF Init
<1>3. ReadinessTypeOK
  BY <1>1, <1>2, ReadinessAssumption DEF Init, ReadinessTypeOK, CallbackType
<1>4. GrantInv
  BY <1>1, <1>2 DEF GrantInv, CallbackInv
<1> QED
  BY <1>3, <1>4 DEF Init, ReadinessInv, SubscribedInv, ProbeInv, ProbeIsHonest

-----------------------------------------------------------------------------
(* The theorems                                                            *)

\* The inductive invariant holds of every behaviour.
LEMMA ReadinessHolds == Spec => []ReadinessInv
BY ReadinessInitially, ReadinessStep, PTL DEF Spec

\* No callback is ahead of the generation, and none runs before its connection.
THEOREM ReadinessTyped == Spec => []ReadinessTypeOK
<1>1. ReadinessInv => ReadinessTypeOK
  BY DEF ReadinessInv
<1> QED
  BY <1>1, ReadinessHolds, PTL

\* Readiness on an open connection means that all filters are granted on it,
\* whichever callbacks of old connections run late.
THEOREM ReadySafe == Spec => []ReadyIsServing
<1>1. ReadinessInv => ReadyIsServing
  BY DEF ReadinessInv, SubscribedInv, ReadyIsServing, ready
<1> QED
  BY <1>1, ReadinessHolds, PTL

\* CheckReady answers ready only if the process served during the check, though
\* its two reads are not atomic.
THEOREM ProbeSafe == Spec => []ProbeIsHonest
<1>1. ReadinessInv => ProbeIsHonest
  BY DEF ReadinessInv
<1> QED
  BY <1>1, ReadinessHolds, PTL

\* The consumers start only on a confirmed generation.
THEOREM GateSafe == Spec => GateIsEarned
<1>1. ReadinessInv /\ [Next]_vars => [gate' # gate => granted = Filters /\ stopped = "no"]_vars
  <2> SUFFICES ASSUME ReadinessInv, Next, gate' # gate
               PROVE  granted = Filters /\ stopped = "no"
    OBVIOUS
  <2>1. PICK c \in Connections : Confirm(c)
    BY Zenon
    DEF Next, Watched, Step, Open, Lose, Reconnecting, Stop, Disconnect, Suback, OnConnect,
           Begin, Subscribe, Granted, SubscribeFails, CheckOpen, CheckSubscribed
  <2>2. /\ callback[c].generation = generation /\ stopped = "no"
        /\ callback[c].pc = "subscribe" /\ callback[c].left = {}
    BY <2>1 DEF Confirm, confirms
  <2> QED
    BY <2>2, LinkTyped DEF ReadinessInv, GrantInv, CallbackInv
<1> QED
  BY <1>1, ReadinessHolds, PTL DEF Spec, GateIsEarned

-----------------------------------------------------------------------------
(* Dead-letter replay                                                      *)

RunType == [at : 0..(Len(dlq) + 1), dry : BOOLEAN, count : 0..RunLimit, wrote : BOOLEAN]

Letters == {letters \in Seq(DeadLetters) : Len(letters) <= MaxRecords}

Past(f) == committed[replayGroupID(f)]

\* A run is ahead of its group.  A real one has replayed what lies behind it,
\* and while it has written a record that record is not committed yet.
RunInv(f) ==
    /\ run[f].at > 0 => Past(f) < run[f].at
    /\ run[f].wrote => /\ run[f].at \in 1..Len(dlq) /\ run[f].count < RunLimit
                       /\ ~run[f].dry
                       /\ replays[f][run[f].at] > 0
    /\ ~run[f].dry => \A o \in 1..Len(dlq) :
          o < run[f].at /\ Replayable(f, o) => replays[f][o] > 0

PastInv(f) == \A o \in 1..Past(f) : Replayable(f, o) => replays[f][o] > 0

InHand(f, o) == IF run[f].wrote /\ o = run[f].at THEN 1 ELSE 0

\* Behind the group's position a record was replayed once more than runs were
\* cut at most; ahead of it only the one in hand was.
TwiceInv(f) ==
    \A o \in 1..MaxRecords :
       /\ replays[f][o] <= 1 + cuts[f]
       /\ o > Past(f) => replays[f][o] <= cuts[f] + InHand(f, o)

FilterInv(f) == RunInv(f) /\ PastInv(f) /\ TwiceInv(f)

\* What was replayed carries the receipt time of its first replay.
Stamped(item) ==
    item.first > 0 => /\ item.stage = "telemetry.postgres"
                      /\ item.received = item.first
                      /\ item.form # "unusable"

StampInv ==
    /\ \A o \in 1..Len(dlq) : Stamped(dlq[o])
    /\ \A i \in 1..Len(sent) : Stamped(sent[i])

ReplayInv == ReplayTypeOK /\ StampInv /\ \A f \in StageFilters : FilterInv(f)

-----------------------------------------------------------------------------
(* Groups                                                                  *)

\* Every filter has a group.
LEMMA HasGroup ==
    ASSUME NEW f \in StageFilters
    PROVE  replayGroupID(f) \in Groups
BY DEF Groups

\* A filter's facts rest on its own run, counts and group and on the topic.
LEMMA Frame ==
    ASSUME NEW h \in StageFilters, FilterInv(h), dlq' = dlq,
           run'[h] = run[h], replays'[h] = replays[h], cuts'[h] = cuts[h],
           committed'[replayGroupID(h)] = committed[replayGroupID(h)]
    PROVE  FilterInv(h)'
BY Zenon
      DEF FilterInv, RunInv, PastInv, TwiceInv, InHand, Past, Replayable, replayGroupID

\* What the types say about one filter.
LEMMA Typed ==
    ASSUME ReplayTypeOK, NEW f \in StageFilters
    PROVE  /\ Past(f) \in Nat /\ Past(f) <= Len(dlq) /\ Len(dlq) \in Nat /\ Len(dlq) <= MaxRecords
           /\ run[f] \in RunType
           /\ run[f].at \in Nat /\ run[f].at <= Len(dlq) + 1
           /\ run[f].dry \in BOOLEAN /\ run[f].wrote \in BOOLEAN
           /\ run[f].count \in Nat /\ run[f].count <= RunLimit
           /\ replays[f] \in [1..MaxRecords -> Nat]
           /\ cuts[f] \in Nat /\ cuts[f] <= MaxCuts
           /\ \A o \in 1..Len(dlq) : dlq[o] \in DeadLetters
<1> USE DEF ReplayTypeOK
<1>1. /\ Len(dlq) \in Nat /\ Len(dlq) <= MaxRecords
      /\ \A o \in 1..Len(dlq) : dlq[o] \in DeadLetters
  OBVIOUS
<1>2. committed[replayGroupID(f)] \in 0..Len(dlq)
  BY HasGroup
<1>3. run[f] \in RunType
  BY DEF RunType
<1>4. replays[f] \in [1..MaxRecords -> Nat] /\ cuts[f] \in 0..MaxCuts
  OBVIOUS
<1> HIDE DEF ReplayTypeOK
<1>5. /\ run[f].at \in 0..(Len(dlq) + 1) /\ run[f].count \in 0..RunLimit
      /\ run[f].dry \in BOOLEAN /\ run[f].wrote \in BOOLEAN
  BY <1>3, Zenon DEF RunType
<1>6. /\ run[f].at \in Nat /\ run[f].at <= Len(dlq) + 1
      /\ run[f].count \in Nat /\ run[f].count <= RunLimit
  BY <1>1, <1>5, ReplayConstants
<1>7. Past(f) \in Nat /\ Past(f) <= Len(dlq)
  BY <1>1, <1>2 DEF Past
<1>8. cuts[f] \in Nat /\ cuts[f] <= MaxCuts
  BY <1>4, ReplayConstants
<1> QED
  BY <1>1, <1>3, <1>4, <1>5, <1>6, <1>7, <1>8, Zenon

-----------------------------------------------------------------------------
(* Steps of one filter                                                     *)

\* What a step of filter f leaves alone.
Others(f) ==
    /\ dlq' = dlq
    /\ \A h \in StageFilters \ {f} :
          /\ run'[h] = run[h] /\ replays'[h] = replays[h] /\ cuts'[h] = cuts[h]
          /\ committed'[replayGroupID(h)] = committed[replayGroupID(h)]

\* A step of one filter that keeps its own facts keeps those of all.
LEMMA OneFilter ==
    ASSUME ReplayInv, NEW f \in StageFilters, Others(f), FilterInv(f)'
    PROVE  \A h \in StageFilters : FilterInv(h)'
<1> SUFFICES ASSUME NEW h \in StageFilters, h # f PROVE FilterInv(h)'
  OBVIOUS
<1> QED
  BY Frame DEF ReplayInv, Others

\* A commit of one group moves no other.
LEMMA CommitMovesOne ==
    \A f \in StageFilters : \A dry \in BOOLEAN :
        /\ ReplayTypeOK
        /\ run[f].at \in 1..Len(dlq)
        /\ commitReplay(f, dry)
        => /\ committed' \in [Groups -> 0..Len(dlq)]
           /\ committed'[replayGroupID(f)] = IF dry THEN Past(f) ELSE run[f].at
           /\ \A h \in StageFilters \ {f} :
                 committed'[replayGroupID(h)] = committed[replayGroupID(h)]
  \* replayGroupID gives every filter a group of its own.
<1>OwnGroup.
      ASSUME NEW f \in StageFilters, NEW h \in StageFilters, h # f
      PROVE  replayGroupID(h) # replayGroupID(f)
  BY <1>OwnGroup, FilterNames, Zenon DEF replayGroupID, Stages
<1> SUFFICES ASSUME ReplayTypeOK, NEW f \in StageFilters, NEW dry \in BOOLEAN,
                    run[f].at \in 1..Len(dlq), commitReplay(f, dry)
             PROVE  /\ committed' \in [Groups -> 0..Len(dlq)]
                    /\ committed'[replayGroupID(f)] = IF dry THEN Past(f) ELSE run[f].at
                    /\ \A h \in StageFilters \ {f} :
                          committed'[replayGroupID(h)] = committed[replayGroupID(h)]
  OBVIOUS
<1>1. committed \in [Groups -> 0..Len(dlq)] /\ Len(dlq) \in Nat
  BY DEF ReplayTypeOK
<1>2. CASE dry
  BY <1>1, <1>2 DEF commitReplay, Past
<1>3. CASE ~dry
  <2>1. committed' = [committed EXCEPT ![replayGroupID(f)] = run[f].at]
    BY <1>3 DEF commitReplay
  <2>2. \A h \in StageFilters \ {f} : replayGroupID(h) # replayGroupID(f)
    BY <1>OwnGroup
  <2> QED
    BY <1>1, <1>3, <2>1, <2>2, HasGroup
<1> QED
  BY <1>2, <1>3

-----------------------------------------------------------------------------
(* One lemma per action                                                    *)

\* The types survive a step that keeps the topic and what was sent.
LEMMA TypeStep ==
    ASSUME ReplayTypeOK, UNCHANGED <<used, dlq, sent>>, mended' \in BOOLEAN,
           committed' \in [Groups -> 0..Len(dlq)], run' \in [StageFilters -> RunType],
           replays' \in [StageFilters -> [1..MaxRecords -> Nat]], cuts' \in [StageFilters -> 0..MaxCuts]
    PROVE  ReplayTypeOK'
BY DEF ReplayTypeOK, RunType

\* Malformed, undecodable and foreign records, and what a dry run shows.
LEMMA PassStep ==
    \A f \in StageFilters :
        /\ ReplayInv
        /\ SkipMalformed(f) \/ SkipOtherStage(f) \/ Inspect(f) \/ SkipInvalid(f)
        => ReplayInv'
  \* A run that moves on by one record.
<1>MovesOn.
      ASSUME ReplayTypeOK, NEW f \in StageFilters, run[f].at \in 1..Len(dlq), Skip(f)
      PROVE  /\ run' \in [StageFilters -> RunType]
             /\ run'[f].at = run[f].at + 1 /\ run'[f].dry = run[f].dry
             /\ run'[f].wrote = run[f].wrote /\ run'[f].count = run[f].count
             /\ \A h \in StageFilters \ {f} : run'[h] = run[h]
  <2> USE <1>MovesOn
  <2>1. run \in [StageFilters -> RunType] /\ run[f] \in RunType
    BY DEF ReplayTypeOK, RunType
  <2>2. Len(dlq) \in Nat /\ run[f].at + 1 \in 0..(Len(dlq) + 1)
    BY Typed
  <2> DEFINE new == [run[f] EXCEPT !.at = @ + 1]
  <2>3. /\ new \in RunType /\ new.at = run[f].at + 1 /\ new.dry = run[f].dry
        /\ new.wrote = run[f].wrote /\ new.count = run[f].count
    BY <2>1, <2>2, Zenon DEF RunType
  <2>4. run' = [run EXCEPT ![f] = new]
    BY DEF Skip
  <2> HIDE DEF new
  <2> QED
    BY <2>1, <2>3, <2>4
  \* A run passes a record no replay of its stage is due for: malformed or
  \* undecodable ones, which a real run commits, and those of other stages.
<1>PassInv.
      ASSUME ReplayInv, NEW f \in StageFilters, Fetching(f), ~Replayable(f, run[f].at) \/ run[f].dry,
             run'[f].at = run[f].at + 1, run'[f].dry = run[f].dry, run'[f].wrote = FALSE,
             dlq' = dlq, replays' = replays, cuts' = cuts,
             \/ committed'[replayGroupID(f)] = Past(f)
             \/ ~run[f].dry /\ committed'[replayGroupID(f)] = run[f].at
      PROVE  FilterInv(f)'
  <2> USE <1>PassInv
  <2> DEFINE g == replayGroupID(f)
  <2>1. FilterInv(f) /\ ReplayTypeOK
    BY DEF ReplayInv
  <2>2. /\ run[f].at \in 1..Len(dlq) /\ ~run[f].wrote
        /\ Past(f) \in Nat /\ Past(f) <= Len(dlq) /\ Len(dlq) \in Nat /\ Len(dlq) <= MaxRecords
        /\ replays[f] \in [1..MaxRecords -> Nat] /\ cuts[f] \in Nat
    BY <2>1, Typed DEF Fetching
  <2>3. \A o \in 1..Len(dlq) : Replayable(f, o)' <=> Replayable(f, o)
    BY Zenon DEF Replayable
  <2>4. Past(f)' = committed'[g]
    BY Zenon DEF Past, replayGroupID
  <2>5. Past(f) < run[f].at
    <3>1. run[f].at > 0
      BY <2>2
    <3> QED
      BY <2>1, <3>1, Zenon DEF FilterInv, RunInv
  <2>6. RunInv(f)'
    <3>1. Past(f)' < run'[f].at
      BY <2>2, <2>4, <2>5
    <3>2. \A o \in 1..Len(dlq) : o < run'[f].at => o < run[f].at \/ o = run[f].at
      BY <2>2
    <3>3. RunInv(f)
      BY <2>1, Zenon DEF FilterInv
    <3> QED
      BY <2>3, <3>1, <3>2, <3>3, Zenon DEF RunInv
  <2>7. PastInv(f)'
    BY <2>1, <2>2, <2>3, <2>4, <2>5 DEF FilterInv, RunInv, PastInv
  <2>8. TwiceInv(f)'
    <3> SUFFICES ASSUME NEW o \in 1..MaxRecords
                 PROVE  /\ replays[f][o] <= 1 + cuts[f]
                        /\ o > Past(f)' => replays[f][o] <= cuts[f] + InHand(f, o)'
      BY DEF TwiceInv
    <3>1. InHand(f, o) = 0 /\ InHand(f, o)' = 0
      BY <2>2 DEF InHand
    <3>2. /\ replays[f][o] \in Nat /\ replays[f][o] <= 1 + cuts[f]
          /\ o > Past(f) => replays[f][o] <= cuts[f] + InHand(f, o)
      BY <2>1, <2>2, Zenon DEF FilterInv, TwiceInv
    <3>3. Past(f)' \in Nat /\ Past(f)' >= Past(f)
      BY <2>2, <2>4, <2>5
    <3> QED
      BY <2>2, <3>1, <3>2, <3>3, ReplayConstants
  <2> QED
    BY <2>6, <2>7, <2>8 DEF FilterInv
<1> SUFFICES ASSUME ReplayInv, NEW f \in StageFilters,
                    SkipMalformed(f) \/ SkipOtherStage(f) \/ Inspect(f) \/ SkipInvalid(f)
             PROVE  ReplayInv'
  OBVIOUS
<1> USE DEF ReplayInv
<1>1. Fetching(f) /\ run[f].at \in 1..Len(dlq) /\ ~run[f].wrote /\ run[f].count < RunLimit
  BY Zenon DEF SkipMalformed, SkipOtherStage, Inspect, SkipInvalid, Chosen, Matched,
              Decoded, Fetching
<1>2. UNCHANGED <<used, dlq, sent, replays, cuts, mended>>
  BY Zenon DEF SkipMalformed, SkipOtherStage, Inspect, SkipInvalid
<1>3. ~Replayable(f, run[f].at) \/ run[f].dry
  BY Zenon
  DEF SkipMalformed, SkipOtherStage, Inspect, SkipInvalid, Chosen, Matched, Decoded,
         Fetching, Fetched, Replayable
<1>4. /\ run' \in [StageFilters -> RunType]
      /\ run'[f].at = run[f].at + 1 /\ run'[f].dry = run[f].dry
      /\ run'[f].wrote = FALSE
      /\ \A h \in StageFilters \ {f} : run'[h] = run[h]
  <2>1. CASE Skip(f)
    BY <1>1, <2>1, <1>MovesOn, Typed
  <2>2. CASE Inspect(f)
    <3>1. run \in [StageFilters -> RunType] /\ run[f] \in RunType
      BY DEF ReplayTypeOK, RunType
    <3>2. run[f].at + 1 \in 0..(Len(dlq) + 1) /\ run[f].count + 1 \in 0..RunLimit
      <4>1. Len(dlq) \in Nat /\ run[f].count \in Nat
        BY Typed
      <4> QED
        BY <1>1, <4>1, ReplayConstants, SMTT(30)
    <3> DEFINE new == [run[f] EXCEPT !.at = @ + 1, !.count = @ + 1]
    <3>3. /\ new \in RunType /\ new.at = run[f].at + 1 /\ new.dry = run[f].dry
          /\ new.wrote = run[f].wrote
      BY <3>1, <3>2, Zenon DEF RunType
    <3>4. run' = [run EXCEPT ![f] = new]
      BY <2>2, Zenon DEF Inspect
    <3>5. run[f].wrote = FALSE
      BY <1>1, Typed
    <3> HIDE DEF new
    <3> QED
      BY <3>1, <3>3, <3>4, <3>5
  <2> QED
    BY <2>1, <2>2, Zenon DEF SkipMalformed, SkipOtherStage, SkipInvalid
<1>5. /\ committed' \in [Groups -> 0..Len(dlq)]
      /\ \/ committed'[replayGroupID(f)] = Past(f)
         \/ ~run[f].dry /\ committed'[replayGroupID(f)] = run[f].at
      /\ \A h \in StageFilters \ {f} :
            committed'[replayGroupID(h)] = committed[replayGroupID(h)]
  <2>1. CASE committed' = committed
    BY <2>1, Zenon DEF Past, ReplayTypeOK
  <2>2. CASE commitReplay(f, run[f].dry)
    BY <1>1, <2>2, CommitMovesOne, Typed
  <2>3. CASE SkipInvalid(f)
    <3>1. commitReplay(f, FALSE) /\ ~run[f].dry
      BY <2>3, Zenon DEF SkipInvalid, Chosen
    <3> QED
      BY <1>1, <3>1, CommitMovesOne, Zenon
  <2> QED
    BY <2>1, <2>2, <2>3 DEF SkipMalformed, SkipOtherStage, Inspect
<1>6. FilterInv(f)'
  BY <1>1, <1>2, <1>3, <1>4, <1>5, <1>PassInv, Zenon
<1>7. \A h \in StageFilters : FilterInv(h)'
  BY <1>2, <1>4, <1>5, <1>6, OneFilter DEF Others
<1>8. ReplayTypeOK'
  BY <1>2, <1>4, <1>5, TypeStep, Zenon DEF ReplayTypeOK
<1>9. StampInv'
  BY <1>2 DEF StampInv, Stamped
<1> QED
  BY <1>7, <1>8, <1>9

\* A run that ends, for whatever reason, but for a cut between write and commit.
LEMMA EndStep ==
    ASSUME ReplayInv, NEW f \in StageFilters, ~run[f].wrote,
           run' = [run EXCEPT ![f] = NoRun],
           UNCHANGED <<used, dlq, sent, committed, replays, cuts>>, mended' \in BOOLEAN
    PROVE  ReplayInv'
<1> USE DEF ReplayInv
<1>1. NoRun \in RunType
  BY Typed, ReplayConstants DEF NoRun, RunType
<1>2. /\ run' \in [StageFilters -> RunType] /\ run'[f] = NoRun
      /\ \A h \in StageFilters \ {f} : run'[h] = run[h]
  BY <1>1 DEF ReplayTypeOK, RunType
<1>3. ReplayTypeOK'
  BY <1>2, TypeStep, Zenon DEF ReplayTypeOK
<1>4. FilterInv(f)'
  <2>1. FilterInv(f) /\ Len(dlq) \in Nat
    BY Typed, Zenon
  <2>2. RunInv(f)'
    BY <1>2, <2>1 DEF RunInv, NoRun
  <2>3. PastInv(f)'
    BY <2>1, Zenon DEF FilterInv, PastInv, Past, Replayable, replayGroupID
  <2>4. \A o : InHand(f, o) = 0 /\ InHand(f, o)' = 0
    BY <1>2 DEF InHand, NoRun
  <2>5. TwiceInv(f)'
    BY <2>1, <2>4, Zenon DEF FilterInv, TwiceInv, Past, replayGroupID
  <2> QED
    BY <2>2, <2>3, <2>5 DEF FilterInv
<1>5. \A h \in StageFilters : FilterInv(h)'
  BY <1>2, <1>4, OneFilter DEF Others
<1>6. StampInv'
  BY DEF StampInv, Stamped
<1> QED
  BY <1>3, <1>5, <1>6

\* A run starts behind the position of its group.
LEMMA BeginStep ==
    ASSUME ReplayInv, NEW f \in StageFilters, NEW dry \in BOOLEAN, BeginReplay(f, dry)
    PROVE  ReplayInv'
<1> USE DEF ReplayInv
<1>1. UNCHANGED <<used, dlq, sent, committed, replays, cuts, mended>>
  BY DEF BeginReplay
<1> DEFINE new == [at |-> Past(f) + 1, dry |-> dry, count |-> 0, wrote |-> FALSE]
<1>2. run' = [run EXCEPT ![f] = new]
  BY DEF BeginReplay, Past
<1>3. /\ Past(f) \in Nat /\ Past(f) <= Len(dlq) /\ Len(dlq) \in Nat
      /\ Past(f)' = Past(f) /\ run[f].at = 0
      /\ run[f].wrote \in BOOLEAN
  <2>1. run[f].at = 0
    BY DEF BeginReplay
  <2>2. Past(f)' = Past(f)
    BY <1>1 DEF Past, replayGroupID
  <2> QED
    BY <2>1, <2>2, Typed
<1>4. new \in RunType
  BY <1>3, ReplayConstants DEF RunType
<1>5. /\ run' \in [StageFilters -> RunType] /\ run'[f] = new
      /\ \A h \in StageFilters \ {f} : run'[h] = run[h]
  BY <1>2, <1>4, Zenon DEF ReplayTypeOK, RunType
<1>6. ReplayTypeOK'
  BY <1>1, <1>5, TypeStep, Zenon DEF ReplayTypeOK
<1>7. FilterInv(f)'
  <2>1. FilterInv(f)
    OBVIOUS
  <2>2. RunInv(f)'
    <3>1. run'[f].at = Past(f) + 1 /\ run'[f].wrote = FALSE
      BY <1>5
    <3>2. \A o \in 1..Len(dlq) : o < Past(f) + 1 /\ Replayable(f, o) => replays[f][o] > 0
      BY <1>3, <2>1 DEF FilterInv, PastInv
    <3>3. \A o \in 1..Len(dlq) : Replayable(f, o)' <=> Replayable(f, o)
      BY <1>1 DEF Replayable
    <3> QED
      BY <1>1, <1>3, <3>1, <3>2, <3>3 DEF RunInv
  <2>3. PastInv(f)'
    BY <1>1, <1>3, <2>1, Zenon DEF FilterInv, PastInv, Replayable
  <2>4. ~run[f].wrote
    BY <1>3, <2>1 DEF FilterInv, RunInv
  <2>5. \A o : InHand(f, o) = 0 /\ InHand(f, o)' = 0
    BY <1>5, <2>4 DEF InHand
  <2>6. TwiceInv(f)'
    <3>1. replays'[f] = replays[f] /\ cuts'[f] = cuts[f]
      BY <1>1
    <3> QED
      BY <1>3, <2>1, <2>5, <3>1 DEF FilterInv, TwiceInv
  <2> QED
    BY <2>2, <2>3, <2>6 DEF FilterInv
<1>8. \A h \in StageFilters : FilterInv(h)'
  BY <1>1, <1>5, <1>7, OneFilter, ZenonT(30) DEF Others
<1>9. StampInv'
  BY <1>1, Zenon DEF StampInv, Stamped
<1> QED
  BY <1>6, <1>8, <1>9

\* The record after the write: the group moves to it.
LEMMA CommitStep ==
    ASSUME ReplayInv, NEW f \in StageFilters, CommitReplayed(f)
    PROVE  ReplayInv'
<1> USE DEF ReplayInv
<1>1. UNCHANGED <<used, dlq, sent, replays, cuts, mended>>
  BY DEF CommitReplayed
<1>2. /\ FilterInv(f) /\ run[f].wrote /\ ~run[f].dry /\ run[f].at \in 1..Len(dlq)
      /\ run[f].count < RunLimit /\ replays[f][run[f].at] > 0
  BY Zenon DEF CommitReplayed, FilterInv, RunInv
<1>3. /\ Past(f) \in Nat /\ Len(dlq) \in Nat /\ Len(dlq) <= MaxRecords /\ run[f].count \in Nat
      /\ replays[f] \in [1..MaxRecords -> Nat] /\ cuts[f] \in Nat /\ Past(f) < run[f].at
      /\ run[f] \in RunType
  <2>1. run[f].at > 0
    BY <1>2
  <2>2. Past(f) < run[f].at
    BY <1>2, <2>1, Zenon DEF FilterInv, RunInv
  <2> QED
    BY <2>2, Typed, Zenon
<1>4. /\ committed' \in [Groups -> 0..Len(dlq)]
      /\ committed'[replayGroupID(f)] = run[f].at
      /\ \A h \in StageFilters \ {f} :
            committed'[replayGroupID(h)] = committed[replayGroupID(h)]
  BY <1>2, CommitMovesOne, Zenon DEF CommitReplayed
<1>5. Past(f)' = run[f].at
  BY <1>4, Zenon DEF Past, replayGroupID
<1> DEFINE new == [run[f] EXCEPT !.at = @ + 1, !.count = @ + 1, !.wrote = FALSE]
<1>6. /\ new \in RunType /\ new.at = run[f].at + 1 /\ new.dry = run[f].dry
      /\ new.wrote = FALSE
  <2>1. run[f].at + 1 \in 0..(Len(dlq) + 1)
    BY <1>2, <1>3
  <2>2. run[f].count + 1 \in 0..RunLimit
    <3>1. run[f].count \in Nat /\ run[f].count < RunLimit
      BY <1>2, <1>3
    <3> QED
      BY <3>1, ReplayConstants
  <2> QED
    BY <1>3, <2>1, <2>2, Zenon DEF RunType
<1>7. run' = [run EXCEPT ![f] = new]
  BY Zenon DEF CommitReplayed
<1> HIDE DEF new
<1>8. /\ run' \in [StageFilters -> RunType] /\ run'[f] = new
      /\ \A h \in StageFilters \ {f} : run'[h] = run[h]
  BY <1>6, <1>7 DEF ReplayTypeOK, RunType
<1>9. ReplayTypeOK'
  BY <1>1, <1>4, <1>8, TypeStep, Zenon DEF ReplayTypeOK
<1>10. \A o \in 1..Len(dlq) : (Replayable(f, o)' <=> Replayable(f, o))
  BY <1>1, Zenon DEF Replayable
<1>11. \A o \in 1..Len(dlq) : o <= run[f].at /\ Replayable(f, o) => replays[f][o] > 0
  <2>1. RunInv(f)
    BY <1>2, Zenon DEF FilterInv
  <2>2. \A o \in 1..Len(dlq) : o <= run[f].at => o < run[f].at \/ o = run[f].at
    BY <1>2, <1>3
  <2> QED
    BY <1>2, <2>1, <2>2, Zenon DEF RunInv
<1>12. RunInv(f)'
  BY <1>1, <1>2, <1>3, <1>5, <1>6, <1>8, <1>10, <1>11 DEF RunInv
<1>13. PastInv(f)'
  BY <1>1, <1>2, <1>3, <1>5, <1>10, <1>11 DEF PastInv
<1>14. TwiceInv(f)'
  <2> SUFFICES ASSUME NEW o \in 1..MaxRecords
               PROVE  /\ replays[f][o] <= 1 + cuts[f]
                      /\ o > run[f].at => replays[f][o] <= cuts[f] + InHand(f, o)'
    BY <1>1, <1>5, Zenon DEF TwiceInv
  <2>1. InHand(f, o)' = 0 /\ (o > run[f].at => InHand(f, o) = 0)
    BY <1>2, <1>3, <1>6, <1>8 DEF InHand
  <2>2. /\ replays[f][o] <= 1 + cuts[f]
        /\ o > Past(f) => replays[f][o] <= cuts[f] + InHand(f, o)
    BY <1>2 DEF FilterInv, TwiceInv
  <2> QED
    BY <1>2, <1>3, <2>1, <2>2, ReplayConstants, SMTT(30)
<1>15. FilterInv(f)'
  BY <1>12, <1>13, <1>14 DEF FilterInv
<1>16. \A h \in StageFilters : FilterInv(h)'
  BY <1>1, <1>4, <1>8, <1>15, OneFilter, Zenon DEF Others
<1>17. StampInv'
  BY <1>1 DEF StampInv, Stamped
<1> QED
  BY <1>9, <1>16, <1>17

\* A record is written for replay: it is in hand, and what was sent is stamped.
LEMMA WriteStep ==
    ASSUME ReplayInv, NEW f \in StageFilters, ReplayRecord(f)
    PROVE  ReplayInv'
  \* The time a replay sends is one of the record's own times.
<1>PayloadTime.
      ASSUME NEW item \in DeadLetters, MaxRecords > 0
      PROVE  /\ replayKafkaPayload(item) \in 0..MaxRecords
             /\ replayKafkaPayload(item) > 0 => item.form # "unusable"
  <2> USE <1>PayloadTime
  <2>1. /\ item.received \in 0..MaxRecords /\ item.occurred \in 0..MaxRecords
        /\ item.ts \in 0..1
    BY DEF DeadLetters
  <2>2. replayReceivedAt(item) \in 0..MaxRecords
    BY <2>1, ReplayConstants DEF replayReceivedAt
  <2>3. CASE item.form = "unusable" \/ item.stage = "mqtt.decode"
    <3>1. replayKafkaPayload(item) = 0
      BY <2>3 DEF replayKafkaPayload
    <3> QED
      BY <3>1, ReplayConstants
  <2>4. CASE ~(item.form = "unusable" \/ item.stage = "mqtt.decode")
    BY <2>1, <2>2, <2>4 DEF replayKafkaPayload
  <2> QED
    BY <2>3, <2>4
  \* One count of an array goes up.
<1>CountUp.
      ASSUME NEW N \in Nat, NEW counts \in [1..N -> Nat], NEW k \in 1..N
      PROVE  LET new == [counts EXCEPT ![k] = @ + 1]
             IN  /\ new \in [1..N -> Nat] /\ new[k] = counts[k] + 1 /\ new[k] > 0
                 /\ \A o \in (1..N) \ {k} : new[o] = counts[o]
                 /\ \A o \in 1..N : counts[o] > 0 => new[o] > 0
  OBVIOUS
<1> USE DEF ReplayInv
<1> DEFINE item == Fetched(f)
           time == replayKafkaPayload(item)
           copy == [item EXCEPT !.stage = "telemetry.postgres", !.received = time, !.first = time]
<1>1. UNCHANGED <<used, dlq, committed, cuts, mended>>
  BY DEF ReplayRecord
<1>2. /\ run[f].at \in 1..Len(dlq) /\ ~run[f].wrote /\ ~run[f].dry
      /\ run[f].count < RunLimit
  BY Zenon DEF ReplayRecord, Chosen, Matched, Decoded, Fetching
<1>3. run[f] \in RunType /\ item \in DeadLetters
  BY <1>2, Typed, Zenon DEF Fetched
<1>4. /\ FilterInv(f) /\ Past(f) < run[f].at
      /\ Past(f) \in Nat /\ Len(dlq) \in Nat /\ Len(dlq) <= MaxRecords
      /\ run[f].at \in 1..MaxRecords
      /\ replays[f] \in [1..MaxRecords -> Nat] /\ cuts[f] \in Nat
  <2>1. FilterInv(f) /\ Past(f) < run[f].at
    <3>1. run[f].at > 0
      BY <1>2
    <3> QED
      BY <3>1, Zenon DEF FilterInv, RunInv
  <2>2. /\ Past(f) \in Nat /\ Len(dlq) \in Nat /\ Len(dlq) <= MaxRecords
        /\ replays[f] \in [1..MaxRecords -> Nat] /\ cuts[f] \in Nat
    BY Typed, Zenon
  <2>3. run[f].at \in 1..MaxRecords
    BY <1>2, <2>2, ReplayConstants
  <2> QED
    BY <2>1, <2>2, <2>3, Zenon
<1>5. Past(f)' = Past(f)
  BY <1>1 DEF Past, replayGroupID
<1> DEFINE new == [run[f] EXCEPT !.wrote = TRUE]
<1>6. /\ new \in RunType /\ new.at = run[f].at /\ new.dry = run[f].dry
      /\ new.count = run[f].count /\ new.wrote = TRUE
  BY <1>3, Zenon DEF RunType
<1>7. run' = [run EXCEPT ![f] = new]
  BY DEF ReplayRecord
<1> HIDE DEF new
<1>8. /\ run' \in [StageFilters -> RunType] /\ run'[f] = new
      /\ \A h \in StageFilters \ {f} : run'[h] = run[h]
  BY <1>6, <1>7 DEF ReplayTypeOK, RunType
<1> DEFINE counts == [replays[f] EXCEPT ![run[f].at] = @ + 1]
<1>9. /\ counts \in [1..MaxRecords -> Nat]
      /\ counts[run[f].at] = replays[f][run[f].at] + 1 /\ counts[run[f].at] > 0
      /\ \A o \in (1..MaxRecords) \ {run[f].at} : counts[o] = replays[f][o]
      /\ \A o \in 1..MaxRecords : replays[f][o] > 0 => counts[o] > 0
  BY <1>4, <1>CountUp, ReplayConstants, ZenonT(30)
<1>10. replays' = [replays EXCEPT ![f] = counts]
  BY DEF ReplayRecord
<1> HIDE DEF counts
<1>11. /\ replays' \in [StageFilters -> [1..MaxRecords -> Nat]] /\ replays'[f] = counts
       /\ \A h \in StageFilters \ {f} : replays'[h] = replays[h]
  BY <1>9, <1>10 DEF ReplayTypeOK
<1>12. RunInv(f)'
  <2>1. \A o \in 1..Len(dlq) : Replayable(f, o)' <=> Replayable(f, o)
    BY <1>1, Zenon DEF Replayable
  <2>2. \A o \in 1..Len(dlq) : o < run[f].at /\ Replayable(f, o) => counts[o] > 0
    <3>1. \A o \in 1..Len(dlq) : o < run[f].at /\ Replayable(f, o) => replays[f][o] > 0
      BY <1>2, <1>4, Zenon DEF FilterInv, RunInv
    <3>2. \A o \in 1..Len(dlq) : o \in 1..MaxRecords
      BY <1>4, ReplayConstants
    <3> QED
      BY <1>9, <3>1, <3>2, Zenon
  <2> QED
    BY <1>1, <1>2, <1>4, <1>5, <1>6, <1>8, <1>9, <1>11, <2>1, <2>2, SMTT(30) DEF RunInv
<1>13. PastInv(f)'
  <2>1. \A o \in 1..Past(f) : o \in (1..MaxRecords) \ {run[f].at}
    BY <1>4, ReplayConstants
  <2> QED
    BY <1>1, <1>4, <1>5, <1>9, <1>11, <2>1, Zenon DEF PastInv, FilterInv, Replayable
<1>14. TwiceInv(f)'
  <2> SUFFICES ASSUME NEW o \in 1..MaxRecords
               PROVE  /\ counts[o] <= 1 + cuts[f]
                      /\ o > Past(f) => counts[o] <= cuts[f] + InHand(f, o)'
    BY <1>1, <1>5, <1>11 DEF TwiceInv
  <2>1. InHand(f, o) = 0 /\ InHand(f, o)' = IF o = run[f].at THEN 1 ELSE 0
    BY <1>2, <1>6, <1>8, Zenon DEF InHand
  <2>2. /\ replays[f][o] <= 1 + cuts[f]
        /\ o > Past(f) => replays[f][o] <= cuts[f] + InHand(f, o)
    BY <1>4 DEF FilterInv, TwiceInv
  <2>3. replays[f][o] \in Nat /\ cuts[f] \in Nat
    BY <1>4, Zenon
  <2>4. CASE o = run[f].at
    <3>1. counts[o] = replays[f][o] + 1 /\ o > Past(f)
      BY <1>4, <1>9, <2>4, Zenon
    <3>2. replays[f][o] <= cuts[f]
      BY <2>1, <2>2, <2>3, <3>1
    <3>3. InHand(f, o)' = 1
      BY <2>1, <2>4, Zenon
    <3> QED
      BY <2>3, <3>1, <3>2, <3>3
  <2>5. CASE o # run[f].at
    <3>1. counts[o] = replays[f][o]
      BY <1>9, <2>5, Zenon
    <3> QED
      BY <2>1, <2>2, <2>3, <2>5, <3>1, Zenon
  <2> QED
    BY <2>4, <2>5
<1>15. \A h \in StageFilters : FilterInv(h)'
  <2>1. FilterInv(f)'
    BY <1>12, <1>13, <1>14 DEF FilterInv
  <2> QED
    BY <1>1, <1>8, <1>11, <2>1, OneFilter DEF Others
<1>16. sent' \in Seq(DeadLetters) /\ \A i \in 1..Len(sent') : Stamped(sent'[i])
  <2>1. CASE item.stage = "command.ack"
    BY <2>1 DEF ReplayRecord, ReplayTypeOK, StampInv
  <2>2. CASE item.stage # "command.ack"
    <3>1. sent' = Append(sent, copy) /\ time > 0
      BY <2>2 DEF ReplayRecord, Plannable
    <3>2. time \in 0..MaxRecords /\ item.form # "unusable"
      <4>1. MaxRecords > 0
        BY <1>4, ReplayConstants
      <4> QED
        BY <1>3, <3>1, <4>1, <1>PayloadTime
    <3>3. /\ copy \in DeadLetters /\ copy.stage = "telemetry.postgres"
          /\ copy.received = copy.first /\ copy.form = item.form
      <4> HIDE DEF item, time
      <4> QED
        BY <1>3, <3>2, Zenon DEF DeadLetters, Stages
    <3> HIDE DEF copy
    <3>4. Stamped(copy)
      BY <3>2, <3>3, Zenon DEF Stamped
    <3>5. sent \in Seq(DeadLetters) /\ \A i \in 1..Len(sent) : Stamped(sent[i])
      BY DEF ReplayTypeOK, StampInv
    <3> QED
      BY <3>1, <3>3, <3>4, <3>5
  <2> QED
    BY <2>1, <2>2
<1>17. ReplayTypeOK'
  BY <1>1, <1>8, <1>11, <1>16, Zenon DEF ReplayTypeOK, RunType
<1>18. StampInv'
  BY <1>1, <1>16 DEF StampInv, Stamped
<1> QED
  BY <1>15, <1>17, <1>18

\* A run is cut after its write: the record will be replayed once more.
LEMMA CutStep ==
    ASSUME ReplayInv, NEW f \in StageFilters, Cut(f)
    PROVE  ReplayInv'
<1> USE DEF ReplayInv
<1>1. /\ run' = [run EXCEPT ![f] = NoRun]
      /\ UNCHANGED <<used, dlq, sent, committed, replays, mended>>
  BY DEF Cut
<1>2. CASE ~run[f].wrote
  <2>1. cuts' = cuts
    BY <1>2, Zenon DEF Cut, ReplayTypeOK
  <2> QED
    BY <1>1, <1>2, <2>1, EndStep, Zenon DEF ReplayTypeOK
<1>3. CASE run[f].wrote
  <2>1. /\ FilterInv(f) /\ Past(f) \in Nat /\ Len(dlq) \in Nat /\ cuts[f] \in Nat
        /\ replays[f] \in [1..MaxRecords -> Nat]
    BY Typed
  <2>2. cuts[f] < MaxCuts /\ cuts' = [cuts EXCEPT ![f] = cuts[f] + 1]
    BY <1>3 DEF Cut
  <2>3. cuts[f] + 1 \in 0..MaxCuts
    BY <2>1, <2>2, ReplayConstants
  <2>4. /\ cuts' \in [StageFilters -> 0..MaxCuts] /\ cuts'[f] = cuts[f] + 1
        /\ \A h \in StageFilters \ {f} : cuts'[h] = cuts[h]
    BY <2>2, <2>3, Zenon DEF ReplayTypeOK
  <2>5. NoRun \in RunType
    BY <2>1, ReplayConstants DEF NoRun, RunType
  <2>6. /\ run' \in [StageFilters -> RunType] /\ run'[f] = NoRun
        /\ \A h \in StageFilters \ {f} : run'[h] = run[h]
    BY <1>1, <2>5 DEF ReplayTypeOK, RunType
  <2>7. ReplayTypeOK'
    BY <1>1, <2>4, <2>6, TypeStep, Zenon DEF ReplayTypeOK
  <2>8. Past(f)' = Past(f)
    BY <1>1, Zenon DEF Past, replayGroupID
  <2>9. RunInv(f)'
    BY <1>1, <2>1, <2>6 DEF RunInv, NoRun
  <2>10. PastInv(f)'
    BY <1>1, <2>1, <2>8, Zenon DEF FilterInv, PastInv, Replayable
  <2>11. TwiceInv(f)'
    <3> SUFFICES ASSUME NEW o \in 1..MaxRecords
                 PROVE  /\ replays[f][o] <= 1 + (cuts[f] + 1)
                        /\ o > Past(f) => replays[f][o] <= (cuts[f] + 1) + InHand(f, o)'
      BY <1>1, <2>4, <2>8, Zenon DEF TwiceInv
    <3>1. InHand(f, o) \in {0, 1} /\ InHand(f, o)' = 0
      BY <2>6 DEF InHand, NoRun
    <3>2. /\ replays[f][o] \in Nat /\ replays[f][o] <= 1 + cuts[f]
          /\ o > Past(f) => replays[f][o] <= cuts[f] + InHand(f, o)
      BY <2>1, Zenon DEF FilterInv, TwiceInv
    <3> QED
      BY <2>1, <3>1, <3>2, SMTT(30)
  <2>12. \A h \in StageFilters : FilterInv(h)'
    <3>1. FilterInv(f)'
      BY <2>9, <2>10, <2>11 DEF FilterInv
    <3> QED
      BY <1>1, <2>4, <2>6, <3>1, OneFilter, Zenon DEF Others
  <2>13. StampInv'
    BY <1>1 DEF StampInv, Stamped
  <2> QED
    BY <2>7, <2>12, <2>13
<1> QED
  BY <1>2, <1>3

\* The worker takes what was replayed, and may dead-letter it again.
LEMMA ConsumeStep ==
    ASSUME ReplayInv, Consume
    PROVE  ReplayInv'
  \* The topic grows by a record no run has passed yet.
<1>GrowInv.
      ASSUME ReplayInv, NEW f \in StageFilters, NEW item \in DeadLetters, dlq' = Append(dlq, item),
             UNCHANGED <<committed, run, replays, cuts>>
      PROVE  FilterInv(f)'
  <2> USE <1>GrowInv
  <2> USE DEF ReplayInv
  <2>1. /\ FilterInv(f) /\ Past(f) \in Nat /\ Past(f) <= Len(dlq) /\ Len(dlq) \in Nat
        /\ run[f].at \in Nat /\ run[f].at <= Len(dlq) + 1
    BY Typed
  <2>2. Past(f)' = Past(f)
    BY Zenon DEF Past, replayGroupID
  <2>3. /\ Len(dlq') = Len(dlq) + 1
        /\ \A o \in 1..Len(dlq) : dlq'[o] = dlq[o]
    BY DEF ReplayTypeOK
  <2>4. \A o \in 1..Len(dlq) : Replayable(f, o)' <=> Replayable(f, o)
    BY <2>3, Zenon DEF Replayable
  <2>5. RunInv(f)'
    <3>1. run'[f] = run[f] /\ replays'[f] = replays[f]
      BY Zenon
    <3>2. RunInv(f)
      BY <2>1, Zenon DEF FilterInv
    <3>3. \A o \in 1..Len(dlq') : o < run[f].at => o \in 1..Len(dlq)
      BY <2>1, <2>3
    <3>4. \A o \in 1..Len(dlq) : o \in 1..Len(dlq')
      BY <2>1, <2>3
    <3> QED
      BY <2>2, <2>4, <3>1, <3>2, <3>3, <3>4, Zenon DEF RunInv
  <2>6. PastInv(f)'
    BY <2>1, <2>2, <2>4, SMTT(60) DEF FilterInv, PastInv
  <2>7. TwiceInv(f)'
    BY <2>1, <2>2, Zenon DEF FilterInv, TwiceInv, InHand
  <2> QED
    BY <2>5, <2>6, <2>7, Zenon DEF FilterInv
<1> USE DEF ReplayInv
<1>1. /\ sent # <<>> /\ sent' = Tail(sent) /\ sent \in Seq(DeadLetters)
      /\ UNCHANGED <<used, committed, run, replays, cuts, mended>>
  BY DEF Consume, ReplayTypeOK
<1>2. sent' \in Seq(DeadLetters) /\ \A i \in 1..Len(sent') : Stamped(sent'[i])
  <2>1. \A i \in 1..Len(sent) : Stamped(sent[i])
    BY DEF StampInv
  <2>2. /\ Tail(sent) \in Seq(DeadLetters) /\ Len(Tail(sent)) = Len(sent) - 1
        /\ \A i \in 1..Len(Tail(sent)) : Tail(sent)[i] = sent[i + 1] /\ i + 1 \in 1..Len(sent)
    BY <1>1
  <2> QED
    BY <1>1, <2>1, <2>2
<1>3. CASE dlq' = dlq
  <2>1. ReplayTypeOK'
    BY <1>1, <1>2, <1>3, Zenon DEF ReplayTypeOK
  <2>2. StampInv'
    BY <1>2, <1>3, Zenon DEF StampInv, Stamped
  <2>3. \A f \in StageFilters : FilterInv(f)'
    BY <1>1, <1>3, Frame
  <2> QED
    BY <2>1, <2>2, <2>3
<1>4. CASE /\ Len(dlq) < MaxRecords
           /\ dlq' = Append(dlq, [Head(sent) EXCEPT !.occurred = Len(dlq) + 1])
  <2> DEFINE item == [Head(sent) EXCEPT !.occurred = Len(dlq) + 1]
  <2>1. dlq \in Seq(DeadLetters) /\ Len(dlq) \in Nat
    BY DEF ReplayTypeOK
  <2>2. Head(sent) \in DeadLetters /\ Stamped(Head(sent))
    BY <1>1 DEF StampInv
  <2>3. Len(dlq) + 1 \in 0..MaxRecords
    BY <1>4, <2>1, ReplayConstants
  <2>4. item \in DeadLetters
    BY <2>2, <2>3 DEF DeadLetters
  <2>5. Stamped(item)
    BY <2>2 DEF Stamped, DeadLetters
  <2>6. dlq' = Append(dlq, item)
    BY <1>4
  <2> HIDE DEF item
  <2>7. /\ dlq' \in Seq(DeadLetters) /\ Len(dlq') = Len(dlq) + 1 /\ dlq'[Len(dlq) + 1] = item
        /\ \A o \in 1..Len(dlq) : dlq'[o] = dlq[o]
    BY <2>1, <2>4, <2>6
  <2>8. StampInv'
    <3>1. \A o \in 1..Len(dlq') : Stamped(dlq'[o])
      <4>1. \A o \in 1..Len(dlq) : Stamped(dlq[o])
        BY DEF StampInv
      <4>2. \A o \in 1..Len(dlq') : o \in 1..Len(dlq) \/ o = Len(dlq) + 1
        BY <2>1, <2>7
      <4> QED
        BY <2>5, <2>7, <4>1, <4>2
    <3> QED
      BY <1>2, <3>1 DEF StampInv, Stamped
  <2>9. ReplayTypeOK'
    <3>1. committed' \in [Groups -> 0..Len(dlq')]
      BY <1>1, <2>1, <2>7 DEF ReplayTypeOK
    <3>2. run' \in [StageFilters -> RunType']
      <4>1. run \in [StageFilters -> RunType]
        BY DEF ReplayTypeOK, RunType
      <4>2. RunType \subseteq RunType'
        BY <2>1, <2>7 DEF RunType
      <4> QED
        BY <1>1, <4>1, <4>2
    <3>3. Len(dlq') <= MaxRecords
      BY <1>4, <2>1, <2>7, ReplayConstants
    <3> QED
      BY <1>1, <1>2, <2>7, <3>1, <3>2, <3>3, Zenon DEF ReplayTypeOK, RunType
  <2>10. \A f \in StageFilters : FilterInv(f)'
    BY <1>1, <2>4, <2>6, <1>GrowInv
  <2> QED
    BY <2>8, <2>9, <2>10
<1> QED
  BY <1>3, <1>4 DEF Consume

-----------------------------------------------------------------------------
(* The invariant                                                           *)

\* An untouched topic satisfies the invariant.
LEMMA ReplayInitInv ==
    ASSUME NEW Contents \in SUBSET Letters, ReplayInit(Contents)
    PROVE  ReplayInv
<1>1. dlq \in Seq(DeadLetters) /\ Len(dlq) <= MaxRecords /\ Len(dlq) \in Nat
  BY DEF ReplayInit, Letters
<1>2. ReplayTypeOK
  <2>1. NoRun \in RunType
    BY <1>1, ReplayConstants DEF NoRun, RunType
  <2>2. run \in [StageFilters -> RunType]
    BY <2>1 DEF ReplayInit
  <2>3. /\ committed \in [Groups -> 0..Len(dlq)] /\ sent \in Seq(DeadLetters)
        /\ used \subseteq StageFilters /\ mended \in BOOLEAN
    <3>1. committed \in [Groups -> 0..Len(dlq)]
      BY <1>1 DEF ReplayInit
    <3>2. sent \in Seq(DeadLetters)
      BY DEF ReplayInit
    <3>3. used \subseteq StageFilters /\ mended \in BOOLEAN
      BY Zenon DEF ReplayInit
    <3> QED
      BY <3>1, <3>2, <3>3
  <2>4. /\ replays \in [StageFilters -> [1..MaxRecords -> Nat]]
        /\ cuts \in [StageFilters -> 0..MaxCuts]
    BY ReplayConstants DEF ReplayInit
  <2> QED
    BY <1>1, <2>2, <2>3, <2>4 DEF ReplayTypeOK, RunType
<1>3. StampInv
  BY <1>1 DEF ReplayInit, StampInv, Stamped
<1>4. ASSUME NEW f \in StageFilters PROVE FilterInv(f)
  <2>1. /\ Past(f) = 0 /\ run[f] = NoRun /\ cuts[f] = 0
        /\ \A o \in 1..MaxRecords : replays[f][o] = 0
    BY HasGroup, Zenon DEF ReplayInit, Past
  <2>2. RunInv(f) /\ PastInv(f)
    BY <1>1, <2>1 DEF RunInv, PastInv, NoRun
  <2>3. TwiceInv(f)
    BY <2>1 DEF TwiceInv, InHand, NoRun
  <2> QED
    BY <2>2, <2>3 DEF FilterInv
<1> QED
  BY <1>2, <1>3, <1>4 DEF ReplayInv

\* Every step keeps the invariant.
LEMMA ReplayStepInv ==
    ASSUME ReplayInv, [ReplayNext]_replayVars
    PROVE  ReplayInv'
<1>1. ASSUME NEW f \in StageFilters, BeginReplay(f, TRUE) \/ BeginReplay(f, FALSE) PROVE ReplayInv'
  BY <1>1, BeginStep, Zenon
<1>2. ASSUME NEW f \in StageFilters, Replaying(f) PROVE ReplayInv'
  <2>1. CASE SkipMalformed(f) \/ SkipOtherStage(f) \/ Inspect(f) \/ SkipInvalid(f)
    BY <2>1, PassStep
  <2>2. CASE Fatal(f) \/ EndReplay(f)
    <3>1. /\ ~run[f].wrote /\ run' = [run EXCEPT ![f] = NoRun]
          /\ UNCHANGED <<used, dlq, sent, committed, replays, cuts, mended>>
      BY <2>2, Zenon DEF Fatal, EndReplay, Chosen, Matched, Decoded, Fetching
    <3> QED
      BY <3>1, EndStep, Zenon DEF ReplayInv, ReplayTypeOK
  <2>3. CASE ReplayRecord(f)
    BY <2>3, WriteStep
  <2>4. CASE CommitReplayed(f)
    BY <2>4, CommitStep
  <2> QED
    BY <1>2, <2>1, <2>2, <2>3, <2>4 DEF Replaying
<1>3. ASSUME NEW f \in StageFilters, Cut(f) PROVE ReplayInv'
  BY <1>3, CutStep
<1>4. CASE Consume
  BY <1>4, ConsumeStep
<1>5. CASE Mend \/ UNCHANGED replayVars
  <2>1. UNCHANGED <<used, dlq, sent, committed, run, replays, cuts>> /\ mended' \in BOOLEAN
    BY <1>5, Zenon DEF Mend, replayVars, ReplayInv, ReplayTypeOK
  <2>2. ReplayTypeOK'
    BY <2>1 DEF ReplayInv, ReplayTypeOK
  <2>3. StampInv'
    BY <2>1, Zenon DEF ReplayInv, StampInv, Stamped
  <2>4. \A f \in StageFilters : FilterInv(f)'
    BY <2>1, Frame DEF ReplayInv
  <2> QED
    BY <2>2, <2>3, <2>4 DEF ReplayInv
<1> QED
  BY <1>1, <1>2, <1>3, <1>4, <1>5, Zenon DEF ReplayNext

\* The inductive invariant holds in every reachable state.
LEMMA ReplayInvariant ==
    ASSUME NEW Contents \in SUBSET Letters
    PROVE  ReplaySpec(Contents) => []ReplayInv
<1>1. ReplayInit(Contents) => ReplayInv
  BY ReplayInitInv
<1>2. ReplayInv /\ [ReplayNext]_replayVars => ReplayInv'
  BY ReplayStepInv
<1> QED
  BY <1>1, <1>2, PTL DEF ReplaySpec

\* Runs, positions and records stay within their bounds.
THEOREM ReplayTyped ==
    ASSUME NEW Contents \in SUBSET Letters
    PROVE  ReplaySpec(Contents) => []ReplayTypeOK
<1>1. ReplayInv => ReplayTypeOK
  BY Zenon DEF ReplayInv
<1> QED
  BY <1>1, ReplayInvariant, PTL

\* No group ever passes a record of its stage that it has not replayed
\* (main.go:98, main.go:159), whatever the topic holds.
THEOREM ReplaySafe ==
    ASSUME NEW Contents \in SUBSET Letters
    PROVE  ReplaySpec(Contents) => []NothingOvertaken
<1>1. ReplayInv => NothingOvertaken
  BY Zenon DEF ReplayInv, FilterInv, PastInv, Past, NothingOvertaken
<1> QED
  BY <1>1, ReplayInvariant, PTL

\* A record is replayed twice to a group only if a run of it was cut between
\* the write and the commit (main.go:142).
THEOREM TwiceSafe ==
    ASSUME NEW Contents \in SUBSET Letters
    PROVE  ReplaySpec(Contents) => []TwiceNeedsACut
<1>1. ReplayInv => TwiceNeedsACut
  BY Zenon DEF ReplayInv, FilterInv, TwiceInv, TwiceNeedsACut
<1> QED
  BY <1>1, ReplayInvariant, PTL

\* However often a record goes through the dead-letter topic it keeps the
\* receipt time of its first replay (main.go:230).
THEOREM ReceiptSafe ==
    ASSUME NEW Contents \in SUBSET Letters
    PROVE  ReplaySpec(Contents) => []ReceiptTimeKept
<1>1. ReplayInv => ReceiptTimeKept
  BY DEF ReplayInv, StampInv, Stamped, ReceiptTimeKept, replayKafkaPayload
<1> QED
  BY <1>1, ReplayInvariant, PTL

=============================================================================
