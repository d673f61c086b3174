------------------------ MODULE ServiceRuntimeProofs ------------------------
(***************************************************************************)
(* Proofs about the start and stop of the services (KafkaTopics,           *)
(* ServiceRuntime), for every list of topics, any number of services and   *)
(* whatever an earlier deployment left, beside an operator who changes the *)
(* topics.                                                                 *)
(*                                                                         *)
(* The argument is that no step takes back what a topic has of what it     *)
(* needs, entry by entry, neither where it is stored nor where requests    *)
(* see it.  What a setup found good therefore still is when the service    *)
(* serves, and the life of a service can be followed on its own.           *)
(***************************************************************************)
EXTENDS ServiceRuntime, TLAPS

-----------------------------------------------------------------------------
(* Topic setup                                                             *)

JobType == [step : Steps, list : Seq(Topics), left : Seq(Topics), refused : BOOLEAN,
            drift : SUBSET {"exact", "max"}, read : Nat]

\* Requests see topic t with the shape, the settings and the capacity it needs.
Good(t) == WellShaped(t) /\ driftedConfigEntries(visible[t], t) = {}

\* b is at least as close to what topic t needs as a, entry by entry.
AsGood(a, b, t) ==
    a # Missing => /\ b # Missing
                   /\ a.shape = "want" => b.shape = "want"
                   /\ a.exact = "want" => b.exact = "want"
                   /\ a.max >= MinMessageBytes(t) => b.max >= MinMessageBytes(t)

\* What is stored but not visible yet is no step back.
NoRegress == \A t \in Topics : AsGood(visible[t], config[t], t)

TunedKept == \A t \in tuned : config[t] # Missing /\ config[t].other = "tuned"

\* An attempt that was not refused has every topic of its list good or still
\* ahead of it; what it is going to alter, it read below the floor.
JobInv(s) ==
    /\ job[s].step \in {"describe", "alter", "wait"} =>
          /\ job[s].left # <<>>
          /\ \A j \in DOMAIN job[s].left : WellShaped(job[s].left[j])
          /\ job[s].refused = FALSE => \A i \in DOMAIN job[s].list :
                \/ Good(job[s].list[i])
                \/ \E j \in DOMAIN job[s].left : job[s].left[j] = job[s].list[i]
    /\ job[s].step = "alter" =>
          /\ job[s].drift # {}
          /\ "max" \in job[s].drift => job[s].read < MinMessageBytes(Head(job[s].left))
    /\ job[s].step = "ready" => \A i \in DOMAIN job[s].list : Good(job[s].list[i])

SetupTypes ==
    /\ config \in [Topics -> TopicStates \cup {Missing}]
    /\ visible \in [Topics -> TopicStates \cup {Missing}]
    /\ tuned \subseteq Topics /\ outage \subseteq {"cluster", "process"}
    /\ job \in [Services -> JobType]

SetupInv == SetupTypes /\ NoRegress /\ TunedKept /\ \A s \in Services : JobInv(s)

\* Sizes are numbers, and what a setup creates is well formed.
LEMMA TopicFacts ==
    ASSUME NEW t \in Topics
    PROVE  /\ MinMessageBytes(t) \in Nat
           /\ buildTopicConfigs(t) \in TopicStates
           /\ \A v \in TopicStates : v.max \in Nat /\ v # Missing
           /\ \A v \in TopicStates :
                 driftedConfigEntries(v, t) = {}
                    <=> v.exact = "want" /\ v.max >= MinMessageBytes(t)
           /\ \A v \in TopicStates :
                 "max" \in driftedConfigEntries(v, t) => v.max < MinMessageBytes(t)
<1>1. MinMessageBytes(t) \in Nat /\ MinMessageBytes(t) \in Limits
  BY DEF MinMessageBytes, businessTopicConfig, deadLetterTopicConfig,
         businessBatchBytes, deadLetterBatchBytes, Limits
<1>2. buildTopicConfigs(t) \in TopicStates
  BY <1>1 DEF buildTopicConfigs, TopicStates
<1>3. Limits \subseteq Nat
  BY TopicConstants DEF Limits, businessBatchBytes, deadLetterBatchBytes
<1>4. ASSUME NEW v \in TopicStates
      PROVE  /\ v.max \in Nat /\ v # Missing
             /\ v.exact \in {"want", "old"}
  BY <1>3, TopicConstants, Zenon DEF TopicStates
<1>5. ASSUME NEW v \in TopicStates
      PROVE  /\ "max" \in driftedConfigEntries(v, t) <=> v.max < MinMessageBytes(t)
             /\ "exact" \in driftedConfigEntries(v, t) <=> v.exact # "want"
             /\ driftedConfigEntries(v, t) \subseteq {"exact", "max"}
  BY DEF driftedConfigEntries, buildTopicConfigs
<1>6. ASSUME NEW v \in TopicStates
      PROVE  driftedConfigEntries(v, t) = {}
                <=> v.exact = "want" /\ v.max >= MinMessageBytes(t)
  <2>1. driftedConfigEntries(v, t) = {}
           <=> "exact" \notin driftedConfigEntries(v, t) /\ "max" \notin driftedConfigEntries(v, t)
    BY <1>5
  <2> QED  BY <1>1, <1>4, <1>5, <2>1
<1> QED
  BY <1>1, <1>2, <1>4, <1>5, <1>6

\* No step takes a stored entry back, and requests see what is or was stored.
TopicsMove ==
    \A t \in Topics : /\ AsGood(config[t], config'[t], t)
                      /\ visible'[t] \in {visible[t], config[t]}

\* Such a step keeps what is visible as good as it was.
LEMMA GoodStays ==
    ASSUME SetupTypes, NoRegress, TopicsMove
    PROVE  /\ NoRegress'
           /\ \A t \in Topics : WellShaped(t) => WellShaped(t)'
           /\ \A t \in Topics : Good(t) => Good(t)'
<1>1. ASSUME NEW t \in Topics
      PROVE  AsGood(visible'[t], config'[t], t) /\ AsGood(visible[t], visible'[t], t)
  BY DEF NoRegress, TopicsMove, AsGood
<1>2. ASSUME NEW t \in Topics, WellShaped(t) PROVE WellShaped(t)'
  BY <1>1, <1>2 DEF AsGood, WellShaped
<1>3. ASSUME NEW t \in Topics, Good(t) PROVE Good(t)'
  <2>1. WellShaped(t) /\ WellShaped(t)'
    BY <1>2, <1>3 DEF Good
  <2>2. visible[t] \in TopicStates /\ visible'[t] \in TopicStates
    BY <2>1 DEF WellShaped, SetupTypes, TopicsMove
  <2>3. visible[t].exact = "want" /\ visible[t].max >= MinMessageBytes(t)
    BY <1>3, <2>2, TopicFacts DEF Good
  <2>4. visible'[t].exact = "want" /\ visible'[t].max >= MinMessageBytes(t)
    BY <1>1, <2>1, <2>3 DEF AsGood, WellShaped
  <2>5. driftedConfigEntries(visible'[t], t) = {}
    BY <2>2, <2>4, TopicFacts
  <2> QED  BY <2>1, <2>5 DEF Good
<1>4. NoRegress'
  BY <1>1 DEF NoRegress
<1> QED  BY <1>2, <1>3, <1>4

\* The rest of a list that is not empty.
LEMMA TailFacts ==
    ASSUME NEW T, NEW q \in Seq(T), q # <<>>
    PROVE  /\ Tail(q) \in Seq(T) /\ Len(q) \in Nat /\ Len(Tail(q)) = Len(q) - 1
           /\ DOMAIN Tail(q) = 1..Len(Tail(q)) /\ DOMAIN q = 1..Len(q)
           /\ \A j \in DOMAIN Tail(q) : j + 1 \in DOMAIN q /\ Tail(q)[j] = q[j + 1]
           /\ \A j \in DOMAIN q : j # 1 => j - 1 \in DOMAIN Tail(q) /\ Tail(q)[j - 1] = q[j]
           /\ Head(q) = q[1] /\ Head(q) \in T /\ 1 \in DOMAIN q
           /\ Len(q) > 1 => Tail(q) # <<>>
           /\ ~(Len(q) > 1) => DOMAIN Tail(q) = {}
<1>1. /\ Tail(q) \in Seq(T) /\ Len(q) \in Nat /\ Len(Tail(q)) = Len(q) - 1
      /\ DOMAIN q = 1..Len(q) /\ DOMAIN Tail(q) = 1..Len(Tail(q))
      /\ \A j \in 1..Len(Tail(q)) : Tail(q)[j] = q[j + 1]
      /\ Head(q) = q[1] /\ Head(q) \in T /\ Len(q) # 0
  OBVIOUS
<1>2. \A j \in 1..Len(Tail(q)) : j + 1 \in 1..Len(q)
  BY <1>1
<1>3. ASSUME NEW j \in 1..Len(q), j # 1
      PROVE  j - 1 \in 1..Len(Tail(q)) /\ Tail(q)[j - 1] = q[j]
  BY <1>1, <1>3
<1>4. Len(q) > 1 => Tail(q) # <<>>
  <2>1. Len(q) > 1 => Len(Tail(q)) # 0
    BY <1>1
  <2>2. Len(<<>>) = 0
    OBVIOUS
  <2> QED  BY <2>1, <2>2, Zenon
<1>5. ~(Len(q) > 1) => 1..Len(Tail(q)) = {}
  BY <1>1
<1> QED  BY <1>1, <1>2, <1>3, <1>4, <1>5

\* The steps of the services and the cluster, as the topics see them.
SetupNext ==
    \/ UNCHANGED topicVars
    \/ \E s \in Services : ensureKafkaTopicsUntil(s)
    \/ \E s \in Services : /\ job' = [job EXCEPT ![s] = Idle]
                           /\ UNCHANGED <<config, visible, tuned, outage>>
    \/ \E s \in Services, list \in Seq(Topics) :
          initializeKafkaTopics(s, list) /\ UNCHANGED <<config, visible, tuned, outage>>
    \/ \E t \in Topics : Propagate(t) \/ RaiseLimit(t) \/ Tune(t) \/ Reassign(t)
    \/ OutageEnds

\* What a step does to what is stored: an entry the setup manages changes for
\* the better or by an operator, and only a job that read a smaller value
\* lowers the limit.
ConfigStep ==
    /\ config' \in [Topics -> TopicStates \cup {Missing}]
    /\ tuned' \subseteq Topics
    /\ \A t \in Topics :
          /\ AsGood(config[t], config'[t], t)
          /\ config[t] # Missing =>
                /\ config'[t] # Missing
                /\ config[t].other = "tuned" => config'[t].other = "tuned"
                /\ \/ config'[t].max >= config[t].max
                   \/ \E s \in Services : /\ job[s].step = "alter" /\ Head(job[s].left) = t
                                          /\ job[s].read < MinMessageBytes(t)
          /\ t \in tuned' => t \in tuned \/ (config'[t] # Missing /\ config'[t].other = "tuned")

\* CreateTopics, the alterations and the operator's changes.
LEMMA StoredChanges ==
    ASSUME SetupInv, SetupNext
    PROVE  ConfigStep
  \* An alteration writes the drifted entries, with the values the setup wants.
<1>AlterFacts.
      ASSUME NEW t \in Topics, config[t] \in TopicStates, NEW drift \in SUBSET {"exact", "max"}
      PROVE  LET r == IncrementalAlterConfigs(t, drift)
             IN  /\ r \in TopicStates
                 /\ r.shape = config[t].shape /\ r.other = config[t].other
                 /\ r.exact = "want" \/ r.exact = config[t].exact
                 /\ r.max = MinMessageBytes(t) \/ r.max = config[t].max
                 /\ "max" \notin drift => r.max = config[t].max
  <2> USE <1>AlterFacts
  <2> DEFINE r == IncrementalAlterConfigs(t, drift)
             b == buildTopicConfigs(t)
  <2>1. b \in TopicStates /\ b.exact = "want" /\ b.max = MinMessageBytes(t)
    BY TopicFacts DEF buildTopicConfigs
  <2>2. r = [shape |-> config[t].shape,
             exact |-> IF "exact" \in drift THEN b.exact ELSE config[t].exact,
             max |-> IF "max" \in drift THEN b.max ELSE config[t].max,
             other |-> config[t].other]
    <3>1. DOMAIN config[t] = {"shape", "exact", "max", "other"}
      BY DEF TopicStates
    <3>2. "shape" \notin drift /\ "other" \notin drift
      OBVIOUS
    <3> QED  BY <3>1, <3>2 DEF IncrementalAlterConfigs
  <2>3. config[t].shape \in {"want", "drifted"} /\ config[t].exact \in {"want", "old"}
        /\ config[t].max \in Limits /\ config[t].other \in {"default", "tuned"}
        /\ b.max \in Limits
    BY <2>1 DEF TopicStates
  <2> HIDE DEF r, b
  <2>4. r \in TopicStates
    BY <2>1, <2>2, <2>3 DEF TopicStates
  <2>5. /\ r.shape = config[t].shape /\ r.other = config[t].other
        /\ r.exact = "want" \/ r.exact = config[t].exact
        /\ r.max = MinMessageBytes(t) \/ r.max = config[t].max
        /\ "max" \notin drift => r.max = config[t].max
    BY <2>1, <2>2
  <2> QED  BY <2>4, <2>5 DEF r
  \* A step that stores nothing.
<1>NothingStored.
      ASSUME SetupTypes, config' = config, tuned' = tuned
      PROVE  ConfigStep
  <2> USE <1>NothingStored
  <2>1. \A t \in Topics : config[t] # Missing => config[t] \in TopicStates /\ config[t].max \in Nat
    BY TopicFacts DEF SetupTypes
  <2> QED
    BY <2>1 DEF ConfigStep, AsGood, SetupTypes
<1>0. SetupTypes
  BY DEF SetupInv
<1>1. ASSUME NEW s \in Services, ensureKafkaTopics(s) PROVE ConfigStep
  <2>1. PICK made \in SUBSET {t \in Topics : config[t] = Missing} :
           config' = [t \in Topics |-> IF t \in made THEN buildTopicConfigs(t) ELSE config[t]]
    BY <1>1 DEF ensureKafkaTopics
  <2>2. tuned' = tuned
    BY <1>1 DEF ensureKafkaTopics
  <2>3. config' \in [Topics -> TopicStates \cup {Missing}]
    BY <1>0, <2>1, TopicFacts DEF SetupTypes
  <2>4. \A t \in Topics : config[t] # Missing =>
           config'[t] = config[t] /\ config[t] \in TopicStates /\ config[t].max \in Nat
    BY <1>0, <2>1, TopicFacts DEF SetupTypes
  <2> QED
    BY <1>0, <2>2, <2>3, <2>4 DEF ConfigStep, AsGood, SetupTypes
<1>2. ASSUME NEW s \in Services, reconcileKafkaTopics(s) PROVE ConfigStep
  <2> DEFINE t == Head(job[s].left)
  <2>0. job[s] \in JobType /\ job[s].step = "alter" /\ JobInv(s)
    BY <1>0, <1>2 DEF SetupTypes, SetupInv, reconcileKafkaTopics
  <2>1. t \in Topics /\ WellShaped(t)
    <3>1. job[s].left \in Seq(Topics) /\ job[s].left # <<>>
      BY <2>0 DEF JobType, JobInv
    <3>2. t \in Topics /\ t = job[s].left[1] /\ 1 \in DOMAIN job[s].left
      BY <3>1, TailFacts
    <3> QED  BY <2>0, <3>2 DEF JobInv
  <2>2. config[t] \in TopicStates
    BY <1>0, <2>1 DEF SetupInv, SetupTypes, NoRegress, AsGood, WellShaped
  <2>3. /\ job[s].drift \in SUBSET {"exact", "max"}
        /\ "max" \in job[s].drift => job[s].read < MinMessageBytes(t)
    BY <2>0 DEF JobType, JobInv
  <2>4. /\ config' = [config EXCEPT ![t] = IncrementalAlterConfigs(t, job[s].drift)]
        /\ tuned' = tuned
    BY <1>2 DEF reconcileKafkaTopics
  <2> HIDE DEF t
  <2>5. PICK r \in TopicStates :
           /\ config' = [config EXCEPT ![t] = r]
           /\ r.shape = config[t].shape /\ r.other = config[t].other
           /\ r.exact = "want" \/ r.exact = config[t].exact
           /\ r.max = MinMessageBytes(t) \/ r.max = config[t].max
           /\ "max" \notin job[s].drift => r.max = config[t].max
    BY <2>1, <2>2, <2>3, <2>4, <1>AlterFacts, Zenon
  <2>6. /\ config' \in [Topics -> TopicStates \cup {Missing}]
        /\ tuned' \subseteq Topics /\ config'[t] = r
    BY <1>0, <2>1, <2>4, <2>5 DEF SetupTypes
  <2>7. r.max \in Nat /\ config[t].max \in Nat /\ r # Missing /\ MinMessageBytes(t) \in Nat
    BY <2>1, <2>2, TopicFacts
  <2>8. ASSUME NEW x \in Topics
        PROVE  /\ AsGood(config[x], config'[x], x)
               /\ config[x] # Missing =>
                     /\ config'[x] # Missing
                     /\ config[x].other = "tuned" => config'[x].other = "tuned"
                     /\ \/ config'[x].max >= config[x].max
                        \/ \E v \in Services : /\ job[v].step = "alter" /\ Head(job[v].left) = x
                                               /\ job[v].read < MinMessageBytes(x)
    <3>1. CASE x = t
      <4>1. AsGood(config[t], r, t)
        BY <2>5, <2>7 DEF AsGood
      <4>2. r.max >= config[t].max \/ job[s].read < MinMessageBytes(t)
        BY <2>3, <2>5, <2>7
      <4> QED
        BY <2>0, <2>5, <2>6, <2>7, <3>1, <4>1, <4>2, Zenon DEF t
    <3>2. CASE x # t
      <4>1. config'[x] = config[x] /\ (config[x] # Missing => config[x].max \in Nat)
        BY <1>0, <2>5, <3>2, TopicFacts DEF SetupTypes
      <4> QED  BY <4>1 DEF AsGood
    <3> QED  BY <3>1, <3>2
  <2> QED
    BY <2>4, <2>6, <2>8 DEF ConfigStep
<1>3. ASSUME NEW t \in Topics, RaiseLimit(t) \/ Tune(t) \/ Reassign(t) PROVE ConfigStep
  <2>1. config[t] \in TopicStates /\ config[t].max \in Nat /\ MinMessageBytes(t) \in Nat
    BY <1>0, <1>3, TopicFacts DEF SetupTypes, RaiseLimit, Tune, Reassign
  <2>2. PICK r \in TopicStates :
           /\ config' = [config EXCEPT ![t] = r]
           /\ r.shape = config[t].shape \/ r.shape = "want"
           /\ r.exact = config[t].exact /\ r.max >= config[t].max
           /\ r.other = config[t].other \/ r.other = "tuned"
           /\ tuned' = tuned \/ (tuned' = tuned \cup {t} /\ r.other = "tuned")
    <3>1. CASE RaiseLimit(t)
      <4>1. PICK n \in RaisedLimits : n > config[t].max /\ config' = [config EXCEPT ![t].max = n]
        BY <3>1, Zenon DEF RaiseLimit
      <4>2. n \in Nat /\ n \in Limits
        BY TopicConstants DEF Limits
      <4> DEFINE r == [config[t] EXCEPT !.max = n]
      <4>3. config' = [config EXCEPT ![t] = r] /\ tuned' = tuned
        BY <1>0, <3>1, <4>1, Zenon DEF SetupTypes, RaiseLimit
      <4>4. r \in TopicStates
        BY <2>1, <4>2 DEF TopicStates
      <4>5. /\ r.shape = config[t].shape /\ r.exact = config[t].exact
            /\ r.max = n /\ r.other = config[t].other
        BY <2>1 DEF TopicStates
      <4> HIDE DEF r
      <4>6. r.max >= config[t].max
        BY <2>1, <4>1, <4>2, <4>5
      <4> QED
        BY <4>3, <4>4, <4>5, <4>6, Zenon
    <3>2. CASE Tune(t)
      <4> DEFINE r == [config[t] EXCEPT !.other = "tuned"]
      <4>1. config' = [config EXCEPT ![t] = r] /\ tuned' = tuned \cup {t}
        BY <1>0, <3>2 DEF SetupTypes, Tune
      <4>2. r \in TopicStates
        BY <2>1 DEF TopicStates
      <4>3. /\ r.shape = config[t].shape /\ r.exact = config[t].exact
            /\ r.max = config[t].max /\ r.other = "tuned"
        BY <2>1 DEF TopicStates
      <4> HIDE DEF r
      <4>4. r.max >= config[t].max
        BY <2>1, <4>3
      <4> QED
        BY <4>1, <4>2, <4>3, <4>4, Zenon
    <3>3. CASE Reassign(t)
      <4> DEFINE r == [config[t] EXCEPT !.shape = "want"]
      <4>1. config' = [config EXCEPT ![t] = r] /\ tuned' = tuned
        BY <1>0, <3>3 DEF SetupTypes, Reassign
      <4>2. r \in TopicStates
        BY <2>1 DEF TopicStates
      <4>3. /\ r.shape = "want" /\ r.exact = config[t].exact
            /\ r.max = config[t].max /\ r.other = config[t].other
        BY <2>1 DEF TopicStates
      <4> HIDE DEF r
      <4>4. r.max >= config[t].max
        BY <2>1, <4>3
      <4> QED
        BY <4>1, <4>2, <4>3, <4>4, Zenon
    <3> QED  BY <1>3, <3>1, <3>2, <3>3
  <2>3. r.max \in Nat /\ r # Missing
    BY TopicFacts
  <2>4. /\ config' \in [Topics -> TopicStates \cup {Missing}]
        /\ tuned' \subseteq Topics /\ config'[t] = r
    BY <1>0, <2>2 DEF SetupTypes
  <2>5. AsGood(config[t], r, t)
    BY <2>1, <2>2, <2>3 DEF AsGood
  <2>6. ASSUME NEW x \in Topics, x # t
        PROVE  config'[x] = config[x] /\ (config[x] # Missing => config[x].max \in Nat)
    BY <1>0, <2>2, <2>6, TopicFacts DEF SetupTypes
  <2>7. \A x \in Topics : AsGood(config[x], config[x], x)
    BY DEF AsGood
  <2> QED
    BY <2>1, <2>2, <2>3, <2>4, <2>5, <2>6, <2>7 DEF ConfigStep
<1>4. ASSUME NEW s \in Services,
             \/ Metadata(s) \/ DescribeConfigs(s) \/ waitForKafkaConfigVisibility(s)
             \/ AttemptFails(s) \/ Retry(s) \/ SetupTimeout(s)
      PROVE  config' = config /\ tuned' = tuned
  BY <1>4, Zenon DEF Metadata, DescribeConfigs, waitForKafkaConfigVisibility, AttemptFails, Retry,
              SetupTimeout
<1>5. \/ config' = config /\ tuned' = tuned
      \/ \E s \in Services : ensureKafkaTopics(s) \/ reconcileKafkaTopics(s)
      \/ \E t \in Topics : RaiseLimit(t) \/ Tune(t) \/ Reassign(t)
  BY <1>4 DEF SetupNext, ensureKafkaTopicsUntil, topicVars, Propagate, OutageEnds
<1> QED
  BY <1>0, <1>1, <1>2, <1>3, <1>5, <1>NothingStored

\* Requests see what is stored, or what they saw before.
LEMMA VisibleChanges ==
    ASSUME SetupInv, SetupNext
    PROVE  /\ TopicsMove
           /\ visible' \in [Topics -> TopicStates \cup {Missing}]
           /\ outage' \subseteq {"cluster", "process"}
<1>0. SetupTypes /\ ConfigStep
  BY StoredChanges DEF SetupInv
<1>1. ASSUME NEW s \in Services, ensureKafkaTopicsUntil(s)
      PROVE  visible' = visible /\ outage' = outage
  BY <1>1, Zenon DEF ensureKafkaTopicsUntil, ensureKafkaTopics, Metadata, DescribeConfigs,
     reconcileKafkaTopics, waitForKafkaConfigVisibility, AttemptFails, Retry, SetupTimeout
<1>2. ASSUME NEW t \in Topics, RaiseLimit(t) \/ Tune(t) \/ Reassign(t)
      PROVE  visible' = visible /\ outage' = outage
  BY <1>2 DEF RaiseLimit, Tune, Reassign
<1>3. ASSUME NEW t \in Topics, Propagate(t)
      PROVE  visible' = [visible EXCEPT ![t] = config[t]] /\ outage' = outage
  BY <1>3 DEF Propagate
<1>4. /\ \/ visible' = visible
         \/ \E t \in Topics : visible' = [visible EXCEPT ![t] = config[t]]
      /\ outage' \subseteq {"cluster", "process"}
  BY <1>0, <1>1, <1>2, <1>3, Zenon DEF SetupNext, topicVars, OutageEnds, SetupTypes
<1> QED
  BY <1>0, <1>4 DEF TopicsMove, ConfigStep, SetupTypes

\* The job of an attempt that starts.
LEMMA CreateFacts ==
    ASSUME NEW list \in Seq(Topics)
    PROVE  /\ [Idle EXCEPT !.step = "create", !.list = list] \in JobType
           /\ [Idle EXCEPT !.step = "create", !.list = list].step = "create"
           /\ [Idle EXCEPT !.step = "create", !.list = list].list = list
<1>1. Idle \in JobType
  BY DEF Idle, JobType, Steps
<1>2. "create" \in Steps
  BY DEF Steps
<1> QED  BY <1>1, <1>2, Zenon DEF JobType

\* Which job a step moves.
LEMMA OneJobSteps ==
    ASSUME SetupTypes, NEW s \in Services,
           \/ ensureKafkaTopicsUntil(s)
           \/ job' = [job EXCEPT ![s] = Idle]
           \/ \E list \in Seq(Topics) : initializeKafkaTopics(s, list)
    PROVE  /\ \A v \in Services \ {s} : job'[v] = job[v]
           /\ job' \in [Services -> {job'[v] : v \in Services}]
<1>0. job \in [Services -> JobType]
  BY DEF SetupTypes
<1>1. CASE ensureKafkaTopicsUntil(s)
  <2>1. \/ \E step \in Steps : job' = [job EXCEPT ![s].step = step]
        \/ \E r : job' = [job EXCEPT ![s] = r]
    <3>1. CASE ensureKafkaTopics(s)
      BY <3>1 DEF ensureKafkaTopics, Goto, Steps
    <3>2. CASE Metadata(s)
      <4>1. \E left, refused, step : job' = [job EXCEPT ![s].left = left,
                                ![s].refused = refused, ![s].step = step]
        <5>1. PICK good \in 0..Len(job[s].list) :
                job' = [job EXCEPT ![s].left = SubSeq(job[s].list, 1, good),
                                   ![s].refused = good < Len(job[s].list),
                                   ![s].step = IF good > 0 THEN "describe" ELSE "retry"]
          BY <3>2, Zenon DEF Metadata
        <5> QED  BY <5>1, Zenon
      <4> QED  BY <1>0, <4>1, Zenon
    <3>3. CASE NextTopic(s)
      BY <1>0, <3>3, ZenonT(30) DEF NextTopic
    <3>4. CASE DescribeConfigs(s)
      BY <1>0, <3>3, <3>4 DEF DescribeConfigs
    <3>5. CASE reconcileKafkaTopics(s)
      BY <3>5 DEF reconcileKafkaTopics, Goto, Steps
    <3>6. CASE waitForKafkaConfigVisibility(s)
      BY <3>3, <3>6 DEF waitForKafkaConfigVisibility
    <3>7. CASE AttemptFails(s) \/ SetupTimeout(s)
      BY <3>7 DEF AttemptFails, SetupTimeout, Goto, Steps
    <3>8. CASE Retry(s)
      BY <3>8, Zenon DEF Retry
    <3> QED
      BY <1>1, <3>1, <3>2, <3>4, <3>5, <3>6, <3>7, <3>8 DEF ensureKafkaTopicsUntil
  <2> QED  BY <1>0, <2>1
<1>2. CASE job' = [job EXCEPT ![s] = Idle] \/ \E list \in Seq(Topics) : initializeKafkaTopics(s, list)
  BY <1>0, <1>2, Zenon DEF initializeKafkaTopics
<1> QED  BY <1>1, <1>2

\* The setup invariant is inductive.
LEMMA SetupStep ==
    ASSUME SetupInv, SetupNext
    PROVE  SetupInv' /\ TopicsMove
  \* A job that does not step keeps its invariant.
<1>JobStays.
      ASSUME SetupTypes, NoRegress, TopicsMove, NEW s \in Services, JobInv(s),
             job'[s] = job[s]
      PROVE  JobInv(s)'
  <2> USE <1>JobStays
  <2>1. /\ job[s].list \in Seq(Topics) /\ job[s].left \in Seq(Topics)
        /\ \A i \in DOMAIN job[s].list : job[s].list[i] \in Topics
        /\ \A i \in DOMAIN job[s].left : job[s].left[i] \in Topics
    BY DEF SetupTypes, JobType
  <2>2. /\ \A t \in Topics : WellShaped(t) => WellShaped(t)'
        /\ \A t \in Topics : Good(t) => Good(t)'
    BY GoodStays
  <2>3. \A j \in DOMAIN job[s].left : WellShaped(job[s].left[j]) => WellShaped(job[s].left[j])'
    BY <2>1, <2>2 DEF WellShaped
  <2>4. \A i \in DOMAIN job[s].list : Good(job[s].list[i]) => Good(job[s].list[i])'
    BY <2>1, <2>2, Zenon DEF Good, WellShaped
  <2> QED
    BY <2>3, <2>4 DEF JobInv
  \* Every step of a job keeps what the job relies on.
<1>JobSteps.
        \A s \in Services :
            /\ SetupInv
            /\ SetupNext
            /\ ensureKafkaTopicsUntil(s)
            => JobInv(s)' /\ job'[s] \in JobType
      \* The step a job goes to when it is done with a topic that is good.
  <2>NextTopicInv.
        ASSUME SetupTypes, NEW s \in Services, JobInv(s), NextTopic(s),
               job[s].step \in {"describe", "wait"}, Good(Head(job[s].left)),
               visible' = visible
        PROVE  JobInv(s)' /\ job'[s] \in JobType
    <3> USE <2>NextTopicInv
    <3> DEFINE list == job[s].list
               left == job[s].left
    <3>0. job[s] \in JobType /\ job \in [Services -> JobType]
      BY DEF SetupTypes
    <3>1. /\ list \in Seq(Topics) /\ left \in Seq(Topics) /\ left # <<>>
          /\ job[s].refused \in BOOLEAN
      BY <3>0 DEF JobType, JobInv
    <3>2. /\ job'[s].list = list /\ job'[s].left = Tail(left)
          /\ job'[s].refused = job[s].refused
          /\ Len(left) > 1 => job'[s].step = "describe"
          /\ ~(Len(left) > 1) => job'[s].step = IF job[s].refused THEN "retry" ELSE "ready"
          /\ job'[s] \in JobType
      <4>1. PICK step \in Steps :
               /\ job'[s] = [job[s] EXCEPT !.left = Tail(left), !.drift = {}, !.read = 0,
                                           !.step = step]
               /\ Len(left) > 1 => step = "describe"
               /\ ~(Len(left) > 1) => step = IF job[s].refused THEN "retry" ELSE "ready"
        <5> DEFINE st == IF Len(left) > 1 THEN "describe"
                         ELSE IF job[s].refused THEN "retry" ELSE "ready"
        <5>1. /\ st \in Steps
              /\ Len(left) > 1 => st = "describe"
              /\ ~(Len(left) > 1) => st = IF job[s].refused THEN "retry" ELSE "ready"
          BY DEF Steps
        <5>2. job'[s] = [job[s] EXCEPT !.left = Tail(left), !.drift = {}, !.read = 0, !.step = st]
          BY <3>0 DEF NextTopic
        <5> QED  BY <5>1, <5>2, Zenon
      <4>2. Tail(left) \in Seq(Topics) /\ {} \in SUBSET {"exact", "max"} /\ 0 \in Nat
        BY <3>1
      <4>3. job'[s] \in JobType
        BY <3>0, <4>1, <4>2, Zenon DEF JobType
      <4> QED
        BY <3>0, <4>1, <4>3, Zenon DEF JobType
    <3>3. /\ \A j \in DOMAIN left : WellShaped(left[j])
          /\ job[s].refused = FALSE => \A i \in DOMAIN list :
                Good(list[i]) \/ \E j \in DOMAIN left : left[j] = list[i]
          /\ Good(Head(left))
      BY DEF JobInv
    <3> HIDE DEF list, left
    <3>4. ASSUME job[s].refused = FALSE, NEW i \in DOMAIN list
          PROVE  Good(list[i]) \/ \E j \in DOMAIN Tail(left) : Tail(left)[j] = list[i]
      <4>1. CASE Good(list[i])
        BY <4>1
      <4>2. ASSUME NEW j \in DOMAIN left, left[j] = list[i], j # 1
            PROVE  \E k \in DOMAIN Tail(left) : Tail(left)[k] = list[i]
        <5>1. j - 1 \in DOMAIN Tail(left) /\ Tail(left)[j - 1] = left[j]
          BY <3>1, <4>2, TailFacts
        <5> QED  BY <4>2, <5>1
      <4>3. ASSUME NEW j \in DOMAIN left, left[j] = list[i], j = 1
            PROVE  Good(list[i])
        <5>1. Head(left) = list[i]
          BY <3>1, <4>3, TailFacts, Zenon
        <5> QED  BY <3>3, <5>1
      <4> QED  BY <3>3, <3>4, <4>1, <4>2, <4>3, Zenon
    <3>5. CASE Len(left) > 1
      <4>1. job'[s].step = "describe" /\ Tail(left) # <<>>
        BY <3>1, <3>2, <3>5, TailFacts
      <4>2. \A j \in DOMAIN Tail(left) : WellShaped(Tail(left)[j])
        BY <3>1, <3>3, TailFacts
      <4>3. (\A j \in DOMAIN job[s].left : WellShaped(job[s].left[j]))'
        BY <3>2, <4>1, <4>2 DEF WellShaped
      <4>4. (job[s].refused = FALSE => \A i \in DOMAIN job[s].list :
                 \/ Good(job[s].list[i])
                 \/ \E j \in DOMAIN job[s].left : job[s].left[j] = job[s].list[i])'
        BY <3>2, <3>4, ZenonT(30) DEF Good, WellShaped
      <4> QED
        BY <3>2, <4>1, <4>3, <4>4, Zenon DEF JobInv
    <3>6. CASE ~(Len(left) > 1)
      <4>1. job'[s].step = IF job[s].refused THEN "retry" ELSE "ready"
        BY <3>2, <3>6
      <4>2. job[s].refused = FALSE => \A i \in DOMAIN list : Good(list[i])
        BY <3>1, <3>4, <3>6, TailFacts, Zenon
      <4>3. CASE job[s].refused = TRUE
        <5>1. job'[s].step = "retry"
          BY <4>1, <4>3
        <5> QED  BY <3>2, <5>1 DEF JobInv
      <4>4. CASE job[s].refused = FALSE
        BY <3>2, <4>1, <4>2, <4>4, Zenon DEF JobInv, Good, WellShaped
      <4> QED  BY <3>1, <4>3, <4>4, Zenon
    <3> QED  BY <3>2, <3>5, <3>6
    \* The metadata answer: the chosen prefix is well shaped, and it is the whole
    \* list unless some topic is missing or drifted.
  <2>MetadataInv.
        ASSUME SetupTypes, NEW s \in Services, JobInv(s), Metadata(s)
        PROVE  JobInv(s)' /\ job'[s] \in JobType /\ UNCHANGED <<config, visible, tuned, outage>>
    <3> USE <2>MetadataInv
    <3> DEFINE list == job[s].list
    <3>0. job[s] \in JobType /\ job \in [Services -> JobType]
      BY DEF SetupTypes
    <3>1. list \in Seq(Topics) /\ Len(list) \in Nat
      BY <3>0 DEF JobType
    <3>3. PICK good \in 0..Len(list) :
              /\ \A i \in 1..good : WellShaped(list[i])
              /\ good < Len(list) => ~WellShaped(list[good + 1])
              /\ job' = [job EXCEPT ![s].left = SubSeq(list, 1, good),
                                    ![s].refused = good < Len(list),
                                    ![s].step = IF good > 0 THEN "describe" ELSE "retry"]
      BY Zenon DEF Metadata
    <3>4. UNCHANGED <<config, visible, tuned, outage>>
      BY DEF Metadata
    <3>5. /\ SubSeq(list, 1, good) \in Seq(Topics) /\ Len(SubSeq(list, 1, good)) = good
          /\ \A i \in 1..good : SubSeq(list, 1, good)[i] = list[i]
      BY <3>1, <3>3
    <3>6. /\ job'[s].list = list /\ job'[s].left = SubSeq(list, 1, good)
          /\ job'[s].refused = (good < Len(list))
          /\ good > 0 => job'[s].step = "describe"
          /\ ~(good > 0) => job'[s].step = "retry"
          /\ job'[s] \in JobType
      <4>1. PICK step \in Steps, refused \in BOOLEAN :
               /\ job'[s] = [job[s] EXCEPT !.left = SubSeq(list, 1, good), !.refused = refused,
                                           !.step = step]
               /\ refused = (good < Len(list))
               /\ good > 0 => step = "describe"
               /\ ~(good > 0) => step = "retry"
        <5> DEFINE st == IF good > 0 THEN "describe" ELSE "retry"
        <5>1. st \in Steps /\ (good > 0 => st = "describe") /\ (~(good > 0) => st = "retry")
          BY DEF Steps
        <5>2. job'[s] = [job[s] EXCEPT !.left = SubSeq(list, 1, good),
                                       !.refused = good < Len(list), !.step = st]
          BY <3>0, <3>3
        <5>3. (good < Len(list)) \in BOOLEAN
          OBVIOUS
        <5> HIDE DEF st
        <5> QED  BY <5>1, <5>2, <5>3, Zenon
      <4>2. job'[s] \in JobType
        BY <3>0, <3>5, <4>1, Zenon DEF JobType
      <4> QED
        BY <3>0, <4>1, <4>2, Zenon DEF JobType
    <3> HIDE DEF list
    <3>7. CASE good > 0
      <4> DEFINE left == SubSeq(list, 1, good)
      <4>1. left # <<>> /\ DOMAIN left = 1..good
        BY <3>3, <3>5, <3>7
      <4>2. \A j \in DOMAIN left : WellShaped(left[j])
        BY <3>3, <3>5, <4>1
      <4>3. ASSUME ~(good < Len(list)), NEW i \in DOMAIN list
            PROVE  \E j \in DOMAIN left : left[j] = list[i]
        <5>1. i \in DOMAIN left
          BY <3>1, <3>3, <4>1, <4>3
        <5> QED  BY <3>5, <4>1, <5>1
      <4>4. job'[s].step = "describe" /\ job'[s].left = left
        BY <3>6, <3>7
      <4> HIDE DEF left
      <4>5. (\A j \in DOMAIN job[s].left : WellShaped(job[s].left[j]))'
        BY <3>4, <4>1, <4>2, <4>4 DEF WellShaped
      <4>6. (job[s].refused = FALSE => \A i \in DOMAIN job[s].list :
                 \/ Good(job[s].list[i])
                 \/ \E j \in DOMAIN job[s].left : job[s].left[j] = job[s].list[i])'
        BY <3>6, <4>3, <4>4, Zenon
      <4> QED
        BY <3>4, <3>6, <4>1, <4>5, <4>6, <4>4, Zenon DEF JobInv
    <3>8. CASE ~(good > 0)
      <4>1. job'[s].step = "retry"
        BY <3>6, <3>8, Zenon
      <4> QED  BY <3>4, <3>6, <4>1 DEF JobInv
    <3> QED  BY <3>7, <3>8
    \* A job that goes to a step without obligations.
  <2>GotoInv.
        ASSUME SetupTypes, NEW s \in Services, NEW step \in Steps, Goto(s, step),
               step \notin {"describe", "alter", "wait", "ready"}
        PROVE  JobInv(s)' /\ job'[s] \in JobType
    <3> USE <2>GotoInv
    <3>1. job'[s] = [job[s] EXCEPT !.step = step] /\ job[s] \in JobType
      BY DEF Goto, SetupTypes
    <3>2. job'[s] \in JobType /\ job'[s].step = step
      BY <3>1, Zenon DEF JobType
    <3> QED  BY <3>2 DEF JobInv
    \* DescribeConfigs: the topic is good, or the drift is what was read.
  <2>DescribeInv.
        ASSUME SetupInv, NEW s \in Services, DescribeConfigs(s)
        PROVE  JobInv(s)' /\ job'[s] \in JobType
    <3> USE <2>DescribeInv
    <3> DEFINE t == Head(job[s].left)
               drift == driftedConfigEntries(visible[t], t)
    <3>0. SetupTypes /\ JobInv(s) /\ job[s] \in JobType /\ job[s].step = "describe"
      BY Zenon DEF SetupInv, SetupTypes, DescribeConfigs
    <3>1. t \in Topics /\ WellShaped(t) /\ visible[t] \in TopicStates
      <4>1. job[s].left \in Seq(Topics) /\ job[s].left # <<>>
        BY <3>0 DEF JobType, JobInv
      <4>2. t \in Topics /\ t = job[s].left[1] /\ 1 \in DOMAIN job[s].left
        BY <4>1, TailFacts
      <4> QED  BY <3>0, <4>2 DEF JobInv, WellShaped, SetupTypes
    <3>2. visible' = visible
      BY DEF DescribeConfigs
    <3>3. CASE drift = {}
      <4>1. NextTopic(s) /\ Good(t)
        BY <3>1, <3>3, Zenon DEF DescribeConfigs, Good
      <4> QED  BY <3>0, <3>2, <4>1, <2>NextTopicInv
    <3>4. CASE drift # {}
      <4>1. job' = [job EXCEPT ![s].step = "alter", ![s].drift = drift, ![s].read = visible[t].max]
        BY <3>4, Zenon DEF DescribeConfigs
      <4>2. drift \in SUBSET {"exact", "max"} /\ visible[t].max \in Nat
        BY <3>1, TopicFacts DEF driftedConfigEntries
      <4>3. "max" \in drift => visible[t].max < MinMessageBytes(t)
        BY <3>1, TopicFacts
      <4>4. job'[s] = [job[s] EXCEPT !.step = "alter", !.drift = drift, !.read = visible[t].max]
        BY <3>0, <4>1 DEF SetupTypes
      <4> HIDE DEF drift
      <4>5. "alter" \in Steps
        BY DEF Steps
      <4>6. /\ job'[s] \in JobType
            /\ job'[s].step = "alter" /\ job'[s].drift = drift /\ job'[s].read = visible[t].max
            /\ job'[s].left = job[s].left /\ job'[s].list = job[s].list
            /\ job'[s].refused = job[s].refused
        BY <3>0, <4>2, <4>4, <4>5, Zenon DEF JobType
      <4>7. (\A j \in DOMAIN job[s].left : WellShaped(job[s].left[j]))' /\ job'[s].left # <<>>
        BY <3>0, <3>2, <4>6, Zenon DEF WellShaped, JobInv
      <4>8. (job[s].refused = FALSE => \A i \in DOMAIN job[s].list :
                 \/ Good(job[s].list[i])
                 \/ \E j \in DOMAIN job[s].left : job[s].left[j] = job[s].list[i])'
        <5>1. job[s].refused = FALSE => \A i \in DOMAIN job[s].list :
                 \/ Good(job[s].list[i])
                 \/ \E j \in DOMAIN job[s].left : job[s].left[j] = job[s].list[i]
          BY <3>0, Zenon DEF JobInv
        <5> QED  BY <3>2, <4>6, <5>1, Zenon DEF Good, WellShaped
      <4>9. (/\ job[s].drift # {}
             /\ "max" \in job[s].drift => job[s].read < MinMessageBytes(Head(job[s].left)))'
        BY <3>4, <4>3, <4>6 DEF MinMessageBytes, deadLetterTopicConfig, businessTopicConfig
      <4> QED
        BY <4>6, <4>7, <4>8, <4>9, Zenon DEF JobInv
    <3> QED  BY <3>3, <3>4
    \* An alteration that was answered is waited for; the list is as it was.
  <2>AlterInv.
        ASSUME SetupInv, SetupNext, NEW s \in Services, reconcileKafkaTopics(s)
        PROVE  JobInv(s)' /\ job'[s] \in JobType
    <3> USE <2>AlterInv
    <3>0. SetupTypes /\ NoRegress /\ JobInv(s) /\ job[s] \in JobType /\ job[s].step = "alter"
      BY DEF SetupInv, SetupTypes, reconcileKafkaTopics
    <3>1. CASE Goto(s, "retry")
      BY <3>0, <3>1, <2>GotoInv, Zenon DEF Steps
    <3>2. CASE Goto(s, "wait")
      <4>0. "wait" \in Steps
        BY DEF Steps
      <4>1. job'[s] = [job[s] EXCEPT !.step = "wait"]
        BY <3>0, <3>2 DEF Goto, SetupTypes
      <4>2. /\ job'[s] \in JobType /\ job'[s].step = "wait"
            /\ job'[s].left = job[s].left /\ job'[s].list = job[s].list
            /\ job'[s].refused = job[s].refused
        BY <3>0, <4>0, <4>1, Zenon DEF JobType
      <4>3. /\ \A t \in Topics : WellShaped(t) => WellShaped(t)'
            /\ \A t \in Topics : Good(t) => Good(t)'
        BY <3>0, GoodStays, VisibleChanges
      <4>4. /\ \A j \in DOMAIN job[s].left : job[s].left[j] \in Topics
            /\ \A i \in DOMAIN job[s].list : job[s].list[i] \in Topics
        <5>1. job[s].left \in Seq(Topics) /\ job[s].list \in Seq(Topics)
          BY <3>0, Zenon DEF JobType
        <5> QED  BY <5>1
      <4>5. (\A j \in DOMAIN job[s].left : WellShaped(job[s].left[j]))' /\ job'[s].left # <<>>
        BY <3>0, <4>2, <4>3, <4>4 DEF WellShaped, JobInv
      <4>6. (job[s].refused = FALSE => \A i \in DOMAIN job[s].list :
                 \/ Good(job[s].list[i])
                 \/ \E j \in DOMAIN job[s].left : job[s].left[j] = job[s].list[i])'
        <5>1. job[s].refused = FALSE => \A i \in DOMAIN job[s].list :
                 \/ Good(job[s].list[i])
                 \/ \E j \in DOMAIN job[s].left : job[s].left[j] = job[s].list[i]
          BY <3>0 DEF JobInv
        <5> QED  BY <4>2, <4>3, <4>4, <5>1, ZenonT(30) DEF Good, WellShaped
      <4> QED
        BY <4>2, <4>5, <4>6 DEF JobInv
    <3> QED  BY <3>1, <3>2 DEF reconcileKafkaTopics
  <2> SUFFICES ASSUME SetupInv, SetupNext, NEW s \in Services, ensureKafkaTopicsUntil(s)
               PROVE  JobInv(s)' /\ job'[s] \in JobType
    OBVIOUS
  <2>0. SetupTypes /\ NoRegress /\ JobInv(s) /\ job[s] \in JobType
    BY DEF SetupInv, SetupTypes
  <2>1. CASE ensureKafkaTopics(s)
    <3>1. Goto(s, "metadata") \/ Goto(s, "retry")
      BY <2>1 DEF ensureKafkaTopics
    <3> QED  BY <2>0, <3>1, <2>GotoInv DEF Steps
  <2>2. CASE Metadata(s)
    BY <2>0, <2>2, <2>MetadataInv
  <2>3. CASE DescribeConfigs(s)
    BY <2>3, <2>DescribeInv
  <2>4. CASE reconcileKafkaTopics(s)
    BY <2>4, <2>AlterInv
  <2>5. CASE waitForKafkaConfigVisibility(s)
    <3>1. /\ NextTopic(s) /\ job[s].step = "wait" /\ visible' = visible
          /\ driftedConfigEntries(visible[Head(job[s].left)], Head(job[s].left)) = {}
      BY <2>5 DEF waitForKafkaConfigVisibility
    <3>2. WellShaped(Head(job[s].left))
      <4>1. job[s].left \in Seq(Topics) /\ job[s].left # <<>>
        BY <2>0, <3>1 DEF JobType, JobInv
      <4>2. Head(job[s].left) = job[s].left[1] /\ 1 \in DOMAIN job[s].left
        BY <4>1, TailFacts
      <4> QED  BY <2>0, <3>1, <4>2, Zenon DEF JobInv
    <3> QED  BY <2>0, <3>1, <3>2, <2>NextTopicInv DEF Good
  <2>6. CASE AttemptFails(s) \/ SetupTimeout(s)
    <3>1. Goto(s, "retry") \/ Goto(s, "failed")
      BY <2>6 DEF AttemptFails, SetupTimeout
    <3> QED  BY <2>0, <3>1, <2>GotoInv DEF Steps
  <2>7. CASE Retry(s)
    <3>1. job'[s] = [Idle EXCEPT !.step = "create", !.list = job[s].list]
      BY <2>0, <2>7 DEF Retry, SetupTypes
    <3>2. job[s].list \in Seq(Topics)
      BY <2>0 DEF JobType
    <3>3. job'[s] \in JobType /\ job'[s].step = "create"
      BY <3>1, <3>2, CreateFacts, Zenon
    <3> QED  BY <3>3 DEF JobInv
  <2> QED
    BY <2>1, <2>2, <2>3, <2>4, <2>5, <2>6, <2>7 DEF ensureKafkaTopicsUntil
<1>0. SetupTypes /\ NoRegress /\ TunedKept /\ ConfigStep /\ TopicsMove
  BY StoredChanges, VisibleChanges DEF SetupInv
<1>1. TunedKept'
  BY <1>0 DEF TunedKept, ConfigStep, SetupTypes
<1>2. ASSUME NEW s \in Services, job'[s] = job[s] PROVE JobInv(s)' /\ job'[s] \in JobType
  BY <1>0, <1>2, <1>JobStays DEF SetupInv, SetupTypes
<1>3. ASSUME NEW s \in Services, job'[s] = Idle PROVE JobInv(s)' /\ job'[s] \in JobType
  <2>1. job'[s].step = "idle"
    BY <1>3 DEF Idle
  <2>2. Idle \in JobType
    BY DEF Idle, JobType, Steps
  <2> QED  BY <1>3, <2>1, <2>2, Zenon DEF JobInv
<1>4. ASSUME NEW s \in Services, NEW list \in Seq(Topics), initializeKafkaTopics(s, list)
      PROVE  JobInv(s)' /\ job'[s] \in JobType
  <2>1. job'[s] = [Idle EXCEPT !.step = "create", !.list = list]
    BY <1>0, <1>4 DEF initializeKafkaTopics, SetupTypes
  <2>2. job'[s] \in JobType /\ job'[s].step = "create"
    BY <2>1, CreateFacts, Zenon
  <2> QED  BY <2>2 DEF JobInv
<1>5. job' \in [Services -> JobType] /\ \A s \in Services : JobInv(s)'
  <2>1. CASE job' = job
    BY <1>0, <1>2, <2>1 DEF SetupTypes
  <2>2. ASSUME NEW s \in Services,
               \/ ensureKafkaTopicsUntil(s)
               \/ job' = [job EXCEPT ![s] = Idle]
               \/ \E list \in Seq(Topics) : initializeKafkaTopics(s, list)
        PROVE  job' \in [Services -> JobType] /\ \A v \in Services : JobInv(v)'
    <3>1. JobInv(s)' /\ job'[s] \in JobType
      <4>1. CASE job' = [job EXCEPT ![s] = Idle]
        BY <1>0, <1>3, <4>1 DEF SetupTypes
      <4> QED  BY <1>4, <2>2, <4>1, <1>JobSteps
    <3>2. /\ \A v \in Services \ {s} : job'[v] = job[v]
          /\ job' \in [Services -> {job'[v] : v \in Services}]
      BY <1>0, <2>2, OneJobSteps
    <3>3. \A v \in Services : JobInv(v)' /\ job'[v] \in JobType
      BY <1>2, <3>1, <3>2
    <3> QED  BY <3>2, <3>3
  <2>3. \/ job' = job
        \/ \E s \in Services : \/ ensureKafkaTopicsUntil(s)
                               \/ job' = [job EXCEPT ![s] = Idle]
                               \/ \E list \in Seq(Topics) : initializeKafkaTopics(s, list)
    BY DEF SetupNext, topicVars, Propagate, RaiseLimit, Tune, Reassign, OutageEnds
  <2> QED  BY <2>1, <2>2, <2>3
<1>6. SetupTypes'
  BY <1>0, <1>5, VisibleChanges DEF SetupTypes, ConfigStep
<1>7. NoRegress'
  BY <1>0, GoodStays, Zenon
<1> QED
  BY <1>0, <1>1, <1>5, <1>6, <1>7 DEF SetupInv

-----------------------------------------------------------------------------
(* The life of a service *)

StepNames == {"store", "publisher", "bridge", "tdengine", "topics", "worker", "dispatcher",
              "mqtt-auth", "metrics"}

FirstSteps(s, n) == {BuildSteps(s)[i] : i \in 1..n}

AllSteps(s) == FirstSteps(s, Len(BuildSteps(s)))

\* What is open is what the build has reached, on topics that are good; a
\* build that lost its worker or bridge has no client; and what runs in the
\* background runs on everything, except a dispatcher that is not waited for.
LifeInv(s) ==
    /\ open[s] \subseteq AllSteps(s) /\ at[s] <= Len(BuildSteps(s)) + 1
    /\ job[s].step # "idle" =>
          Building(s) /\ job[s].list = SetupList(Step(s)) /\ SetupList(Step(s)) # <<>>
    /\ \A step \in open[s] : \A n \in DOMAIN SetupList(step) : Good(SetupList(step)[n])
    /\ phase[s] = "down" => open[s] = {} /\ background[s] = "none"
    /\ phase[s] = "building" =>
          /\ \/ open[s] = FirstSteps(s, at[s] - 1)
             \/ at[s] = Len(BuildSteps(s)) + 1 /\ ~HasClient(s) /\ kind[s] # "iot-core"
          /\ background[s] = "running" => kind[s] = "iot-core"
    /\ background[s] = "running" /\ phase[s] \in {"running", "stopping"} => open[s] = AllSteps(s)
    /\ background[s] = "running" /\ phase[s] = "closing" => kind[s] = "iot-core"

LifeTypes ==
    /\ kind \in [Services -> Kinds]
    /\ phase \in [Services -> Phases]
    /\ at \in [Services -> Nat \ {0}]
    /\ open \in [Services -> SUBSET StepNames]
    /\ background \in [Services -> {"none", "running", "ended"}]

RuntimeInv == SetupInv /\ LifeTypes /\ \A s \in Services : LifeInv(s)

\* A service of no kind has no build step.
LEMMA NoIndex == \A k : k \notin 1..Len(<<>>)
OBVIOUS

\* The step before the next one is the current one.
LEMMA OneBack == \A n \in Nat : (n + 1) - 1 = n
OBVIOUS

\* The steps of a build are names, in an order.
LEMMA BuildFacts ==
    ASSUME LifeTypes, NEW s \in Services
    PROVE  /\ Len(BuildSteps(s)) \in Nat
           /\ \A i \in 1..Len(BuildSteps(s)) : BuildSteps(s)[i] \in StepNames
           /\ FirstSteps(s, 0) = {}
           /\ \A n \in Nat : FirstSteps(s, n + 1) = FirstSteps(s, n) \cup {BuildSteps(s)[n + 1]}
           /\ \A n \in 0..Len(BuildSteps(s)) : FirstSteps(s, n) \subseteq AllSteps(s)
           /\ \A n \in 1..Len(BuildSteps(s)) : BuildSteps(s)[n] \in AllSteps(s)
           /\ AllSteps(s) \subseteq StepNames
<1>1. kind[s] \in Kinds
  BY DEF LifeTypes
<1>2. /\ Len(BuildSteps(s)) \in Nat
      /\ \A i \in 1..Len(BuildSteps(s)) : BuildSteps(s)[i] \in StepNames
  <2>1. CASE kind[s] = "telemetry-ingestor"
    BY <2>1 DEF BuildSteps, StepNames
  <2>2. CASE kind[s] = "device-worker"
    BY <2>2 DEF BuildSteps, StepNames
  <2>3. CASE kind[s] = "iot-core"
    BY <2>3 DEF BuildSteps, StepNames
  <2>4. CASE kind[s] = "none"
    BY <2>4 DEF BuildSteps, StepNames
  <2> QED  BY <1>1, <2>1, <2>2, <2>3, <2>4 DEF Kinds
<1>3. FirstSteps(s, 0) = {}
  BY DEF FirstSteps
<1>4. ASSUME NEW n \in Nat
      PROVE  FirstSteps(s, n + 1) = FirstSteps(s, n) \cup {BuildSteps(s)[n + 1]}
  <2>1. \A i : i \in 1..(n + 1) <=> i \in 1..n \/ i = n + 1
    OBVIOUS
  <2> QED  BY <2>1, Zenon DEF FirstSteps
<1>5. \A n \in 0..Len(BuildSteps(s)) : FirstSteps(s, n) \subseteq AllSteps(s)
  BY <1>2 DEF FirstSteps, AllSteps
<1> QED
  BY <1>2, <1>3, <1>4, <1>5 DEF FirstSteps, AllSteps

\* At a build step that has not failed, what is open is what came before it.
LEMMA OpenSoFar ==
    ASSUME LifeTypes, NEW s \in Services, LifeInv(s), Building(s)
    PROVE  /\ phase[s] = "building" /\ at[s] \in 1..Len(BuildSteps(s)) /\ at[s] \in Nat
           /\ Len(BuildSteps(s)) \in Nat
           /\ open[s] = FirstSteps(s, at[s] - 1)
<1>1. Len(BuildSteps(s)) \in Nat
  BY BuildFacts, Zenon
<1>2. phase[s] = "building" /\ at[s] <= Len(BuildSteps(s)) /\ at[s] \in Nat \ {0}
  BY Zenon DEF Building, LifeTypes
<1>3. at[s] \in 1..Len(BuildSteps(s)) /\ at[s] # Len(BuildSteps(s)) + 1
  BY <1>1, <1>2
<1>4. open[s] = FirstSteps(s, at[s] - 1)
  BY <1>2, <1>3, Zenon DEF LifeInv
<1> QED  BY <1>1, <1>2, <1>3, <1>4, Zenon

\* The topics of a build step.
LEMMA SetupLists ==
    /\ \A step : SetupList(step) \in Seq(Topics)
    /\ SetupList("worker") = <<DlqTopic>> /\ SetupList("bridge") = <<DlqTopic>>
    /\ \A step \in StepNames :
          SetupList(step) # <<>> => step \in {"publisher", "topics", "worker", "bridge"}
<1>1. DlqTopic \in Topics /\ BusinessTopics \in Seq(Topics)
  BY TopicConstants DEF Topics
<1>2. <<DlqTopic>> \in Seq(Topics) /\ <<>> \in Seq(Topics)
  BY <1>1
<1> QED
  BY <1>1, <1>2 DEF SetupList, StepNames

\* What the services and the cluster do, the topics see as a setup step.
LEMMA RuntimeIsSetup ==
    ASSUME [RuntimeNext]_serviceVars
    PROVE  SetupNext
<1>1. CASE UNCHANGED serviceVars
  BY <1>1 DEF serviceVars, SetupNext
<1>2. CASE Cluster
  BY <1>2 DEF Cluster, SetupNext
<1>3. ASSUME NEW s \in Services, Run(s)
      PROVE  SetupNext
  <2>1. CASE SetUp(s)
    BY <2>1, SetupLists, Zenon DEF SetUp, SetupNext
  <2>2. CASE NewKafkaPublisher(s) \/ PublisherFails(s) \/ StartupError(s)
    BY <2>2 DEF NewKafkaPublisher, PublisherFails, StartupError, SetupNext
  <2>3. CASE ensureKafkaTopicsUntil(s)
    BY <2>3 DEF SetupNext
  <2>4. CASE UNCHANGED topicVars
    BY <2>4 DEF SetupNext
  <2> QED
    BY <1>3, <2>1, <2>2, <2>3, <2>4, Zenon DEF Run, Start, Open, OpenFails, Built, Signal,
       BackgroundFails, ErrorReceived, BackgroundStops, Waited, WaitTimesOut, AuxDrained, Close, Exit
<1> QED  BY <1>1, <1>2, <1>3 DEF RuntimeNext

\* A good topic stays good in every step of the services.
LEMMA GoodKept ==
    ASSUME RuntimeInv, SetupNext
    PROVE  /\ \A t \in Topics : Good(t) => Good(t)'
           /\ SetupInv'
<1>1. SetupInv' /\ TopicsMove /\ SetupTypes /\ NoRegress
  BY SetupStep DEF RuntimeInv, SetupInv
<1> QED  BY <1>1, GoodStays

\* What a service has set up stays good, whatever another one does.
LEMMA OpenStaysGood ==
    ASSUME RuntimeInv, SetupNext, NEW s \in Services, NEW now,
           now \subseteq open[s], open'[s] = now
    PROVE  (\A step \in open[s] : \A n \in DOMAIN SetupList(step) : Good(SetupList(step)[n]))'
<1>1. \A step \in open[s] : \A n \in DOMAIN SetupList(step) : Good(SetupList(step)[n])
  BY DEF RuntimeInv, LifeInv
<1>2. \A step : \A n \in DOMAIN SetupList(step) : SetupList(step)[n] \in Topics
  BY SetupLists
<1>3. ASSUME NEW step \in open'[s], NEW n \in DOMAIN SetupList(step)
      PROVE  Good(SetupList(step)[n])'
  <2>1. Good(SetupList(step)[n]) /\ SetupList(step)[n] \in Topics
    BY <1>1, <1>2
  <2> QED  BY <2>1, GoodKept DEF SetupList
<1> QED  BY <1>3, Zenon DEF SetupList

\* The runtime invariant is inductive.
LEMMA RuntimeStep ==
    ASSUME RuntimeInv, [RuntimeNext]_serviceVars
    PROVE  RuntimeInv'
  \* A service whose own state stays.
<1>LifeStays.
      ASSUME RuntimeInv, SetupNext, NEW s \in Services,
             kind' = kind, phase'[s] = phase[s], at'[s] = at[s], open'[s] = open[s],
             background'[s] = background[s],
             job'[s].step = "idle" \/ (job[s].step # "idle" /\ job'[s].list = job[s].list)
      PROVE  LifeInv(s)'
  <2> USE <1>LifeStays
  <2>1. LifeInv(s)
    BY DEF RuntimeInv
  <2>2. /\ BuildSteps(s)' = BuildSteps(s) /\ AllSteps(s)' = AllSteps(s)
        /\ FirstSteps(s, at[s] - 1)' = FirstSteps(s, at[s] - 1)
        /\ Building(s)' = Building(s) /\ HasClient(s)' = HasClient(s)
        /\ SetupList(Step(s))' = SetupList(Step(s))
    BY DEF BuildSteps, AllSteps, FirstSteps, Building, HasClient, Step, SetupList
  <2>3. (\A step \in open[s] : \A n \in DOMAIN SetupList(step) : Good(SetupList(step)[n]))'
    BY OpenStaysGood
  <2> QED  BY <2>1, <2>2, <2>3, Zenon DEF LifeInv
  \* While a service is built, its life is kept.
<1>BuildLife.
        \A s \in Services :
            /\ RuntimeInv
            /\ SetupNext
            /\ \/ Start(s) \/ Open(s) \/ SetUp(s) \/ NewKafkaPublisher(s) \/ OpenFails(s)
               \/ PublisherFails(s) \/ StartupError(s) \/ Built(s)
            => LifeInv(s)'
      \* What is open when a build step begins: a step that fails the build finds
      \* only what an abort closes, and the setup of a worker or bridge no client.
  <2>BuildOrder.
        ASSUME LifeTypes, NEW s \in Services, NEW n \in 1..Len(BuildSteps(s))
        PROVE  /\ BuildSteps(s)[n] # "worker" =>
                     FirstSteps(s, n - 1) \subseteq
                        {"store", "publisher", "tdengine", "dispatcher"}
                        \cup (IF BuildSteps(s)[n] = "metrics" THEN {"mqtt-auth"} ELSE {})
               /\ BuildSteps(s)[n] \in {"topics", "worker", "bridge"} =>
                     /\ FirstSteps(s, n - 1) \cap {"worker", "bridge", "dispatcher"} = {}
                     /\ kind[s] # "iot-core"
               /\ BuildSteps(s)[n] = "dispatcher" => kind[s] = "iot-core"
    <3> USE <2>BuildOrder
    <3>1. kind[s] \in Kinds
      BY DEF LifeTypes
    <3>2. CASE kind[s] = "telemetry-ingestor"
      <4>1. BuildSteps(s) = <<"store", "publisher", "bridge">>
        BY <3>2 DEF BuildSteps
      <4> QED  BY <3>2, <4>1, SMTT(30) DEF FirstSteps
    <3>3. CASE kind[s] = "device-worker"
      <4>1. BuildSteps(s) = <<"store", "publisher", "tdengine", "topics", "worker">>
        BY <3>3, Zenon DEF BuildSteps
      <4> QED  BY <3>3, <4>1, SMTT(30) DEF FirstSteps
    <3>4. CASE kind[s] = "iot-core"
      <4>1. BuildSteps(s) = <<"store", "publisher", "dispatcher", "mqtt-auth", "metrics">>
        BY <3>4 DEF BuildSteps
      <4> QED  BY <3>4, <4>1, SMTT(30) DEF FirstSteps
    <3>5. CASE kind[s] = "none"
      <4>1. BuildSteps(s) = <<>>
        BY <3>5, Zenon DEF BuildSteps
      <4> QED  BY <4>1, NoIndex, Zenon
    <3> QED  BY <3>1, <3>2, <3>3, <3>4, <3>5 DEF Kinds
    \* A build that moves on: the step it opens has its topics good.
  <2>OpenedLife.
        ASSUME RuntimeInv, SetupNext, NEW s \in Services, Building(s), Opened(s),
               kind' = kind, phase' = phase, job'[s].step = "idle",
               \A n \in DOMAIN SetupList(Step(s)) : Good(SetupList(Step(s))[n]),
               \/ background'[s] = background[s]
               \/ Step(s) = "dispatcher"
        PROVE  LifeInv(s)'
    <3> USE <2>OpenedLife
    <3> DEFINE new == Step(s)
    <3>0. LifeInv(s) /\ LifeTypes
      BY Zenon DEF RuntimeInv
    <3>1. /\ phase[s] = "building" /\ at[s] \in 1..Len(BuildSteps(s)) /\ at[s] \in Nat
          /\ Len(BuildSteps(s)) \in Nat
      BY <3>0, OpenSoFar, Zenon
    <3>2. open[s] = FirstSteps(s, at[s] - 1)
      BY <3>0, OpenSoFar, Zenon
    <3>3. at'[s] = at[s] + 1 /\ open'[s] = open[s] \cup {new}
      BY <3>0 DEF Opened, LifeTypes
    <3>4. /\ BuildSteps(s)' = BuildSteps(s) /\ AllSteps(s)' = AllSteps(s)
          /\ \A n \in Nat : FirstSteps(s, n)' = FirstSteps(s, n)
      BY DEF BuildSteps, AllSteps, FirstSteps
    <3>5. open'[s] = FirstSteps(s, at[s])
      <4>1. at[s] - 1 \in Nat /\ (at[s] - 1) + 1 = at[s]
        BY <3>1
      <4>2. FirstSteps(s, (at[s] - 1) + 1) = FirstSteps(s, at[s] - 1) \cup {BuildSteps(s)[(at[s] - 1) + 1]}
        BY <3>0, <4>1, BuildFacts, Zenon
      <4> QED  BY <3>2, <3>3, <4>1, <4>2, Zenon DEF Step
    <3>6. (open[s] = FirstSteps(s, at[s] - 1))'
      <4>1. at'[s] - 1 = at[s]
        BY <3>1, <3>3, OneBack, Zenon
      <4> QED  BY <3>4, <3>5, <4>1, Zenon DEF FirstSteps
    <3>7. (open[s] \subseteq AllSteps(s) /\ at[s] <= Len(BuildSteps(s)) + 1)'
      BY <3>0, <3>1, <3>3, <3>4, <3>5, BuildFacts
    <3>8. (\A step \in open[s] : \A n \in DOMAIN SetupList(step) : Good(SetupList(step)[n]))'
      <4>1. \A step \in open'[s] : \A n \in DOMAIN SetupList(step) : Good(SetupList(step)[n])
        BY <3>0, <3>3, Zenon DEF LifeInv
      <4>2. \A step : \A n \in DOMAIN SetupList(step) : SetupList(step)[n] \in Topics
        BY SetupLists
      <4>3. ASSUME NEW step \in open'[s], NEW n \in DOMAIN SetupList(step)
            PROVE  Good(SetupList(step)[n])'
        <5>1. Good(SetupList(step)[n]) /\ SetupList(step)[n] \in Topics
          BY <4>1, <4>2, Zenon
        <5> QED  BY <5>1, GoodKept DEF SetupList
      <4> QED  BY <4>3, Zenon DEF SetupList
    <3>9. (background[s] = "running" => kind[s] = "iot-core")'
      BY <3>0, <3>1, <2>BuildOrder DEF LifeInv, Step
    <3>10. phase'[s] = "building"
      BY <3>1, Zenon
    <3> QED  BY <3>6, <3>7, <3>8, <3>9, <3>10 DEF LifeInv
    \* A build that fails leaves nothing open.
  <2>AbortLife.
        ASSUME RuntimeInv, SetupNext, NEW s \in Services, Building(s), Step(s) # "worker", Abort(s),
               kind' = kind, at' = at, job'[s].step = "idle"
        PROVE  LifeInv(s)'
    <3> USE <2>AbortLife
    <3>0. LifeInv(s) /\ LifeTypes
      BY Zenon DEF RuntimeInv
    <3>1. phase[s] = "building" /\ at[s] \in 1..Len(BuildSteps(s)) /\ Len(BuildSteps(s)) \in Nat
      BY <3>0, OpenSoFar, Zenon
    <3>2. open[s] = FirstSteps(s, at[s] - 1)
      BY <3>0, OpenSoFar, Zenon
    <3>3. /\ phase'[s] = "down" /\ open'[s] = open[s] \ ReleasedOnFailure(s)
          /\ background'[s] = "none"
      BY <3>0, Zenon DEF Abort, LifeTypes
    <3>4. open[s] \subseteq ReleasedOnFailure(s)
      <4>1. FirstSteps(s, at[s] - 1) \subseteq
                {"store", "publisher", "tdengine", "dispatcher"}
                \cup (IF BuildSteps(s)[at[s]] = "metrics" THEN {"mqtt-auth"} ELSE {})
        BY <3>0, <3>1, <2>BuildOrder, Zenon DEF Step
      <4> QED  BY <3>2, <4>1, Zenon DEF ReleasedOnFailure, Step
    <3>5. open'[s] = {}
      BY <3>3, <3>4
    <3>6. BuildSteps(s)' = BuildSteps(s)
      BY Zenon DEF BuildSteps
    <3>7. (at[s] <= Len(BuildSteps(s)) + 1)'
      BY <3>1, <3>6
    <3> QED  BY <3>3, <3>5, <3>7, Zenon DEF LifeInv
    \* The setup of a worker or bridge that fails leaves it without a client.
  <2>StartupErrorLife.
        ASSUME RuntimeInv, SetupNext, NEW s \in Services, StartupError(s)
        PROVE  LifeInv(s)'
    <3> USE <2>StartupErrorLife
    <3>0. LifeInv(s) /\ LifeTypes /\ SetupTypes /\ Building(s)
      BY DEF RuntimeInv, SetupInv, StartupError
    <3>1. phase[s] = "building" /\ at[s] \in 1..Len(BuildSteps(s)) /\ Len(BuildSteps(s)) \in Nat
      BY <3>0, OpenSoFar, Zenon
    <3>2. open[s] = FirstSteps(s, at[s] - 1)
      BY <3>0, OpenSoFar, Zenon
    <3>3. /\ job'[s] = Idle /\ at'[s] = Len(BuildSteps(s)) + 1 /\ phase' = phase /\ kind' = kind
          /\ open' = open /\ background' = background
      BY <3>0 DEF StartupError, SetupTypes, LifeTypes
    <3>4. Step(s) \in {"topics", "worker", "bridge"}
      <4>1. Step(s) # "publisher" /\ SetupList(Step(s)) # <<>>
        BY <3>0 DEF StartupError, LifeInv
      <4>2. Step(s) \in StepNames
        BY <3>0, <3>1, BuildFacts, Zenon DEF Step
      <4> QED  BY <4>1, <4>2, SetupLists, Zenon
    <3>5. ~HasClient(s) /\ kind[s] # "iot-core"
      BY <3>0, <3>1, <3>2, <3>4, <2>BuildOrder DEF HasClient, Step
    <3>6. BuildSteps(s)' = BuildSteps(s) /\ AllSteps(s)' = AllSteps(s) /\ HasClient(s)' = HasClient(s)
      BY <3>3, Zenon DEF BuildSteps, AllSteps, FirstSteps, HasClient
    <3>7. (\A step \in open[s] : \A n \in DOMAIN SetupList(step) : Good(SetupList(step)[n]))'
      BY <3>3, OpenStaysGood, Zenon
    <3>8. job'[s].step = "idle"
      BY <3>3 DEF Idle
    <3>9. (at[s] <= Len(BuildSteps(s)) + 1)'
      BY <3>1, <3>3, <3>6
    <3> QED  BY <3>0, <3>1, <3>3, <3>5, <3>6, <3>7, <3>8, <3>9, Zenon DEF LifeInv
  <2> SUFFICES ASSUME RuntimeInv, SetupNext, NEW s \in Services,
                      \/ Start(s) \/ Open(s) \/ SetUp(s) \/ NewKafkaPublisher(s) \/ OpenFails(s)
                      \/ PublisherFails(s) \/ StartupError(s) \/ Built(s)
               PROVE  LifeInv(s)'
    OBVIOUS
  <2>0. LifeInv(s) /\ LifeTypes /\ SetupTypes /\ JobInv(s)
    BY Zenon DEF RuntimeInv, SetupInv
  <2>1. CASE Start(s)
    <3>1. /\ phase[s] = "down" /\ phase'[s] = "building" /\ at'[s] = 1 /\ kind' = kind
          /\ open' = open /\ background' = background /\ job' = job
      BY <2>0, <2>1 DEF Start, LifeTypes, topicVars
    <3>2. open[s] = {} /\ background[s] = "none" /\ job[s].step = "idle"
      BY <2>0, <3>1, Zenon DEF LifeInv, Building
    <3>3. BuildSteps(s)' = BuildSteps(s) /\ FirstSteps(s, 0)' = FirstSteps(s, 0)
      BY <3>1, Zenon DEF BuildSteps, FirstSteps
    <3>4. (open[s] = FirstSteps(s, at[s] - 1))'
      <4>0. 1 - 1 = 0
        OBVIOUS
      <4>1. at'[s] - 1 = 0
        BY <3>1, <4>0, Zenon
      <4> QED  BY <2>0, <3>1, <3>2, <3>3, <4>1, BuildFacts, Zenon DEF FirstSteps
    <3>5. (at[s] <= Len(BuildSteps(s)) + 1)'
      <4>1. Len(BuildSteps(s)) \in Nat
        BY <2>0, BuildFacts, Zenon
      <4>2. 1 <= Len(BuildSteps(s)) + 1
        BY <4>1
      <4> QED  BY <3>1, <3>3, <4>2, Zenon
    <3> QED  BY <3>1, <3>2, <3>4, <3>5, Zenon DEF LifeInv
  <2>2. CASE Open(s)
    <3>1. /\ Building(s) /\ SetupList(Step(s)) = <<>> /\ Opened(s) /\ kind' = kind /\ phase' = phase
          /\ job' = job
      BY <2>2, Zenon DEF Open, topicVars
    <3>2. background'[s] = background[s] \/ Step(s) = "dispatcher"
      BY <2>0, <2>2 DEF Open, LifeTypes
    <3>3. job[s].step = "idle"
      BY <2>0, <3>1, Zenon DEF LifeInv
    <3>4. \A n \in DOMAIN SetupList(Step(s)) : Good(SetupList(Step(s))[n])
      BY <3>1
    <3> QED  BY <3>1, <3>2, <3>3, <3>4, <2>OpenedLife, Zenon
  <2>3. CASE SetUp(s)
    <3>1. /\ Building(s) /\ SetupList(Step(s)) # <<>> /\ kind' = kind /\ phase' = phase /\ at' = at
          /\ open' = open /\ background' = background
      BY <2>3 DEF SetUp, runtimeVars
    <3>2. job'[s] = [Idle EXCEPT !.step = "create", !.list = SetupList(Step(s))]
      BY <2>0, <2>3 DEF SetUp, initializeKafkaTopics, SetupTypes
    <3>3. job'[s].list = SetupList(Step(s))
      BY <3>2, SetupLists, CreateFacts, Zenon
    <3>4. /\ BuildSteps(s)' = BuildSteps(s) /\ AllSteps(s)' = AllSteps(s)
          /\ FirstSteps(s, at[s] - 1)' = FirstSteps(s, at[s] - 1)
          /\ Building(s)' = Building(s) /\ HasClient(s)' = HasClient(s)
          /\ SetupList(Step(s))' = SetupList(Step(s))
      BY <3>1, ZenonT(30) DEF BuildSteps, AllSteps, FirstSteps, Building, HasClient, Step, SetupList
    <3>5. (\A step \in open[s] : \A n \in DOMAIN SetupList(step) : Good(SetupList(step)[n]))'
      BY <3>1, OpenStaysGood
    <3> QED  BY <2>0, <3>1, <3>3, <3>4, <3>5, Zenon DEF LifeInv
  <2>4. CASE NewKafkaPublisher(s)
    <3>1. /\ Building(s) /\ job[s].step = "ready" /\ Opened(s) /\ kind' = kind /\ phase' = phase
          /\ background' = background /\ job'[s].step = "idle"
      BY <2>0, <2>4, Zenon DEF NewKafkaPublisher, SetupTypes, Idle
    <3>2. \A n \in DOMAIN SetupList(Step(s)) : Good(SetupList(Step(s))[n])
      <4>1. \A i \in DOMAIN job[s].list : Good(job[s].list[i])
        BY <2>0, <3>1, ZenonT(30) DEF JobInv
      <4>2. job[s].list = SetupList(Step(s))
        BY <2>0, <3>1, ZenonT(30) DEF LifeInv
      <4> QED  BY <4>1, <4>2
    <3> QED  BY <3>1, <3>2, <2>OpenedLife, Zenon
  <2>5. CASE OpenFails(s)
    <3>1. /\ Building(s) /\ SetupList(Step(s)) = <<>> /\ Abort(s) /\ kind' = kind /\ at' = at
          /\ job' = job
      BY <2>5, Zenon DEF OpenFails, topicVars
    <3>2. job[s].step = "idle"
      BY <2>0, <3>1, Zenon DEF LifeInv
    <3>3. Step(s) # "worker"
      <4>1. <<DlqTopic>> # <<>>
        OBVIOUS
      <4> QED  BY <3>1, <4>1, SetupLists, Zenon
    <3> QED  BY <3>1, <3>2, <3>3, <2>AbortLife, Zenon
  <2>6. CASE PublisherFails(s)
    <3>1. /\ Building(s) /\ Step(s) = "publisher" /\ Abort(s) /\ kind' = kind /\ at' = at
          /\ job'[s].step = "idle"
      BY <2>0, <2>6, Zenon DEF PublisherFails, SetupTypes, Idle
    <3> QED  BY <3>1, <2>AbortLife, Zenon
  <2>7. CASE StartupError(s)
    BY <2>7, <2>StartupErrorLife
  <2>8. CASE Built(s)
    <3>1. /\ phase[s] = "building" /\ at[s] > Len(BuildSteps(s)) /\ phase'[s] = "running"
          /\ background'[s] = (IF HasClient(s) THEN "running" ELSE "ended")
          /\ kind' = kind /\ at' = at /\ open' = open /\ job' = job
      BY <2>0, <2>8 DEF Built, LifeTypes, topicVars
    <3>2. at[s] \in Nat /\ Len(BuildSteps(s)) \in Nat /\ at[s] <= Len(BuildSteps(s)) + 1
      BY <2>0, BuildFacts, ZenonT(30) DEF LifeTypes, LifeInv
    <3>3. at[s] - 1 = Len(BuildSteps(s)) /\ ~Building(s)
      BY <3>1, <3>2 DEF Building
    <3>4. BuildSteps(s)' = BuildSteps(s) /\ AllSteps(s)' = AllSteps(s)
      BY <3>1 DEF BuildSteps, AllSteps, FirstSteps
    <3>5. background'[s] = "running" => open[s] = AllSteps(s)
      BY <2>0, <3>1, <3>3, ZenonT(30) DEF LifeInv, AllSteps
    <3>6. (\A step \in open[s] : \A n \in DOMAIN SetupList(step) : Good(SetupList(step)[n]))'
      BY <3>1, OpenStaysGood, Zenon
    <3>7. job[s].step = "idle"
      BY <2>0, <3>3, Zenon DEF LifeInv
    <3> QED  BY <2>0, <3>1, <3>4, <3>5, <3>6, <3>7, Zenon DEF LifeInv
  <2> QED  BY <2>1, <2>2, <2>3, <2>4, <2>5, <2>6, <2>7, <2>8, Zenon
  \* While a service runs and stops, its life is kept.
<1>StopLife.
      ASSUME RuntimeInv, SetupNext, NEW s \in Services,
             \/ Signal(s) \/ BackgroundFails(s) \/ ErrorReceived(s) \/ BackgroundStops(s)
             \/ Waited(s) \/ WaitTimesOut(s) \/ AuxDrained(s) \/ Close(s) \/ Exit(s)
      PROVE  LifeInv(s)'
  <2> USE <1>StopLife
  <2>0. LifeInv(s) /\ LifeTypes
    BY Zenon DEF RuntimeInv
  <2>1. /\ kind' = kind /\ at' = at /\ job' = job
        /\ open'[s] \subseteq open[s] /\ phase[s] \notin {"down", "building"}
        /\ phase'[s] # "building"
    BY <2>0, SMTT(30) DEF Signal, BackgroundFails, ErrorReceived, BackgroundStops, Waited,
       WaitTimesOut, AuxDrained, Close, Exit, LifeTypes, topicVars, Closers
  <2>2. job[s].step = "idle"
    BY <2>0, <2>1, Zenon DEF LifeInv, Building
  <2>3. BuildSteps(s)' = BuildSteps(s) /\ AllSteps(s)' = AllSteps(s)
    BY <2>1 DEF BuildSteps, AllSteps, FirstSteps
  <2>4. (\A step \in open[s] : \A n \in DOMAIN SetupList(step) : Good(SetupList(step)[n]))'
    BY <2>1, OpenStaysGood, Zenon
  <2>5. (open[s] \subseteq AllSteps(s) /\ at[s] <= Len(BuildSteps(s)) + 1)'
    BY <2>0, <2>1, <2>3, Zenon DEF LifeInv
  <2>6. (phase[s] = "down" => open[s] = {} /\ background[s] = "none")'
    BY <2>0, <2>1, SMTT(30) DEF Signal, BackgroundFails, ErrorReceived, BackgroundStops, Waited,
       WaitTimesOut, AuxDrained, Close, Exit, LifeTypes, Closers
  <2>7. (background[s] = "running" /\ phase[s] \in {"running", "stopping"} => open[s] = AllSteps(s))'
    <3>1. background'[s] = "running" /\ phase'[s] \in {"running", "stopping"} =>
             open'[s] = open[s] /\ background[s] = "running" /\ phase[s] \in {"running", "stopping"}
      BY <2>0, SMTT(30) DEF Signal, BackgroundFails, ErrorReceived, BackgroundStops, Waited,
         WaitTimesOut, AuxDrained, Close, Exit, LifeTypes, Closers
    <3> QED  BY <2>0, <2>3, <3>1, ZenonT(30) DEF LifeInv
  <2>8. (background[s] = "running" /\ phase[s] = "closing" => kind[s] = "iot-core")'
    <3>1. background'[s] = "running" /\ phase'[s] = "closing" =>
             \/ kind[s] = "iot-core"
             \/ background[s] = "running" /\ phase[s] = "closing"
      BY <2>0, SMTT(30) DEF Signal, BackgroundFails, ErrorReceived, BackgroundStops, Waited,
         WaitTimesOut, AuxDrained, Close, Exit, LifeTypes, Closers
    <3> QED  BY <2>0, <2>1, <3>1, ZenonT(30) DEF LifeInv
  <2> QED  BY <2>1, <2>2, <2>4, <2>5, <2>6, <2>7, <2>8, Zenon DEF LifeInv
  \* A setup attempt works on the list it was given.
<1>ListStays.
      ASSUME SetupTypes, NEW s \in Services, ensureKafkaTopicsUntil(s)
      PROVE  job[s].step # "idle" /\ job'[s].list = job[s].list
  <2> USE <1>ListStays
  <2>0. job \in [Services -> JobType]
    BY DEF SetupTypes
  <2>1. ASSUME NEW step \in Steps, Goto(s, step)
        PROVE  job'[s].list = job[s].list
    BY <2>0, <2>1, Zenon DEF Goto, JobType
  <2>2. ASSUME NextTopic(s)
        PROVE  job'[s].list = job[s].list
    BY <2>0, <2>2 DEF NextTopic, JobType
  <2>3. job[s].step # "idle"
    BY Zenon DEF ensureKafkaTopicsUntil, ensureKafkaTopics, Metadata, DescribeConfigs,
       reconcileKafkaTopics, waitForKafkaConfigVisibility, AttemptFails, Retry, SetupTimeout
  <2>4. CASE Metadata(s)
    <3>1. \E left, refused, step : job' = [job EXCEPT ![s].left = left,
                              ![s].refused = refused, ![s].step = step]
      <4>1. PICK good \in 0..Len(job[s].list) :
              job' = [job EXCEPT ![s].left = SubSeq(job[s].list, 1, good),
                                 ![s].refused = good < Len(job[s].list),
                                 ![s].step = IF good > 0 THEN "describe" ELSE "retry"]
        BY <2>4, Zenon DEF Metadata
      <4> QED  BY <4>1, Zenon
    <3> QED  BY <2>0, <2>3, <3>1 DEF JobType
  <2>5. CASE DescribeConfigs(s)
    <3>1. CASE NextTopic(s)
      BY <2>2, <2>3, <3>1
    <3>2. CASE ~NextTopic(s)
      <4>1. \E drift, read : job' = [job EXCEPT ![s].step = "alter", ![s].drift = drift,
                                                ![s].read = read]
        BY <2>5, <3>2, Zenon DEF DescribeConfigs
      <4> QED  BY <2>0, <2>3, <4>1 DEF JobType
    <3> QED  BY <3>1, <3>2, Zenon
  <2>6. CASE Retry(s)
    <3>1. /\ job'[s] = [Idle EXCEPT !.step = "create", !.list = job[s].list]
          /\ job[s].list \in Seq(Topics)
      BY <2>0, <2>6 DEF Retry, JobType
    <3> QED  BY <2>3, <3>1, CreateFacts, Zenon
  <2> QED
    BY <2>1, <2>2, <2>3, <2>4, <2>5, <2>6, Zenon DEF ensureKafkaTopicsUntil, ensureKafkaTopics,
       reconcileKafkaTopics, waitForKafkaConfigVisibility, AttemptFails, SetupTimeout, Steps
  \* A step of service s leaves the others alone and keeps the types.
<1>RunFrame.
      ASSUME RuntimeInv, NEW s \in Services, Run(s)
      PROVE  /\ LifeTypes' /\ kind' = kind
             /\ \A v \in Services \ {s} :
                   /\ phase'[v] = phase[v] /\ at'[v] = at[v] /\ open'[v] = open[v]
                   /\ background'[v] = background[v] /\ job'[v] = job[v]
  <2> USE <1>RunFrame
  <2>0. LifeTypes /\ SetupTypes
    BY Zenon DEF RuntimeInv, SetupInv
  <2>1. Building(s) => Step(s) \in StepNames
    BY <2>0, BuildFacts DEF Building, Step, LifeTypes
  <2>2. CASE Start(s)
    BY <2>0, <2>2 DEF Start, LifeTypes, topicVars, Phases
  <2>3. CASE Open(s)
    BY <2>0, <2>1, <2>3 DEF Open, Opened, LifeTypes, topicVars
  <2>4. CASE SetUp(s)
    BY <2>0, <2>4, Zenon DEF SetUp, LifeTypes, SetupTypes, initializeKafkaTopics, runtimeVars
  <2>5. CASE NewKafkaPublisher(s)
    BY <2>0, <2>1, <2>5 DEF NewKafkaPublisher, Opened, LifeTypes, SetupTypes
  <2>6. CASE OpenFails(s)
    BY <2>0, <2>6, Zenon DEF OpenFails, Abort, LifeTypes, topicVars, Phases
  <2>7. CASE PublisherFails(s)
    BY <2>0, <2>7, Zenon DEF PublisherFails, Abort, LifeTypes, SetupTypes, Phases
  <2>8. CASE StartupError(s)
    <3>1. Len(BuildSteps(s)) + 1 \in Nat \ {0}
      BY <2>0, BuildFacts
    <3> QED  BY <2>0, <2>8, <3>1, Zenon DEF StartupError, LifeTypes, SetupTypes
  <2>9. CASE Built(s)
    BY <2>0, <2>9, Zenon DEF Built, LifeTypes, topicVars, Phases
  <2>10. CASE Signal(s) \/ BackgroundFails(s) \/ ErrorReceived(s) \/ BackgroundStops(s)
    BY <2>0, <2>10, Zenon DEF Signal, BackgroundFails, ErrorReceived, BackgroundStops, LifeTypes,
       topicVars, Phases
  <2>11. CASE Waited(s) \/ WaitTimesOut(s) \/ AuxDrained(s)
    BY <2>0, <2>11, ZenonT(30) DEF Waited, WaitTimesOut, AuxDrained, LifeTypes, topicVars, Phases
  <2>12. CASE Close(s)
    BY <2>0, <2>12, Zenon DEF Close, LifeTypes, topicVars
  <2>13. CASE Exit(s)
    BY <2>0, <2>13, Zenon DEF Exit, LifeTypes, topicVars, Phases
  <2>14. CASE ensureKafkaTopicsUntil(s) /\ UNCHANGED runtimeVars
    BY <2>0, <2>14, OneJobSteps DEF LifeTypes, runtimeVars
  <2> QED
    BY <2>2, <2>3, <2>4, <2>5, <2>6, <2>7, <2>8, <2>9, <2>10, <2>11, <2>12, <2>13, <2>14, Zenon DEF Run
<1>0. SetupNext /\ SetupInv' /\ LifeTypes /\ SetupTypes
  BY RuntimeIsSetup, GoodKept DEF RuntimeInv, SetupInv
<1>1. CASE UNCHANGED serviceVars \/ Cluster
  <2>1. UNCHANGED runtimeVars /\ job' = job
    BY <1>1, Zenon DEF serviceVars, topicVars, Cluster, Propagate, RaiseLimit, Tune, Reassign, OutageEnds
  <2>2. ASSUME NEW s \in Services PROVE LifeInv(s)'
    BY <1>0, <2>1, <1>LifeStays, Zenon DEF runtimeVars
  <2>3. LifeTypes'
    BY <1>0, <2>1 DEF LifeTypes, runtimeVars
  <2> QED  BY <1>0, <2>2, <2>3 DEF RuntimeInv
<1>2. ASSUME NEW s \in Services, Run(s)
      PROVE  RuntimeInv'
  <2>1. /\ LifeTypes' /\ kind' = kind
        /\ \A v \in Services \ {s} :
              /\ phase'[v] = phase[v] /\ at'[v] = at[v] /\ open'[v] = open[v]
              /\ background'[v] = background[v] /\ job'[v] = job[v]
    BY <1>2, <1>RunFrame, Zenon
  <2>2. ASSUME NEW v \in Services \ {s} PROVE LifeInv(v)'
    BY <1>0, <2>1, <1>LifeStays
  <2>3. LifeInv(s)'
    <3>1. CASE ensureKafkaTopicsUntil(s) /\ UNCHANGED runtimeVars
      <4>1. job[s].step # "idle" /\ job'[s].list = job[s].list
        BY <1>0, <3>1, <1>ListStays
      <4> QED  BY <1>0, <3>1, <4>1, <1>LifeStays, Zenon DEF runtimeVars
    <3> QED  BY <1>0, <1>2, <3>1, <1>BuildLife, <1>StopLife, Zenon DEF Run
  <2> QED  BY <1>0, <2>1, <2>2, <2>3, Zenon DEF RuntimeInv
<1> QED  BY <1>1, <1>2 DEF RuntimeNext

\* It holds when nothing has started.
LEMMA RuntimeStart ==
    ASSUME RuntimeInit([s \in Services |-> 0])
    PROVE  RuntimeInv
<1>1. /\ TopicsInit /\ kind \in [Services -> Kinds]
      /\ phase = [s \in Services |-> "down"] /\ at = [s \in Services |-> 1]
      /\ open = [s \in Services |-> {}] /\ background = [s \in Services |-> "none"]
  BY DEF RuntimeInit
<1>2. SetupInv
  <2>1. Idle \in JobType /\ Idle.step = "idle"
    BY DEF Idle, JobType, Steps
  <2>2. SetupTypes
    BY <1>1, <2>1 DEF TopicsInit, SetupTypes
  <2>3. NoRegress /\ TunedKept
    BY <1>1, Zenon DEF TopicsInit, NoRegress, TunedKept, AsGood
  <2>4. ASSUME NEW s \in Services PROVE JobInv(s)
    BY <1>1, <2>1, Zenon DEF TopicsInit, JobInv
  <2> QED  BY <2>2, <2>3, <2>4, Zenon DEF SetupInv
<1>3. LifeTypes
  <2>1. 1 \in Nat \ {0}
    OBVIOUS
  <2> QED  BY <1>1, <2>1, Zenon DEF LifeTypes, Phases
<1>4. ASSUME NEW s \in Services PROVE LifeInv(s)
  <2>1. /\ phase[s] = "down" /\ at[s] = 1 /\ open[s] = {} /\ background[s] = "none"
        /\ job[s].step = "idle"
    BY <1>1 DEF TopicsInit, Idle
  <2>2. Len(BuildSteps(s)) \in Nat
    BY <1>3, BuildFacts, Zenon
  <2>3. 1 <= Len(BuildSteps(s)) + 1
    BY <2>2
  <2> QED  BY <2>1, <2>3, Zenon DEF LifeInv
<1> QED  BY <1>2, <1>3, <1>4, Zenon DEF RuntimeInv

LEMMA RuntimeAlways == RuntimeSpec => []RuntimeInv
<1>1. RuntimeInit([s \in Services |-> 0]) => RuntimeInv
  BY RuntimeStart
<1>2. RuntimeInv /\ [RuntimeNext]_serviceVars => RuntimeInv'
  BY RuntimeStep
<1> QED  BY <1>1, <1>2, PTL DEF RuntimeSpec

\* For every number of services, every list of topics and whatever an earlier
\* deployment left of them: when a service is down nothing of it is left open,
\* whichever step of its build failed (run.go:146, server.go:102), and its
\* worker or bridge never runs on something closed unless the five seconds it
\* is given to stop have passed (run.go:76).
THEOREM LifeSafe == RuntimeSpec => []OpenFollowsLife
<1>1. ASSUME RuntimeInv PROVE OpenFollowsLife
  <2>0. SetupTypes /\ LifeTypes /\ \A s \in Services : JobInv(s) /\ LifeInv(s) /\ job[s] \in JobType
    BY <1>1, Zenon DEF RuntimeInv, SetupInv, SetupTypes
  <2>1. TopicsTypeOK
    BY <2>0, Zenon DEF SetupTypes, TopicsTypeOK, JobInv, JobType
  <2>2. ASSUME NEW s \in Services
        PROVE  /\ open[s] \subseteq {BuildSteps(s)[i] : i \in 1..Len(BuildSteps(s))}
               /\ at[s] \in 1..(Len(BuildSteps(s)) + 1)
               /\ job[s].step # "idle" => Building(s)
    <3>1. LifeInv(s) /\ at[s] \in Nat \ {0} /\ Len(BuildSteps(s)) \in Nat
      BY <2>0, BuildFacts, Zenon DEF LifeTypes
    <3> QED  BY <3>1 DEF LifeInv, AllSteps, FirstSteps
  <2>3. RuntimeTypeOK
    BY <2>0, <2>1, <2>2, Zenon DEF RuntimeTypeOK, LifeTypes
  <2>4. ASSUME NEW s \in Services, background[s] = "running", kind[s] # "iot-core",
               phase[s] # "forced"
        PROVE  open[s] = AllSteps(s)
    <3>1. phase[s] \in Phases /\ LifeInv(s)
      BY <2>0, Zenon DEF LifeTypes
    <3> QED  BY <2>4, <3>1, Zenon DEF LifeInv, Phases
  <2>5. ASSUME NEW s \in Services, phase[s] = "down" PROVE open[s] = {}
    BY <2>0, <2>5 DEF LifeInv
  <2>6. \A s \in Services : \A i \in 1..Len(BuildSteps(s)) : BuildSteps(s)[i] \in AllSteps(s)
    BY <2>0, BuildFacts, Zenon
  <2> QED  BY <2>3, <2>4, <2>5, <2>6 DEF OpenFollowsLife
<1> QED  BY <1>1, RuntimeAlways, PTL

\* For every number of services, every list of topics and whatever an earlier
\* deployment left of them: a service serves only with everything it was built
\* from, on topics whose shape, settings and capacity requests see as needed
\* (run.go:140, worker.go:117), and the largest business record fits the
\* dead-letter topic once wrapped (dead_letter.go:13).
THEOREM ServingSafe == RuntimeSpec => []ServingIsComplete
<1>1. ASSUME RuntimeInv PROVE ServingIsComplete
  <2>1. SUFFICES ASSUME NEW s \in Services, Serving(s)
                 PROVE  /\ \A i \in 1..Len(BuildSteps(s)) :
                              /\ BuildSteps(s)[i] \in open[s]
                              /\ \A n \in DOMAIN SetupList(BuildSteps(s)[i]) :
                                    Good(SetupList(BuildSteps(s)[i])[n])
                        /\ open[s] \cap {"worker", "bridge"} # {} =>
                              /\ publishDeadLetter(businessBatchBytes) <= deadLetterBatchBytes
                              /\ publishDeadLetter(businessBatchBytes) <= visible[DlqTopic].max
    BY ZenonT(30) DEF ServingIsComplete, Good
  <2>2. /\ SetupTypes /\ LifeTypes /\ open[s] = AllSteps(s)
        /\ \A step \in open[s] : \A n \in DOMAIN SetupList(step) : Good(SetupList(step)[n])
    BY <1>1, <2>1, Zenon DEF RuntimeInv, SetupInv, LifeInv, Serving
  <2>3. \A i \in 1..Len(BuildSteps(s)) : BuildSteps(s)[i] \in open[s]
    BY <2>2, BuildFacts
  <2>4. publishDeadLetter(businessBatchBytes) <= deadLetterBatchBytes
    BY TopicConstants DEF publishDeadLetter, businessBatchBytes, deadLetterBatchBytes
  <2>5. ASSUME open[s] \cap {"worker", "bridge"} # {}
        PROVE  visible[DlqTopic].max \in Nat /\ visible[DlqTopic].max >= deadLetterBatchBytes
    <3>1. Good(DlqTopic)
      <4>1. SetupList("worker")[1] = DlqTopic /\ 1 \in DOMAIN SetupList("worker")
        BY SetupLists
      <4>2. SetupList("bridge")[1] = DlqTopic /\ 1 \in DOMAIN SetupList("bridge")
        BY SetupLists
      <4> QED  BY <2>2, <2>5, <4>1, <4>2
    <3>2. DlqTopic \in Topics /\ MinMessageBytes(DlqTopic) = deadLetterBatchBytes
      BY Zenon DEF Topics, MinMessageBytes, deadLetterTopicConfig
    <3>3. visible[DlqTopic] \in TopicStates
      BY <2>2, <3>1, <3>2 DEF Good, WellShaped, SetupTypes
    <3> QED  BY <3>1, <3>2, <3>3, TopicFacts, Zenon DEF Good
  <2>6. deadLetterBatchBytes \in Nat /\ publishDeadLetter(businessBatchBytes) \in Nat
    BY TopicConstants DEF publishDeadLetter, businessBatchBytes, deadLetterBatchBytes
  <2> QED  BY <2>2, <2>3, <2>4, <2>5, <2>6
<1> QED  BY <1>1, RuntimeAlways, PTL

\* For every number of services that set topics up beside an operator: an
\* override the services do not manage stays (kafka_topics.go:265), and
\* max.message.bytes is lowered only by an alteration that was planned from a
\* smaller value (kafka_topics.go:36).
THEOREM OperatorKept == RuntimeSpec => OperatorSettingsKept
<1>1. ASSUME RuntimeInv, RuntimeInv', [RuntimeNext]_serviceVars, NEW t \in Topics
      PROVE  /\ t \in tuned' => config'[t] # Missing /\ config'[t].other = "tuned"
             /\ config[t] # Missing /\ config'[t].max < config[t].max
                => \E s \in Services : /\ job[s].step = "alter" /\ Head(job[s].left) = t
                                       /\ job[s].read < MinMessageBytes(t)
  <2>1. ConfigStep /\ TunedKept' /\ SetupTypes /\ SetupTypes'
    BY <1>1, RuntimeIsSetup, StoredChanges, Zenon DEF RuntimeInv, SetupInv
  <2>2. t \in tuned' => config'[t] # Missing /\ config'[t].other = "tuned"
    BY <2>1, Zenon DEF TunedKept
  <2>3. config[t] # Missing => config[t].max \in Nat /\ config'[t].max \in Nat
    <3>1. config[t] # Missing => config[t] \in TopicStates /\ config'[t] \in TopicStates
      BY <2>1, Zenon DEF ConfigStep, SetupTypes
    <3> QED  BY <3>1, TopicFacts
  <2> QED  BY <2>1, <2>2, <2>3 DEF ConfigStep
<1>2. ASSUME RuntimeInv, RuntimeInv', [RuntimeNext]_serviceVars
      PROVE  [\A t \in Topics :
                 /\ t \in tuned' => config'[t] # Missing /\ config'[t].other = "tuned"
                 /\ config[t] # Missing /\ config'[t].max < config[t].max
                    => \E s \in Services : /\ job[s].step = "alter" /\ Head(job[s].left) = t
                                           /\ job[s].read < MinMessageBytes(t)]_topicVars
  BY <1>1, <1>2
<1> QED  BY <1>2, RuntimeAlways, PTL DEF RuntimeSpec, OperatorSettingsKept
=============================================================================
