---------------------------- MODULE KafkaTopics ----------------------------
(***************************************************************************)
(* Topic setup at service start (internal/platform/kafka_topics.go).       *)
(*                                                                         *)
(* A setup job creates the missing topics of its list, checks their shape  *)
(* (partition count and replication factor) and brings the managed config  *)
(* entries in line, one topic after the other.  "exact" stands for the     *)
(* entries compared for equality (min.insync.replicas, retention.ms),      *)
(* "max" is max.message.bytes, which is a floor, and "other" is an         *)
(* override the services do not manage.  The controller stores a change in *)
(* config; visible is what the broker that answers requests shows, later.  *)
(***************************************************************************)
EXTENDS Integers, Sequences, FiniteSets

CONSTANTS
    Services,          \* processes that set topics up
    BusinessTopics,    \* sequence of topics that carry telemetry and commands
    DlqTopic,          \* the dead-letter topic
    BrokerLimit,       \* max.message.bytes of a topic nobody configured
    Operated,          \* topics an operator changes while services start
    RaisedLimits,      \* limits an operator may raise a topic to
    MetadataBytes,     \* most bytes a dead letter adds to the encoded value
    Missing            \* a topic that does not exist

Topics == {BusinessTopics[i] : i \in DOMAIN BusinessTopics} \cup {DlqTopic}

businessBatchBytes == 2^20

deadLetterBatchBytes == 2^21

businessTopicConfig == businessBatchBytes

deadLetterTopicConfig == deadLetterBatchBytes

\* The capacity floor a setup asks of topic t.
MinMessageBytes(t) == IF t = DlqTopic THEN deadLetterTopicConfig ELSE businessTopicConfig

Limits == {BrokerLimit, businessBatchBytes, deadLetterBatchBytes} \cup RaisedLimits

TopicStates == [shape : {"want", "drifted"}, exact : {"want", "old"}, max : Limits,
                other : {"default", "tuned"}]

ASSUME TopicConstants ==
    /\ BrokerLimit \in Nat /\ MetadataBytes \in 0..(2^16) /\ RaisedLimits \subseteq Nat
    /\ BusinessTopics \in Seq(Topics) /\ Missing \notin TopicStates
    /\ DlqTopic \notin {BusinessTopics[i] : i \in DOMAIN BusinessTopics}

VARIABLES
    config,     \* topic -> Missing, or what the controller has stored
    visible,    \* topic -> Missing, or what requests and writes see
    tuned,      \* topics whose unmanaged override an operator has set
    job,        \* service -> its setup job
    outage      \* what may still fail: the cluster, the processes

topicVars == <<config, visible, tuned, job, outage>>

Idle == [step |-> "idle", list |-> <<>>, left |-> <<>>, refused |-> FALSE,
         drift |-> {}, read |-> 0]

Steps == {"idle", "create", "metadata", "describe", "alter", "wait", "retry", "ready", "failed"}

TopicsInit ==
    /\ config \in [Topics -> TopicStates \cup {Missing}]
    /\ visible = config
    /\ tuned = {t \in Topics : config[t] # Missing /\ config[t].other = "tuned"}
    /\ job = [s \in Services |-> Idle]
    /\ outage \in SUBSET {"cluster", "process"}

-----------------------------------------------------------------------------
(* The setup job *)

buildTopicConfigs(t) ==
    [shape |-> "want", exact |-> "want", max |-> MinMessageBytes(t), other |-> "default"]

driftedConfigEntries(live, t) ==
    {e \in {"exact", "max"} : IF e = "max" THEN live.max < MinMessageBytes(t)
                                           ELSE live[e] # buildTopicConfigs(t)[e]}

Goto(s, step) == job' = [job EXCEPT ![s].step = step]

\* initializeKafkaTopics is called with a list of topics.
initializeKafkaTopics(s, list) ==
    /\ job[s].step = "idle"
    /\ job' = [job EXCEPT ![s] = [Idle EXCEPT !.step = "create", !.list = list]]

\* CreateTopics skips the topics that exist; a failed call may have made some.
ensureKafkaTopics(s) ==
    LET missing == {t \in Topics : config[t] = Missing
                                   /\ \E i \in DOMAIN job[s].list : job[s].list[i] = t}
    IN /\ job[s].step = "create"
       /\ \E made \in SUBSET missing :
             /\ config' = [t \in Topics |-> IF t \in made THEN buildTopicConfigs(t) ELSE config[t]]
             /\ IF made = missing THEN Goto(s, "metadata") ELSE "cluster" \in outage /\ Goto(s, "retry")
       /\ UNCHANGED <<visible, tuned, outage>>

WellShaped(t) == visible[t] # Missing /\ visible[t].shape = "want"

\* One metadata request answers for every topic; the topics before the first
\* that is missing or drifted are still reconciled.
Metadata(s) ==
    LET list == job[s].list
    IN /\ job[s].step = "metadata"
       /\ \E good \in 0..Len(list) :
             /\ \A i \in 1..good : WellShaped(list[i])
             /\ good < Len(list) => ~WellShaped(list[good + 1])
             /\ job' = [job EXCEPT ![s].left = SubSeq(list, 1, good),
                                   ![s].refused = good < Len(list),
                                   ![s].step = IF good > 0 THEN "describe" ELSE "retry"]
       /\ UNCHANGED <<config, visible, tuned, outage>>

\* The loop over the topics goes on, or returns its error or its success.
NextTopic(s) ==
    job' = [job EXCEPT ![s].left = Tail(@),
                       ![s].drift = {},
                       ![s].read = 0,
                       ![s].step = IF Len(job[s].left) > 1 THEN "describe"
                                   ELSE IF job[s].refused THEN "retry" ELSE "ready"]

DescribeConfigs(s) ==
    LET t == Head(job[s].left)
        drift == driftedConfigEntries(visible[t], t)
    IN /\ job[s].step = "describe"
       /\ IF drift = {} THEN NextTopic(s)
          ELSE job' = [job EXCEPT ![s].step = "alter", ![s].drift = drift,
                                  ![s].read = visible[t].max]
       /\ UNCHANGED <<config, visible, tuned, outage>>

\* Seeded fault: one drifted entry sets them all.
AltersEveryEntry(t, drift) == [buildTopicConfigs(t) EXCEPT !.shape = config[t].shape,
                                                           !.other = config[t].other]

\* Incremental SET of the drifted entries only.
IncrementalAlterConfigs(t, drift) ==
    [e \in DOMAIN config[t] |-> IF e \in drift THEN buildTopicConfigs(t)[e] ELSE config[t][e]]

\* The answer to an alteration that was applied may be lost.
reconcileKafkaTopics(s) ==
    LET t == Head(job[s].left)
    IN /\ job[s].step = "alter"
       /\ config' = [config EXCEPT ![t] = IncrementalAlterConfigs(t, job[s].drift)]
       /\ Goto(s, "wait") \/ ("cluster" \in outage /\ Goto(s, "retry"))
       /\ UNCHANGED <<visible, tuned, outage>>

\* Seeded fault: an acknowledged alteration is taken to be visible.
WaitsForNothing(s) ==
    /\ job[s].step = "wait"
    /\ NextTopic(s)
    /\ UNCHANGED <<config, visible, tuned, outage>>

\* Seeded fault: waits until the limit is the one asked for, whoever raised it.
WaitsForEquality(s) ==
    LET t == Head(job[s].left)
    IN /\ job[s].step = "wait"
       /\ visible[t].max = MinMessageBytes(t)
       /\ NextTopic(s)
       /\ UNCHANGED <<config, visible, tuned, outage>>

waitForKafkaConfigVisibility(s) ==
    LET t == Head(job[s].left)
    IN /\ job[s].step = "wait"
       /\ driftedConfigEntries(visible[t], t) = {}
       /\ NextTopic(s)
       /\ UNCHANGED <<config, visible, tuned, outage>>

\* No controller, a lost answer or the five seconds of an attempt are over.
AttemptFails(s) ==
    /\ "cluster" \in outage
    /\ job[s].step \in {"create", "metadata", "describe", "alter", "wait"}
    /\ Goto(s, "retry")
    /\ UNCHANGED <<config, visible, tuned, outage>>

Retry(s) ==
    /\ job[s].step = "retry"
    /\ job' = [job EXCEPT ![s] = [Idle EXCEPT !.step = "create", !.list = job[s].list]]
    /\ UNCHANGED <<config, visible, tuned, outage>>

\* The setup timeout: what makes every attempt of a minute fail is an outage
\* or a shape that only an operator can change.
SetupTimeout(s) ==
    /\ job[s].step = "retry"
    /\ "cluster" \in outage \/ \E t \in Topics : config[t] # Missing /\ config[t].shape = "drifted"
    /\ Goto(s, "failed")
    /\ UNCHANGED <<config, visible, tuned, outage>>

ensureKafkaTopicsUntil(s) ==
    \/ ensureKafkaTopics(s) \/ Metadata(s) \/ DescribeConfigs(s) \/ reconcileKafkaTopics(s)
    \/ waitForKafkaConfigVisibility(s) \/ AttemptFails(s) \/ Retry(s) \/ SetupTimeout(s)

-----------------------------------------------------------------------------
(* The cluster and its operator *)

Propagate(t) ==
    /\ visible[t] # config[t]
    /\ visible' = [visible EXCEPT ![t] = config[t]]
    /\ UNCHANGED <<config, tuned, job, outage>>

RaiseLimit(t) ==
    /\ "cluster" \in outage /\ t \in Operated /\ config[t] # Missing
    /\ \E n \in RaisedLimits :
          n > config[t].max /\ config' = [config EXCEPT ![t].max = n]
    /\ UNCHANGED <<visible, tuned, job, outage>>

Tune(t) ==
    /\ "cluster" \in outage /\ t \in Operated \ tuned /\ config[t] # Missing
    /\ config' = [config EXCEPT ![t].other = "tuned"]
    /\ tuned' = tuned \cup {t}
    /\ UNCHANGED <<visible, job, outage>>

Reassign(t) ==
    /\ config[t] # Missing /\ config[t].shape = "drifted"
    /\ config' = [config EXCEPT ![t].shape = "want"]
    /\ UNCHANGED <<visible, tuned, job, outage>>

OutageEnds == outage # {} /\ outage' = {} /\ UNCHANGED <<config, visible, tuned, job>>

-----------------------------------------------------------------------------
(* Properties *)

\* Jobs, topics and what is read of them stay in their types.
TopicsTypeOK ==
    /\ config \in [Topics -> TopicStates \cup {Missing}]
    /\ visible \in [Topics -> TopicStates \cup {Missing}]
    /\ tuned \subseteq Topics /\ outage \subseteq {"cluster", "process"}
    /\ \A s \in Services : job[s].step \in Steps
          /\ (job[s].step \in {"describe", "alter", "wait"} => job[s].left # <<>>)
          /\ (job[s].step = "alter" => job[s].drift # {})

\* What an operator has set stays, however many services reconcile the topic:
\* an entry the services do not manage is never touched (kafka_topics.go:265),
\* and max.message.bytes is lowered only by an alteration that was planned from
\* an older, smaller value (kafka_topics.go:36).
OperatorSettingsKept ==
    [][\A t \in Topics :
          /\ t \in tuned' => config'[t] # Missing /\ config'[t].other = "tuned"
          /\ config[t] # Missing /\ config'[t].max < config[t].max
             => \E s \in Services : /\ job[s].step = "alter" /\ Head(job[s].left) = t
                                    /\ job[s].read < MinMessageBytes(t)]_topicVars

=============================================================================
