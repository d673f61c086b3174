---------------------------- MODULE MCOperations ----------------------------
(***************************************************************************)
(* Two services that start on topics an earlier deployment left, or an     *)
(* operator who replays a dead-letter topic: the scenario is chosen first. *)
(***************************************************************************)
EXTENDS ServiceRuntime, DlqReplay

CONSTANTS s1, s2

MCServices == {s1, s2}
MCBusinessTopics == <<"iot.telemetry">>
MCRaisedLimits == {2^22}
MCOperated == {"iot.dlq"}
MCFilters == {"", "mqtt.kafka", "telemetry.postgres", "command.ack"}

Topic(shape, exact, max, other) ==
    [shape |-> shape, exact |-> exact, max |-> max, other |-> other]

MCTopicStates ==
    {Missing, Topic("want", "want", BrokerLimit, "default"),
     Topic("want", "want", businessBatchBytes, "default"),
     Topic("drifted", "old", BrokerLimit, "tuned")}

Letter(stage, form, received, occurred, ts) ==
    [stage |-> stage, form |-> form, received |-> received, occurred |-> occurred,
     ts |-> ts, first |-> 0]

\* Envelopes, records, ACKs and what cannot be replayed, between one another.
Envelope == Letter("mqtt.kafka", "good", 0, 1, 1)
Legacy == Letter("telemetry.postgres", "good", 0, 0, 1)
Record == Letter("telemetry.postgres", "good", 1, 2, 1)
Ack == Letter("command.ack", "good", 0, 1, 0)
Malformed == Letter("mqtt.decode", "malformed", 0, 1, 0)
Undecodable == Letter("telemetry.postgres", "undecodable", 1, 1, 1)
Unusable == Letter("mqtt.kafka", "unusable", 0, 1, 1)

MCTelemetryLetters ==
    {<<Envelope, Malformed, Legacy>>, <<Undecodable, Record, Envelope>>,
     <<Unusable, Envelope, Record>>}

MCAckLetters ==
    {<<Ack, Letter("command.ack", "unusable", 0, 1, 0), Ack>>,
     <<Ack, Letter("mqtt.decode", "good", 0, 1, 0), Envelope>>}

VARIABLE scenario

MCVars == <<serviceVars, replayVars, scenario>>

\* One service from its first step on, or two that are about to set up the
\* dead-letter topic.
StartInit ==
    /\ config \in [Topics -> MCTopicStates]
    /\ \/ /\ outage = {"cluster", "process"}
          /\ kind \in {[s \in Services |-> IF s = s1 THEN k ELSE "none"] : k \in Kinds \ {"none"}}
          /\ RuntimeInit([s \in Services |-> 0])
       \/ /\ outage = {"cluster"}
          /\ config["iot.telemetry"] = buildTopicConfigs("iot.telemetry")
          /\ kind = [s \in Services |-> IF s = s1 THEN "telemetry-ingestor" ELSE "device-worker"]
          /\ RuntimeInit([s \in Services |-> Len(BuildSteps(s)) - 1])

MCInit ==
    \/ /\ scenario = "start"
       /\ StartInit
       /\ used = {} /\ ReplayInit({<<>>})
    \/ /\ scenario = "replay"
       /\ config = [t \in Topics |-> Missing]
       /\ outage = {} /\ kind = [s \in Services |-> "none"]
       /\ RuntimeInit([s \in Services |-> 0])
       /\ \/ used = {"mqtt.kafka", "telemetry.postgres"} /\ ReplayInit(MCTelemetryLetters)
          \/ used = {"", "command.ack"} /\ ReplayInit(MCAckLetters)

Starting == scenario = "start" /\ UNCHANGED <<replayVars, scenario>>
Operating == scenario = "replay" /\ UNCHANGED <<serviceVars, scenario>>

MCNext == (RuntimeNext /\ Starting) \/ (ReplayNext /\ Operating)

\* Failures end and the operator mends what failed; changes reach the brokers
\* and drifted topics are mended; a service that can step does, and the
\* orchestrator restarts it; an operator goes on running the tool.
Repaired ==
    \/ OutageEnds /\ UNCHANGED runtimeVars /\ Starting
    \/ Mend /\ Operating

Settled ==
    \E t \in Topics : (Propagate(t) \/ Reassign(t)) /\ UNCHANGED runtimeVars /\ Starting

Stepped(s, filters) ==
    \/ Run(s) /\ Starting
    \/ \E f \in filters : (BeginReplay(f, FALSE) \/ Replaying(f)) /\ Operating

\* No two filters of one conjunct are used in one scenario.
MCSpec ==
    /\ MCInit /\ [][MCNext]_MCVars
    /\ WF_MCVars(Repaired) /\ WF_MCVars(Settled)
    /\ WF_MCVars(Stepped(s1, {"", "mqtt.kafka"}))
    /\ WF_MCVars(Stepped(s2, {"command.ack", "telemetry.postgres"}))

=============================================================================
