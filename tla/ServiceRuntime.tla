--------------------------- MODULE ServiceRuntime ---------------------------
(***************************************************************************)
(* Start and stop of the services: bootstrap.Run for telemetry-ingestor    *)
(* and device-worker (internal/bootstrap/run.go) and core.Run for iot-core *)
(* (internal/core/server.go), on the topic setup of KafkaTopics.           *)
(*                                                                         *)
(* A service is built step by step; a step opens what it is named after.   *)
(* A failed step returns an error and closes what was opened.  The setup   *)
(* of NewWorker and NewMQTTBridge does not fail the build: it is kept as   *)
(* startupErr, and the background Run returns it at once.                  *)
(***************************************************************************)
EXTENDS KafkaTopics

VARIABLES
    kind,       \* service -> which program it is; "none" is not deployed
    phase,      \* service -> where Run is
    at,         \* service -> next build step
    open,       \* service -> what it holds open
    background  \* service -> its bridge, worker or dispatcher goroutine

runtimeVars == <<kind, phase, at, open, background>>
serviceVars == <<topicVars, runtimeVars>>

Kinds == {"telemetry-ingestor", "device-worker", "iot-core", "none"}
Phases == {"down", "building", "running", "stopping", "closing", "forced"}

\* buildRuntime's steps, and those of core.Run up to server.Start.
BuildSteps(s) ==
    CASE kind[s] = "telemetry-ingestor" -> <<"store", "publisher", "bridge">>
      [] kind[s] = "device-worker" -> <<"store", "publisher", "tdengine", "topics", "worker">>
      [] kind[s] = "iot-core" -> <<"store", "publisher", "dispatcher", "mqtt-auth", "metrics">>
      [] kind[s] = "none" -> <<>>

\* The topics a build step sets up before it opens anything.
SetupList(step) ==
    CASE step \in {"publisher", "topics"} -> BusinessTopics
      [] step \in {"worker", "bridge"} -> <<DlqTopic>>
      [] OTHER -> <<>>

Step(s) == BuildSteps(s)[at[s]]

\* Of every service, the first Done[s] build steps are already done.
RuntimeInit(Done) ==
    /\ TopicsInit
    /\ kind \in [Services -> Kinds]
    /\ phase = [s \in Services |-> IF Done[s] > 0 THEN "building" ELSE "down"]
    /\ at = [s \in Services |-> Done[s] + 1]
    /\ open = [s \in Services |-> {BuildSteps(s)[i] : i \in 1..Done[s]}]
    /\ background = [s \in Services |-> "none"]

-----------------------------------------------------------------------------
(* Building *)

Start(s) ==
    /\ phase[s] = "down" /\ kind[s] # "none"
    /\ phase' = [phase EXCEPT ![s] = "building"]
    /\ at' = [at EXCEPT ![s] = 1]
    /\ UNCHANGED <<topicVars, kind, open, background>>

Opened(s) ==
    /\ open' = [open EXCEPT ![s] = @ \cup {Step(s)}]
    /\ at' = [at EXCEPT ![s] = @ + 1]

Building(s) == phase[s] = "building" /\ at[s] <= Len(BuildSteps(s))

\* A step without topics; the dispatcher's goroutine starts at once.
Open(s) ==
    /\ Building(s) /\ SetupList(Step(s)) = <<>>
    /\ Opened(s)
    /\ background' = [background EXCEPT ![s] = IF Step(s) = "dispatcher" THEN "running" ELSE @]
    /\ UNCHANGED <<topicVars, kind, phase>>

SetUp(s) ==
    /\ Building(s) /\ SetupList(Step(s)) # <<>>
    /\ initializeKafkaTopics(s, SetupList(Step(s)))
    /\ UNCHANGED <<config, visible, tuned, outage, runtimeVars>>

NewKafkaPublisher(s) ==
    /\ Building(s) /\ job[s].step = "ready"
    /\ job' = [job EXCEPT ![s] = Idle]
    /\ Opened(s)
    /\ UNCHANGED <<config, visible, tuned, outage, kind, phase, background>>

\* What a build that fails closes: the closers in reverse order, and
\* closeAuxServers.
ReleasedOnFailure(s) ==
    {"store", "publisher", "tdengine", "dispatcher"}
    \cup (IF Step(s) = "metrics" THEN {"mqtt-auth"} ELSE {})

Abort(s) ==
    /\ phase' = [phase EXCEPT ![s] = "down"]
    /\ open' = [open EXCEPT ![s] = @ \ ReleasedOnFailure(s)]
    /\ background' = [background EXCEPT ![s] = "none"]

\* A dependency that cannot be reached, or a port that is taken.
OpenFails(s) ==
    /\ "process" \in outage
    /\ Building(s) /\ SetupList(Step(s)) = <<>> /\ Step(s) # "dispatcher"
    /\ Abort(s)
    /\ UNCHANGED <<topicVars, kind, at>>

PublisherFails(s) ==
    /\ Building(s) /\ job[s].step = "failed" /\ Step(s) = "publisher"
    /\ job' = [job EXCEPT ![s] = Idle]
    /\ Abort(s)
    /\ UNCHANGED <<config, visible, tuned, outage, kind, at>>

\* The worker or bridge is returned with startupErr and without a client.
StartupError(s) ==
    /\ Building(s) /\ job[s].step = "failed" /\ Step(s) # "publisher"
    /\ job' = [job EXCEPT ![s] = Idle]
    /\ at' = [at EXCEPT ![s] = Len(BuildSteps(s)) + 1]
    /\ UNCHANGED <<config, visible, tuned, outage, kind, phase, open, background>>

\* What the background Run needs; without it Run returns startupErr.
HasClient(s) == open[s] \cap {"worker", "bridge", "dispatcher"} # {}

Built(s) ==
    /\ phase[s] = "building" /\ at[s] > Len(BuildSteps(s))
    /\ phase' = [phase EXCEPT ![s] = "running"]
    /\ background' = [background EXCEPT ![s] = IF HasClient(s) THEN "running" ELSE "ended"]
    /\ UNCHANGED <<topicVars, kind, at, open>>

-----------------------------------------------------------------------------
(* Stopping *)

\* SIGTERM, or an error of the HTTP server.
Signal(s) ==
    /\ "process" \in outage /\ phase[s] = "running"
    /\ phase' = [phase EXCEPT ![s] = "stopping"]
    /\ UNCHANGED <<topicVars, kind, at, open, background>>

\* The worker or bridge ends with an error (startupErr, a fatal ACK, a refused
\* subscription), which Run's select receives.
BackgroundFails(s) ==
    /\ "process" \in outage /\ phase[s] = "running" /\ kind[s] # "iot-core" /\ background[s] = "running"
    /\ background' = [background EXCEPT ![s] = "ended"]
    /\ UNCHANGED <<topicVars, kind, phase, at, open>>

ErrorReceived(s) ==
    /\ phase[s] = "running" /\ background[s] = "ended"
    /\ phase' = [phase EXCEPT ![s] = "stopping"]
    /\ UNCHANGED <<topicVars, kind, at, open, background>>

\* The goroutine sees the cancelled context.
BackgroundStops(s) ==
    /\ phase[s] \in {"stopping", "closing", "forced"} /\ background[s] = "running"
    /\ background' = [background EXCEPT ![s] = "ended"]
    /\ UNCHANGED <<topicVars, kind, phase, at, open>>

\* Seeded fault: Run returns without waiting for the goroutine.
StopsWithoutWaiting(s) ==
    /\ phase[s] = "stopping" /\ kind[s] # "iot-core"
    /\ phase' = [phase EXCEPT ![s] = "closing"]
    /\ UNCHANGED <<topicVars, kind, at, open, background>>

Waited(s) ==
    /\ phase[s] = "stopping" /\ kind[s] # "iot-core" /\ background[s] = "ended"
    /\ phase' = [phase EXCEPT ![s] = "closing"]
    /\ UNCHANGED <<topicVars, kind, at, open, background>>

\* Five seconds after the cancellation the goroutine is no longer waited for.
WaitTimesOut(s) ==
    /\ "process" \in outage /\ phase[s] = "stopping" /\ kind[s] # "iot-core" /\ background[s] = "running"
    /\ phase' = [phase EXCEPT ![s] = "forced"]
    /\ UNCHANGED <<topicVars, kind, at, open, background>>

\* core.Run waits for the auxiliary endpoints, and not for the dispatcher.
AuxDrained(s) ==
    /\ phase[s] = "stopping" /\ kind[s] = "iot-core"
    /\ open' = [open EXCEPT ![s] = @ \ {"mqtt-auth", "metrics"}]
    /\ phase' = [phase EXCEPT ![s] = "closing"]
    /\ UNCHANGED <<topicVars, kind, at, background>>

\* The deferred closers, last registered first.  What the worker or bridge
\* opened, its own Run has closed.
Closers(s) == open[s] \ {"topics", "worker", "bridge", "dispatcher"}

Close(s) ==
    /\ phase[s] \in {"closing", "forced"} /\ Closers(s) # {}
    /\ \E i \in 1..Len(BuildSteps(s)) :
          /\ BuildSteps(s)[i] \in Closers(s)
          /\ \A k \in (i + 1)..Len(BuildSteps(s)) : BuildSteps(s)[k] \notin Closers(s)
          /\ open' = [open EXCEPT ![s] = @ \ {BuildSteps(s)[i]}]
    /\ UNCHANGED <<topicVars, kind, phase, at, background>>

\* The process ends, and whatever still runs in it.
Exit(s) ==
    /\ phase[s] \in {"closing", "forced"} /\ Closers(s) = {}
    /\ phase' = [phase EXCEPT ![s] = "down"]
    /\ open' = [open EXCEPT ![s] = @ \ {"topics", "worker", "bridge", "dispatcher"}]
    /\ background' = [background EXCEPT ![s] = "none"]
    /\ UNCHANGED <<topicVars, kind, at>>

-----------------------------------------------------------------------------

Run(s) ==
    \/ Start(s) \/ Open(s) \/ SetUp(s) \/ NewKafkaPublisher(s) \/ OpenFails(s)
    \/ PublisherFails(s) \/ StartupError(s) \/ Built(s) \/ Signal(s) \/ BackgroundFails(s)
    \/ ErrorReceived(s) \/ BackgroundStops(s) \/ Waited(s) \/ WaitTimesOut(s)
    \/ AuxDrained(s) \/ Close(s) \/ Exit(s)
    \/ (ensureKafkaTopicsUntil(s) /\ UNCHANGED runtimeVars)

Cluster ==
    /\ \/ \E t \in Topics : Propagate(t) \/ RaiseLimit(t) \/ Tune(t) \/ Reassign(t)
       \/ OutageEnds
    /\ UNCHANGED runtimeVars

RuntimeNext == Cluster \/ \E s \in Services : Run(s)

\* Nothing runs yet, and the topics are as an earlier deployment left them.
RuntimeSpec == RuntimeInit([s \in Services |-> 0]) /\ [][RuntimeNext]_serviceVars

-----------------------------------------------------------------------------
(* Properties *)

\* The state of every service stays in its type.
RuntimeTypeOK ==
    /\ TopicsTypeOK
    /\ kind \in [Services -> Kinds]
    /\ phase \in [Services -> Phases]
    /\ background \in [Services -> {"none", "running", "ended"}]
    /\ \A s \in Services :
          /\ open[s] \subseteq {BuildSteps(s)[i] : i \in 1..Len(BuildSteps(s))}
          /\ at[s] \in 1..(Len(BuildSteps(s)) + 1)
          /\ job[s].step # "idle" => Building(s)

Serving(s) == phase[s] = "running" /\ background[s] = "running"

\* The bytes of a dead letter that wraps a value of n bytes in base64.
publishDeadLetter(n) == 4 * ((n + 2) \div 3) + MetadataBytes

\* A service that serves has everything it was built from, and the topics it
\* reads and writes have their shape, settings and capacity where requests see
\* them: a failed setup, an unfinished one or one that another service or an
\* operator races never lets it serve (run.go:140, worker.go:117).  If it
\* dead-letters, the largest record the business writers send still fits the
\* dead-letter topic once wrapped (dead_letter.go:13).
ServingIsComplete ==
    \A s \in Services : Serving(s) =>
       /\ \A i \in 1..Len(BuildSteps(s)) :
             LET step == BuildSteps(s)[i]
             IN /\ step \in open[s]
                /\ \A n \in DOMAIN SetupList(step) :
                      LET t == SetupList(step)[n]
                      IN WellShaped(t) /\ driftedConfigEntries(visible[t], t) = {}
       /\ open[s] \cap {"worker", "bridge"} # {} =>
             /\ publishDeadLetter(businessBatchBytes) <= deadLetterBatchBytes
             /\ publishDeadLetter(businessBatchBytes) <= visible[DlqTopic].max

\* What a service has open follows its life: when it is down nothing is left
\* open, whichever step failed (run.go:146, server.go:102), and its worker or
\* bridge never runs on a closed store, publisher or writer unless the five
\* seconds it is given to stop have passed (run.go:76).
OpenFollowsLife ==
    /\ RuntimeTypeOK
    /\ \A s \in Services :
          /\ phase[s] = "down" => open[s] = {}
          /\ background[s] = "running" /\ kind[s] # "iot-core" /\ phase[s] # "forced" =>
                \A i \in 1..Len(BuildSteps(s)) : BuildSteps(s)[i] \in open[s]

\* Once failures end and an operator has mended drifted topics, every service
\* comes up and stays up, however often its start had failed.
ServicesComeUp == <>[](\A s \in Services : kind[s] = "none" \/ Serving(s))

=============================================================================
