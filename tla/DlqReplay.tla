----------------------------- MODULE DlqReplay -----------------------------
(***************************************************************************)
(* The operator's replay tool (cmd/dlq-replay/main.go).                    *)
(*                                                                         *)
(* The dead-letter topic is one partition of records.  A run reads it from *)
(* the committed position of its consumer group, which replayGroupID       *)
(* derives from the -stage filter, and republishes or applies one record   *)
(* after the other.  Runs of different groups go on at the same time.      *)
(* Time is the position in the topic, and 0 is a missing timestamp.        *)
(***************************************************************************)
EXTENDS Integers, Sequences

CONSTANTS
    StageFilters,        \* the -stage filters; "" replays all stages
    RunLimit,       \* the -limit of a run
    MaxRecords,     \* bound: records the topic takes
    MaxCuts         \* bound: runs of a group cut between write and commit

ASSUME ReplayConstants == RunLimit \in Nat /\ MaxRecords \in Nat /\ MaxCuts \in Nat

\* The stages: a telemetry envelope that never reached Kafka, a record the
\* worker could not store, an ACK, and a message that is wrong at its source.
Stages == {"mqtt.kafka", "telemetry.postgres", "command.ack", "mqtt.decode"}

ASSUME FilterNames == StageFilters \subseteq Stages \cup {""}

\* "malformed" is no dead letter, "undecodable" holds no base64, and the
\* payload of an "unusable" one cannot be planned.
Forms == {"good", "malformed", "undecodable", "unusable"}

\* receivedAt of the payload, occurredAt of the dead letter and the device's
\* ts; first is the receivedAt an earlier replay has sent, if any.
DeadLetters == [stage : Stages, form : Forms, received : 0..MaxRecords,
                occurred : 0..MaxRecords, ts : 0..1, first : 0..MaxRecords]

VARIABLES
    used,       \* the filters operators use
    dlq,        \* the records of the dead-letter topic
    sent,       \* replayed records the consumers have not taken yet
    committed,  \* group -> records it has moved past
    run,        \* filter -> the run in progress
    replays,    \* filter -> record -> how often it was replayed
    cuts,       \* filter -> runs that ended between write and commit
    mended      \* the operator has fixed what failed, and runs are not cut

replayVars == <<used, dlq, sent, committed, run, replays, cuts, mended>>

\* Seeded fault: one group for every filter.
SharedGroup(stage) == "iot-dlq-replay-all"

replayGroupID(stage) == IF stage = "" THEN "iot-dlq-replay-all" ELSE stage

Groups == {replayGroupID(f) : f \in StageFilters}

NoRun == [at |-> 0, dry |-> FALSE, count |-> 0, wrote |-> FALSE]

\* Contents are the records that wait when the operator begins.
ReplayInit(Contents) ==
    /\ used \in SUBSET StageFilters
    /\ dlq \in Contents
    /\ \A o \in DOMAIN dlq : dlq[o].first = 0
    /\ sent = <<>>
    /\ committed = [g \in Groups |-> 0]
    /\ run = [f \in StageFilters |-> NoRun]
    /\ replays = [f \in StageFilters |-> [o \in 1..MaxRecords |-> 0]]
    /\ cuts = [f \in StageFilters |-> 0]
    /\ mended = FALSE

-----------------------------------------------------------------------------
(* What a replay sends *)

\* The receipt time of a payload without one; 0 is an error.
replayReceivedAt(item) == IF item.occurred > 0 THEN item.occurred ELSE item.ts

\* Seeded fault: the dead letter's time replaces the payload's own.
RestampsRecords(item) ==
    IF item.form = "unusable" \/ item.stage = "mqtt.decode" THEN 0 ELSE replayReceivedAt(item)

\* The receivedAt of the record a replay publishes; 0 when it cannot be made.
replayKafkaPayload(item) ==
    IF item.form = "unusable" \/ item.stage = "mqtt.decode" THEN 0
    ELSE IF item.stage = "telemetry.postgres" /\ item.received > 0 THEN item.received
    ELSE replayReceivedAt(item)

Plannable(item) ==
    IF item.stage = "command.ack" THEN item.form # "unusable" ELSE replayKafkaPayload(item) > 0

-----------------------------------------------------------------------------
(* A run *)

Fetched(f) == dlq[run[f].at]
Fetching(f) == /\ run[f].at \in 1..Len(dlq) /\ ~run[f].wrote /\ run[f].count < RunLimit
Decoded(f) == Fetching(f) /\ Fetched(f).form # "malformed"
Matched(f) == Decoded(f) /\ f \in {"", Fetched(f).stage}
Chosen(f) == Matched(f) /\ ~run[f].dry

\* One run of a group reads the partition at a time.
BeginReplay(f, dry) ==
    /\ f \in used /\ (dry => ~mended)
    /\ \A o \in StageFilters : replayGroupID(o) = replayGroupID(f) => run[o].at = 0
    /\ run' = [run EXCEPT ![f] = [at |-> committed[replayGroupID(f)] + 1, dry |-> dry,
                                  count |-> 0, wrote |-> FALSE]]
    /\ UNCHANGED <<used, dlq, sent, committed, replays, cuts, mended>>

Skip(f) == run' = [run EXCEPT ![f].at = @ + 1]

commitReplay(f, dry) ==
    committed' = IF dry THEN committed ELSE [committed EXCEPT ![replayGroupID(f)] = run[f].at]

SkipMalformed(f) ==
    /\ Fetching(f) /\ ~Decoded(f)
    /\ commitReplay(f, run[f].dry)
    /\ Skip(f)
    /\ UNCHANGED <<used, dlq, sent, replays, cuts, mended>>

\* Seeded fault: the limit counts the records scanned.
SkipCounts(f) ==
    /\ Decoded(f) /\ ~Matched(f)
    /\ run' = [run EXCEPT ![f].at = @ + 1, ![f].count = @ + 1]
    /\ UNCHANGED <<used, dlq, sent, committed, replays, cuts, mended>>

SkipOtherStage(f) ==
    /\ Decoded(f) /\ ~Matched(f)
    /\ Skip(f)
    /\ UNCHANGED <<used, dlq, sent, committed, replays, cuts, mended>>

Inspect(f) ==
    /\ Matched(f) /\ run[f].dry
    /\ run' = [run EXCEPT ![f].at = @ + 1, ![f].count = @ + 1]
    /\ UNCHANGED <<used, dlq, sent, committed, replays, cuts, mended>>

SkipInvalid(f) ==
    /\ Chosen(f) /\ Fetched(f).form = "undecodable"
    /\ commitReplay(f, FALSE)
    /\ Skip(f)
    /\ UNCHANGED <<used, dlq, sent, replays, cuts, mended>>

\* log.Fatal: the run ends where it is.
Fatal(f) ==
    /\ Chosen(f) /\ Fetched(f).form # "undecodable"
    /\ ~mended \/ ~Plannable(Fetched(f))
    /\ run' = [run EXCEPT ![f] = NoRun]
    /\ UNCHANGED <<used, dlq, sent, committed, replays, cuts, mended>>

\* The ACK is applied to the store; anything else goes to its topic.
ReplayRecord(f) ==
    LET item == Fetched(f)
        time == replayKafkaPayload(item)
    IN /\ Chosen(f) /\ item.form # "undecodable" /\ Plannable(item)
       /\ run' = [run EXCEPT ![f].wrote = TRUE]
       /\ replays' = [replays EXCEPT ![f][run[f].at] = @ + 1]
       /\ sent' = IF item.stage = "command.ack" THEN sent
                  ELSE Append(sent, [item EXCEPT !.stage = "telemetry.postgres",
                                                 !.received = time, !.first = time])
       /\ UNCHANGED <<used, dlq, committed, cuts, mended>>

\* Seeded fault: goes on without a commit.
ReplayedUncommitted(f) ==
    /\ run[f].wrote
    /\ run' = [run EXCEPT ![f].at = @ + 1, ![f].count = @ + 1, ![f].wrote = FALSE]
    /\ UNCHANGED <<used, dlq, sent, committed, replays, cuts, mended>>

CommitReplayed(f) ==
    /\ run[f].wrote
    /\ commitReplay(f, FALSE)
    /\ run' = [run EXCEPT ![f].at = @ + 1, ![f].count = @ + 1, ![f].wrote = FALSE]
    /\ UNCHANGED <<used, dlq, sent, replays, cuts, mended>>

\* The process is killed, times out or its commit fails.
Cut(f) ==
    /\ ~mended /\ run[f].at > 0
    /\ run[f].wrote => cuts[f] < MaxCuts
    /\ cuts' = [cuts EXCEPT ![f] = IF run[f].wrote THEN @ + 1 ELSE @]
    /\ run' = [run EXCEPT ![f] = NoRun]
    /\ UNCHANGED <<used, dlq, sent, committed, replays, mended>>

\* The limit is reached, or no record arrives within the idle timeout.
EndReplay(f) ==
    /\ run[f].at > 0 /\ ~run[f].wrote
    /\ run[f].count >= RunLimit \/ run[f].at > Len(dlq)
    /\ run' = [run EXCEPT ![f] = NoRun]
    /\ UNCHANGED <<used, dlq, sent, committed, replays, cuts, mended>>

Replaying(f) ==
    \/ SkipMalformed(f) \/ SkipOtherStage(f) \/ Inspect(f) \/ SkipInvalid(f) \/ Fatal(f)
    \/ ReplayRecord(f) \/ CommitReplayed(f) \/ EndReplay(f)

-----------------------------------------------------------------------------
(* The consumers of what was replayed, and the operator *)

\* The worker stores the record, or dead-letters it with a new occurredAt.
Consume ==
    /\ sent # <<>>
    /\ sent' = Tail(sent)
    /\ \/ UNCHANGED dlq
       \/ /\ ~mended /\ Len(dlq) < MaxRecords
          /\ dlq' = Append(dlq, [Head(sent) EXCEPT !.occurred = Len(dlq) + 1])
    /\ UNCHANGED <<used, committed, run, replays, cuts, mended>>

Mend ==
    /\ ~mended /\ mended' = TRUE
    /\ UNCHANGED <<used, dlq, sent, committed, run, replays, cuts>>

ReplayNext ==
    \/ \E f \in StageFilters : BeginReplay(f, TRUE) \/ BeginReplay(f, FALSE) \/ Replaying(f) \/ Cut(f)
    \/ Consume \/ Mend

ReplaySpec(Contents) == ReplayInit(Contents) /\ [][ReplayNext]_replayVars

-----------------------------------------------------------------------------
(* Properties *)

\* Positions stay within the topic and counts within the limits.
ReplayTypeOK ==
    /\ used \subseteq StageFilters /\ mended \in BOOLEAN
    /\ dlq \in Seq(DeadLetters) /\ Len(dlq) <= MaxRecords
    /\ sent \in Seq(DeadLetters)
    /\ committed \in [Groups -> 0..Len(dlq)]
    /\ run \in [StageFilters -> [at : 0..(Len(dlq) + 1), dry : BOOLEAN,
                            count : 0..RunLimit, wrote : BOOLEAN]]
    /\ replays \in [StageFilters -> [1..MaxRecords -> Nat]]
    /\ cuts \in [StageFilters -> 0..MaxCuts]

Replayable(f, o) == dlq[o].form \in {"good", "unusable"} /\ f \in {"", dlq[o].stage}

\* A group's position never passes a record of its stage that it has not
\* replayed, whatever other stages lie between, wherever a run was cut, whoever
\* runs at the same time and whatever dry runs have shown (main.go:35,
\* main.go:98, main.go:159).
NothingOvertaken ==
    \A f \in StageFilters : \A o \in 1..committed[replayGroupID(f)] :
       Replayable(f, o) => replays[f][o] > 0

\* A record is replayed twice to one group only because a run was cut between
\* its write and its commit (main.go:142).
TwiceNeedsACut == \A f \in StageFilters : \A o \in 1..MaxRecords : replays[f][o] <= 1 + cuts[f]

\* However often a telemetry record goes through the dead-letter topic, it is
\* replayed with the receipt time of its first replay, so an old record never
\* makes its device look live (main.go:230).
ReceiptTimeKept ==
    \A o \in 1..Len(dlq) : dlq[o].first > 0 => replayKafkaPayload(dlq[o]) = dlq[o].first

\* An operator who mends the cause and goes on running the tool gets every
\* record of a stage replayed that no unusable one of the same stage precedes.
StageDrains ==
    <>[](\A f \in used : \A o \in 1..Len(dlq) :
            /\ Replayable(f, o)
            /\ \A p \in 1..o : Replayable(f, p) => Plannable(dlq[p])
            => replays[f][o] > 0)

=============================================================================
