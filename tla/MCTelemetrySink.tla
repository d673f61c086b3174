--------------------------- MODULE MCTelemetrySink --------------------------
(***************************************************************************)
(* TelemetrySink for TLC.                                                  *)
(***************************************************************************)
EXTENDS TelemetrySink, TLC

CONSTANTS d1

MCDeviceOf == [m \in Messages |-> d1]

\* Every message at the same timestamp: their points replace each other.
MCStampOf == [m \in Messages |-> CHOOSE t \in Stamps : TRUE]

WorkerSymmetry == Permutations(Workers)

SinkFairSpec == SinkSpec /\ LoopFairness /\ SinkFairness
=============================================================================
