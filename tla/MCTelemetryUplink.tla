------------------------- MODULE MCTelemetryUplink --------------------------
(***************************************************************************)
(* TelemetryUplink for TLC.                                                *)
(***************************************************************************)
EXTENDS TelemetryUplink

CONSTANTS d1

MCDeviceOf == [m \in Messages |-> d1]

InletStopSpec == InletSpec /\ StopFairness /\ KafkaFairness
=============================================================================
