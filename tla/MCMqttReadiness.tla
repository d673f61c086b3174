--------------------------- MODULE MCMqttReadiness --------------------------
(***************************************************************************)
(* MqttReadiness for TLC.                                                  *)
(***************************************************************************)
EXTENDS MqttReadiness

FairSpec == Spec /\ CallbackFairness
=============================================================================
