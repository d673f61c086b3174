------------------------- MODULE MCCommandDelivery -------------------------
(***************************************************************************)
(* CommandDelivery for TLC, with one core and one worker.                  *)
(***************************************************************************)
EXTENDS CommandDelivery
=============================================================================
