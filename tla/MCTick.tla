-------------------------------- MODULE MCTick --------------------------------
(* The FreeRTOS tick for TLC.                                                *)
EXTENDS TickTimer
==============================================================================
