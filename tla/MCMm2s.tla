-------------------------------- MODULE MCMm2s --------------------------------
(* The transmit ring for TLC.                                                *)
EXTENDS Mm2sRing
==============================================================================
