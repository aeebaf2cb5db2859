-------------------------------- MODULE MCS2mm --------------------------------
(* The receive ring for TLC.                                                 *)
EXTENDS S2mmRing
==============================================================================
