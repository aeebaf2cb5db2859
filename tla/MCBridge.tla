------------------------------- MODULE MCBridge -------------------------------
(* The AXI bridge for TLC.                                                   *)
EXTENDS Obi2Axi
==============================================================================
