-------------------------------- MODULE MCRing --------------------------------
(* The ring buffer demo for TLC.                                             *)
EXTENDS RingDemo
==============================================================================
