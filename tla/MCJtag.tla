------------------------------- MODULE MCJtag -------------------------------
(* The debug connection for TLC.                                             *)
EXTENDS JtagServer
==============================================================================
