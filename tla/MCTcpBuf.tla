------------------------------- MODULE MCTcpBuf -------------------------------
(* The byte buffer for TLC.                                                  *)
EXTENDS TcpBuf
==============================================================================
