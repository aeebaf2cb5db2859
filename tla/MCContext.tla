----------------------------- MODULE MCContext -----------------------------
(* PortContext with two tasks. *)
EXTENDS PortContext
=============================================================================
