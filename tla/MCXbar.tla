------------------------------- MODULE MCXbar -------------------------------
(* The crossbar for TLC: model values for the targets, a small set of ids.   *)
EXTENDS ObiXbar

LiveSpec == Spec /\ BridgesGrant
==============================================================================
