------------------------------- MODULE MCJitter -------------------------------
(* The bounds and the packets, model values, are in MCJitter.cfg. *)
EXTENDS Jitter

=============================================================================
