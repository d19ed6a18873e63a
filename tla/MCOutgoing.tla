------------------------------ MODULE MCOutgoing ------------------------------
(* Outgoing with two clients: the one at an address and the one it replaced. *)
EXTENDS Outgoing

=============================================================================
