-------------------------------- MODULE MCStun --------------------------------
(* Sizes around the headers, and messages with room for several attributes. *)
EXTENDS Stun

SomeSizes   == {1, 12, 13, 19, 20, 23} \cup 24 .. 72
SomeLengths == 0 .. 52

=============================================================================
