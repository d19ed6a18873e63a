------------------------------- MODULE MCUdpRecv -------------------------------
(* Model values for UdpRecv. *)
EXTENDS UdpRecv

CONSTANTS o1, o2, u1

TwoOffers == {o1, o2}
OneUser   == {u1}

=============================================================================
