------------------------------- MODULE MCServer -------------------------------
(* Model values for Server. *)
EXTENDS Server

CONSTANTS a1, a2, c1, c2, g1, g2, f1, u1

TwoAddrs    == {a1, a2}
TwoClients  == {c1, c2}
TwoGroups   == {g1, g2}
OneRate     == {f1}
OneUser     == {u1}
MembersOnly == {FALSE}

=============================================================================
