------------------------------ MODULE MCRtcActor ------------------------------
(* Model values for RtcActor, and their symmetry. *)
EXTENDS RtcActor, TLC

CONSTANTS a1, a2, a3, c1, c2, c3, g1, g2, w1, w2

TwoAddrs     == {a1, a2}
ThreeAddrs   == {a1, a2, a3}
TwoClients   == {c1, c2}
ThreeClients == {c1, c2, c3}
OneGroup     == {g1}
TwoGroups    == {g1, g2}
NoRates      == {}
OneWorker    == {w1}
TwoWorkers   == {w1, w2}
MembersOnly  == {FALSE}

(* Safety runs only. *)
Symmetry == Permutations(Addr) \cup Permutations(Client) \cup Permutations(Groups)

=============================================================================
