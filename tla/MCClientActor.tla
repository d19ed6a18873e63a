----------------------------- MODULE MCClientActor -----------------------------
(* Model values for ClientActor, and their symmetry. *)
EXTENDS ClientActor, TLC

CONSTANTS a1, a2, a3, c1, c2, c3, c4, g1

ThreeAddrs  == {a1, a2, a3}
FourClients == {c1, c2, c3, c4}
OneGroup    == {g1}
NoRates     == {}
Anyone      == BOOLEAN

(* Clients and addresses are interchangeable. *)
AddrClientSymmetry == Permutations(Addr) \cup Permutations(Client)

=============================================================================
