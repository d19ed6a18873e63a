------------------------------ MODULE MCDtlsTasks ------------------------------
(* Model values for DtlsTasks. *)
EXTENDS DtlsTasks

CONSTANTS a1, c1, c2, g1, t1, t2, t3

OneAddr     == {a1}
TwoClients  == {c1, c2}
OneGroup    == {g1}
NoRates     == {}
ThreeTasks  == {t1, t2, t3}
MembersOnly == {FALSE}

=============================================================================
