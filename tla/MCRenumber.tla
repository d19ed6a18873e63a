------------------------------ MODULE MCRenumber ------------------------------
(* Two streams, each with a clock rate of its own. *)
EXTENDS Renumber

Streams == {"audio", "video"}
Rates   == {"48000", "90000"}
RatesOf == [s \in Streams |-> IF s = "audio" THEN "48000" ELSE "90000"]

=============================================================================
