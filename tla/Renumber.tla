-------------------------------- MODULE Renumber --------------------------------
(***************************************************************************)
(* The numbers of forwarded RTP packets (src/src/client/rtc_actor.rs:97-133). *)
(* The server replaces the sequence number and the timestamp of a client's *)
(* packet by its own, which it advances by the difference of the client's. *)
(* Both are handled alike and differ in width only: Word is 2^16 for the   *)
(* sequence number and 2^32 for the timestamp.                             *)
(*                                                                         *)
(* A client has one runtime per clock rate, not per stream: two streams of *)
(* the same rate (video and its retransmissions, say) share one.           *)
(*                                                                         *)
(* The arithmetic is that of the release build, where += wraps around; the *)
(* other build stops the worker thread instead.                            *)
(***************************************************************************)
EXTENDS Naturals

CONSTANTS
  Stream,     \* RTP streams of one client
  Rate,       \* clock rates of its media list
  RateOf,     \* the rate of each stream
  Word,       \* numbers are 0 .. Word - 1
  First,      \* what the server's first number is drawn from
  MaxJump,    \* bound on how far two packets of a stream are apart
  MaxTravel   \* bound on how far a stream advances in all

ASSUME RenumberAssumption ==
  /\ Word \in Nat /\ Word > 1
  /\ First \subseteq 1 .. Word - 1
  /\ MaxJump \in Nat /\ MaxJump < Word
  /\ MaxTravel \in Nat
  /\ RateOf \in [Stream -> Rate]

VARIABLES
  client,     \* client_sequence of each runtime; None, like NonZero of 0, is 0
  server,     \* server_sequence of each runtime
  last,       \* the newest number each stream has sent
  travelled,  \* how far each stream has advanced, not wrapped
  shown,      \* how far each runtime has advanced, not wrapped
  shift,     \* server's number less the client's at the first packet
  stage       \* of a stream: "new", "clean", "wrapped", or "mixed" after a late packet

rtpVars == <<client, server, last, travelled, shown, shift, stage>>

Number == 0 .. Word - 1

(* A number of the machine's width; sums are below twice the width. *)
Wrap(n) == IF n >= Word THEN n - Word ELSE n

(* saturating_sub *)
SatSub(n, m) == IF n > m THEN n - m ELSE 0

(* What is left of a number that went back past zero. *)
Back(n, d) == IF n >= d THEN n - d ELSE n + Word - d

(* ClientRtpRuntime::default(): a random first number, nothing received. *)
RtpInit ==
  /\ client = [r \in Rate |-> 0]
  /\ server \in [Rate -> First]
  /\ last \in [Stream -> Number]
  /\ travelled = [s \in Stream |-> 0]
  /\ shown = [r \in Rate |-> 0]
  /\ shift = [s \in Stream |-> 0]
  /\ stage = [s \in Stream |-> "new"]

(* Wrong on purpose, for mutation: one runtime for all rates. *)
RuntimeOfAny(s) == CHOOSE r \in Rate : TRUE

RuntimeOf(s) == RateOf[s]

(* Wrong on purpose, for mutation: the distance from None is counted. *)
AdvanceFromNone(r, n) == SatSub(n, client[r])

(* incr_sequence, client_diff *)
Advance(r, n) == IF client[r] = 0 THEN 0 ELSE SatSub(n, client[r])

(* A packet numbered n reaches its runtime. *)
Replace(r, n) ==
  /\ client' = [client EXCEPT ![r] = n]
  /\ server' = [server EXCEPT ![r] = Wrap(@ + Advance(r, n))]
  /\ shown' = [shown EXCEPT ![r] = @ + Advance(r, n)]

(* A stream is clean until it wraps around or sends zero. *)
StageAfter(s, n) ==
  IF stage[s] = "mixed" THEN "mixed"
  ELSE IF n # 0 /\ (stage[s] = "new" \/ (stage[s] = "clean" /\ n >= last[s])) THEN "clean"
  ELSE "wrapped"

(* The next packet of a stream; packets in between may have been lost. *)
Packet(s, d) ==
  LET n == Wrap(last[s] + d)
      r == RuntimeOf(s) IN
  /\ travelled[s] + d <= MaxTravel
  /\ last' = [last EXCEPT ![s] = n]
  /\ travelled' = [travelled EXCEPT ![s] = IF stage[s] = "new" THEN 0 ELSE @ + d]
  /\ Replace(r, n)
  /\ shift' = [shift EXCEPT ![s] = IF stage[s] = "new" THEN Back(server'[r], n) ELSE @]
  /\ stage' = [stage EXCEPT ![s] = StageAfter(s, n)]

(* A packet that the network has delayed past its successors. *)
Late(s, d) ==
  /\ stage[s] # "new"
  /\ Replace(RuntimeOf(s), Back(last[s], d))
  /\ stage' = [stage EXCEPT ![s] = "mixed"]
  /\ shown[RuntimeOf(s)] <= MaxTravel
  /\ UNCHANGED <<last, travelled, shift>>

RtpNext ==
  \E s \in Stream, d \in 0 .. MaxJump : Packet(s, d) \/ (d > 0 /\ Late(s, d))

RtpSpec == RtpInit /\ [][RtpNext]_rtpVars

-----------------------------------------------------------------------------
(***************************************************************************)
(* Properties.                                                             *)
(***************************************************************************)

(* Type invariant of the runtimes: the server's numbers keep their width. *)
RtpTypeOK ==
  /\ client \in [Rate -> Number]
  /\ server \in [Rate -> Number]
  /\ last \in [Stream -> Number]
  /\ travelled \in [Stream -> Nat]
  /\ shown \in [Rate -> Nat]
  /\ shift \in [Stream -> Number]
  /\ stage \in [Stream -> {"new", "clean", "wrapped", "mixed"}]

(* No other stream of the client has the clock rate of s. *)
Alone(s) == \A t \in Stream : RateOf[t] = RateOf[s] => t = s

(* The stream's runtime is where the stream is. *)
Follows(s) ==
  /\ stage[s] = "new" => client[RateOf[s]] = 0 /\ shown[RateOf[s]] = 0
  /\ stage[s] \in {"clean", "wrapped"} => client[RateOf[s]] = last[s]
  /\ stage[s] = "clean" => last[s] # 0

(* As long as a stream that has its clock rate to itself comes in order,   *)
(* even with losses, and does not wrap around, its packets keep one and    *)
(* the same distance between the client's and the server's number: gaps    *)
(* stay gaps of the same size, and different packets have different        *)
(* numbers.                                                                *)
OffsetKept ==
  \A s \in Stream :
    Alone(s) /\ stage[s] = "clean" => server[RateOf[s]] = Wrap(last[s] + shift[s])

(* Even when it wraps around, where the code repeats numbers, such a       *)
(* stream's numbering never runs ahead of it: no receiver sees a gap that  *)
(* the sender did not make.                                                *)
NeverAhead ==
  \A s \in Stream :
    Alone(s) /\ stage[s] # "mixed" => shown[RateOf[s]] <= travelled[s]

(* What the proofs carry from step to step. *)
RtpInv ==
  /\ RtpTypeOK
  /\ \A s \in Stream : Alone(s) => Follows(s)
  /\ OffsetKept
  /\ NeverAhead

=============================================================================
