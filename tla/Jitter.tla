--------------------------------- MODULE Jitter ---------------------------------
(***************************************************************************)
(* The jitter buffer of one remote address, and the way of its RTP packets *)
(* from the socket to their renumbering:                                   *)
(*                                                                         *)
(*   - UdpRecv's future for a packet asks JitterControlActor to store it,  *)
(*     and gets nothing or the whole buffer back (src/src/server/udp.rs:150- *)
(*     182); it then sends the packets of the buffer to RtcActor one after *)
(*     another, waiting for each answer, while the futures of later        *)
(*     packets do the same;                                                *)
(*   - RtcActor's threads estimate the jitter of the client's packets and  *)
(*     tell JitterControlActor to lengthen or shorten the buffer's delay   *)
(*     (src/src/client/rtc_actor.rs:135-156).                              *)
(*                                                                         *)
(* Time is counted in JITTER_BUFFER_DELAY_INCREASE_STEP, 10 ms. RTCP passes *)
(* the buffer by and is not modelled here. RtcActor's pool is any number   *)
(* of threads.                                                             *)
(***************************************************************************)
EXTENDS Integers, Sequences, SequencesExt

CONSTANTS
  Packet,       \* RTP packets; a packet is sent again, as a new one, once handled
  Start,        \* JITTER_BUFFER_START_DELAY
  Volatile,     \* JITTER_BUFFER_VOLATILE, in steps
  Word,         \* the machine's word, in steps
  Transits,     \* how late packets can be, in steps
  MaxDelay,     \* bound on the delay, the estimate and on the time counted
  MaxDeficit,   \* bound on how far the estimate goes below zero
  MaxBuffer,    \* bound on the packets that arrive before the delay is over
  MaxPending,   \* bound on the messages to JitterControlActor
  Drains        \* how long RtcActor may take to handle a flushed buffer, in steps

ASSUME JitterAssumption ==
  /\ Start \in Nat /\ Start > 0
  /\ MaxDelay \in Nat /\ MaxDelay >= Start
  /\ Volatile \in Nat
  /\ Word \in Nat /\ Word > MaxDelay + Volatile
  /\ Drains \subseteq Nat

VARIABLES
  line,       \* packets JitterControlActor took and RtcActor has not handled, in order
  buffer,     \* JitterBuffer::buffer
  elapsed,    \* JitterBuffer::time.elapsed(), counted up to MaxDelay
  delay,      \* JitterBuffer::delay
  flushes,    \* what each future still has to send; the head of each is next
  rtc,        \* packets sent to RtcActor and not answered
  replaced,   \* those of rtc that are handled for a Client that was replaced
  estimate,   \* jitter_delay of the address's Client, a machine word
  net,        \* the estimate as a number
  stale,      \* decreases sent for replaced Clients since the present one came
  pending,    \* messages in JitterControlActor's mailbox
  drain       \* a flushed buffer is handled before elapsed() exceeds this; constant

bufferVars == <<line, buffer, elapsed, flushes, rtc, drain>>
estimateVars == <<replaced, estimate, net, stale>>
jitterVars == <<bufferVars, delay, pending, estimateVars>>

(* The first packet creates the buffer; its time is that of its creation. *)
JitterInit ==
  /\ \E p \in Packet : line = <<p>> /\ buffer = <<p>>
  /\ flushes = <<>> /\ rtc = {} /\ replaced = {}
  /\ elapsed = 0 /\ delay = Start
  /\ estimate = Start /\ net = Start /\ stale = 0 /\ pending = <<>>
  /\ drain \in Drains

(* Wrong on purpose, for mutation: the buffer is cloned, not taken. *)
GetOrStoreClones(p) ==
  IF elapsed >= delay
  THEN /\ buffer' = Append(buffer, p)
       /\ flushes' = Append(flushes, Append(buffer, p))
       /\ elapsed' = 0
  ELSE buffer' = Append(buffer, p) /\ UNCHANGED <<flushes, elapsed>>

(* Handler<GetOrStoreJitterBuffer>: store, or flush what is stored. *)
GetOrStore(p) ==
  IF elapsed >= delay
  THEN /\ buffer' = <<>>
       /\ flushes' = Append(flushes, Append(buffer, p))
       /\ elapsed' = 0
  ELSE buffer' = Append(buffer, p) /\ UNCHANGED <<flushes, elapsed>>

(* A packet from the socket reaches JitterControlActor. *)
Arrive(p) ==
  /\ p \notin Range(line)
  /\ Len(buffer) < MaxBuffer \/ elapsed >= delay
  /\ line' = Append(line, p)
  /\ GetOrStore(p)
  /\ UNCHANGED <<rtc, drain, delay, pending, estimateVars>>

(* A future sends its next packet to RtcActor. *)
Send(i) ==
  /\ Head(flushes[i]) \notin rtc
  /\ rtc' = rtc \cup {Head(flushes[i])}
  /\ UNCHANGED <<line, buffer, elapsed, flushes, drain, delay, pending, estimateVars>>

(* Wrong on purpose, for mutation: the future ends with its first packet. *)
RestAfterFirst(i) == RemoveAt(flushes, i)

(* The futures when i has its answer: it goes on with the rest, or ends. *)
Rest(i) ==
  IF Len(flushes[i]) = 1 THEN RemoveAt(flushes, i) ELSE [flushes EXCEPT ![i] = Tail(@)]

(* The answer for the packet of future i arrives. *)
Answer(i) ==
  LET p == Head(flushes[i]) IN
  /\ p \in rtc
  /\ rtc' = rtc \ {p}
  /\ replaced' = replaced \ {p}
  /\ \E k \in DOMAIN line : line[k] = p /\ line' = RemoveAt(line, k)
  /\ flushes' = Rest(i)
  /\ UNCHANGED <<buffer, elapsed, drain, delay>>

(* Wrong on purpose, for mutation: the interval is left out. *)
ThresholdTight == estimate

(* jitter_delay * rate + JITTER_BUFFER_VOLATILE, in u32 *)
Threshold == (estimate + Volatile) % Word

Post(m) ==
  /\ Len(pending) < MaxPending
  /\ m = "increase" => delay + Len(pending) < MaxDelay
  /\ pending' = Append(pending, m)

(* A transit above the threshold lengthens the delay. *)
Raise ==
  /\ net < MaxDelay
  /\ estimate' = (estimate + 1) % Word /\ net' = net + 1
  /\ Post("increase")

(* Ten seconds without one shorten it; the estimate has no lower bound. *)
Lower ==
  /\ net > -MaxDeficit
  /\ estimate' = (estimate - 1) % Word /\ net' = net - 1
  /\ Post("decrease")

(* RtcActor estimates the jitter of a packet that is transit steps late,   *)
(* and answers.                                                            *)
Estimate(i, transit) ==
  /\ Head(flushes[i]) \notin replaced
  /\ Answer(i)
  /\ \/ transit > Threshold /\ Raise
     \/ transit <= Threshold /\ Lower
     \/ transit <= Threshold /\ UNCHANGED <<estimate, net, pending>>
  /\ UNCHANGED stale

(* The same for the statistics of a replaced Client, which are any. *)
EstimateReplaced(i) ==
  /\ Head(flushes[i]) \in replaced
  /\ Answer(i)
  /\ \/ Post("increase") /\ UNCHANGED stale
     \/ Post("decrease") /\ stale' = stale + 1
     \/ UNCHANGED <<pending, stale>>
  /\ UNCHANGED <<estimate, net>>

(* The packet is not decrypted, or has no runtime. *)
Refuse(i) == Answer(i) /\ UNCHANGED <<pending, estimate, net, stale>>

(* The address's Client is replaced; threads keep the one they have found. *)
Reconnect ==
  /\ replaced' \in {R \in SUBSET rtc : replaced \subseteq R}
  /\ estimate' = Start /\ net' = Start /\ stale' = 0
  /\ UNCHANGED <<bufferVars, delay, pending>>

(* Wrong on purpose, for mutation: the lower bound is forgotten. *)
AppliedUnbounded(d, m) == IF m = "increase" THEN d + 1 ELSE d - 1

(* Handlers of IncreaseJitterBufferDelay and DecreaseJitterBufferDelay *)
Applied(d, m) ==
  IF m = "increase" THEN d + 1 ELSE IF d <= Start THEN d ELSE d - 1

(* JitterControlActor handles its next message. *)
Control ==
  /\ pending # <<>>
  /\ delay' = Applied(delay, Head(pending))
  /\ pending' = Tail(pending)
  /\ UNCHANGED <<bufferVars, estimateVars>>

Tick ==
  /\ elapsed < MaxDelay
  /\ flushes # <<>> => elapsed < drain
  /\ elapsed' = elapsed + 1
  /\ UNCHANGED <<line, buffer, flushes, rtc, drain, delay, pending, estimateVars>>

FutureStep(i) ==
  \/ Send(i)
  \/ \E t \in Transits : Estimate(i, t)
  \/ EstimateReplaced(i)
  \/ Refuse(i)

JitterNext ==
  \/ \E p \in Packet : Arrive(p)
  \/ \E i \in DOMAIN flushes : FutureStep(i)
  \/ Reconnect
  \/ Control
  \/ Tick

JitterSpec == JitterInit /\ [][JitterNext]_jitterVars

(* Both clocks and the actors go on, and the remote peer goes on sending.  *)
HeadStep(p) == \E i \in DOMAIN flushes : Head(flushes[i]) = p /\ FutureStep(i)

JitterFairSpec ==
  /\ JitterSpec
  /\ WF_jitterVars(\E p \in Packet : Arrive(p))
  /\ WF_jitterVars(Tick)
  /\ \A p \in Packet : WF_jitterVars(HeadStep(p))

-----------------------------------------------------------------------------
(***************************************************************************)
(* Properties.                                                             *)
(***************************************************************************)

(* No packet is lost, duplicated or stored out of order between the socket *)
(* and RtcActor, however many flushes are on their way: the flushes and    *)
(* the buffer, put together, are the packets that arrived and are not      *)
(* handled, in the order of their arrival.                                 *)
LineKept == FlattenSeq(flushes) \o buffer = line

(* The delay's lower bound is what keeps packets in order. Flushes are at  *)
(* least Start apart, so if RtcActor handles a flushed buffer faster than  *)
(* that, RTP packets are handled in the order of their arrival, although   *)
(* the futures of two flushes would not wait for each other.               *)
HandledInOrder == drain < Start => \A p \in rtc : line # <<>> /\ p = Head(line)

(* Once its messages are handled the delay is at least what the Client's   *)
(* statistics ask for, although JitterControlActor refuses decreases the   *)
(* Client has counted. Only threads that still work for a replaced Client  *)
(* can take it below, by one step each.                                    *)
DelayCoversEstimate == FoldLeft(Applied, delay, pending) + stale >= net

(* The estimate has no lower bound and wraps below zero; the threshold     *)
(* computed from it is right nevertheless, as long as the estimate is not  *)
(* further below zero than the interval it is added to.                    *)
ThresholdExact == net + Volatile >= 0 => Threshold = net + Volatile

(* A buffered packet is not flushed by a timer but by the next packet that *)
(* comes after the delay; as long as packets keep coming, every packet is  *)
(* handled.                                                                *)
KeepsFlowing == \A p \in Packet : p \in Range(line) ~> p \notin Range(line)

=============================================================================
