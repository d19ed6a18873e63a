------------------------------- MODULE MediaList -------------------------------
(***************************************************************************)
(* Payload types: the media list built from the rtpmap lines of an offer   *)
(* (src/src/sdp/media.rs), the formats the answer keeps (src/src/sdp/      *)
(* mod.rs:176-195), and what forwarding does with the payload type of a    *)
(* packet (src/src/client/rtc_actor.rs:63-108, 201-215).                   *)
(*                                                                         *)
(* The list is a bidirectional map between codec names and payload types,  *)
(* and a map from payload types to clock rates. A bidirectional map has at *)
(* most one payload type for a name: inserting a pair removes every pair   *)
(* that shares its name or its payload type.                               *)
(***************************************************************************)
EXTENDS Naturals, Sequences

CONSTANTS
  Peer,        \* clients
  PayloadType, \* numbers of rtpmap lines
  Name,        \* codec names
  ClockRate,        \* clock rates
  Supported,   \* formats, pairs of name and rate, that is_supported_format accepts
  Ignored,     \* the payload type RtcActor drops (111)
  MaxLines,    \* bound on the rtpmap lines of an offer
  None         \* no packet, no payload type, no clock rate

ASSUME MediaListAssumption ==
  /\ None \notin PayloadType \cup ClockRate
  /\ MaxLines \in Nat

Rtpmap == [id : PayloadType, name : Name, rate : ClockRate]

VARIABLES
  offered,  \* the rtpmap lines of each peer's offer
  done,     \* how many of them are in the list
  names,    \* the pairs of name and payload type of each list
  rates,    \* the clock rate of each payload type
  packet    \* the last packet: its sender, receiver, and payload types before and after

listVars  == <<offered, done, names, rates>>
mediaListVars == <<listVars, packet>>

ListInit ==
  /\ offered \in [Peer -> UNION {[1 .. n -> Rtpmap] : n \in 0 .. MaxLines}]
  /\ done = [p \in Peer |-> 0]
  /\ names = [p \in Peer |-> {}]
  /\ rates = [p \in Peer |-> [t \in PayloadType |-> None]]
  /\ packet = None

(* Wrong on purpose, for mutation: an ordinary map from payload types. *)
InsertedById(pairs, m) == {x \in pairs : x[2] # m.id} \cup {<<m.name, m.id>>}

(* Wrong on purpose, for mutation: the name keeps its first payload type. *)
InsertedFirst(pairs, m) ==
  IF \E x \in pairs : x[1] = m.name THEN pairs ELSE pairs \cup {<<m.name, m.id>>}

(* BiMap::insert *)
Inserted(pairs, m) ==
  {x \in pairs : x[1] # m.name /\ x[2] # m.id} \cup {<<m.name, m.id>>}

(* from_iter inserts the next line. *)
Insert(p) ==
  /\ done[p] < Len(offered[p])
  /\ LET m == offered[p][done[p] + 1] IN
       /\ names' = [names EXCEPT ![p] = Inserted(@, m)]
       /\ rates' = [rates EXCEPT ![p][m.id] = m.rate]
  /\ done' = [done EXCEPT ![p] = @ + 1]
  /\ UNCHANGED <<offered, packet>>

(* is_supported_format *)
IsSupported(m) == <<m.name, m.rate>> \in Supported

(* The payload types the answer offers: the lines set_attributes keeps. *)
Answered(p) ==
  {offered[p][i].id : i \in {j \in DOMAIN offered[p] : IsSupported(offered[p][j])}}

(* codec_n_frequency: names of the payload type, none for RTCP. *)
Codec(p, t, is_rtcp) ==
  {n \in Name : ~is_rtcp /\ <<n, t>> \in names[p] /\ rates[p][t] # None}

(* UnsupportedFormat, and CodecNotSet. *)
Dropped(p, t, is_rtcp) == ~is_rtcp /\ (t = Ignored \/ Codec(p, t, is_rtcp) = {})

(* Lines 201-215: the receiver's payload types that message[1] is set to.  *)
Prepared(p, q, t, is_rtcp) ==
  {u \in PayloadType : is_rtcp /\ \E n \in Codec(p, t, is_rtcp) : <<n, u>> \in names[q]}

(* A packet of p with payload type t is forwarded to q. *)
Forward(p, q, t, is_rtcp) ==
  /\ done[p] = Len(offered[p]) /\ done[q] = Len(offered[q])
  /\ \E out \in IF Dropped(p, t, is_rtcp) THEN {None}
                ELSE IF Prepared(p, q, t, is_rtcp) = {} THEN {t}
                ELSE Prepared(p, q, t, is_rtcp) :
       packet' = [from |-> p, to |-> q, is_rtcp |-> is_rtcp, payload |-> t, out |-> out]
  /\ UNCHANGED listVars

ListNext ==
  \/ \E p \in Peer : Insert(p)
  \/ \E p, q \in Peer, t \in PayloadType, is_rtcp \in BOOLEAN : Forward(p, q, t, is_rtcp)

ListSpec == ListInit /\ [][ListNext]_mediaListVars

-----------------------------------------------------------------------------
(***************************************************************************)
(* Properties.                                                             *)
(***************************************************************************)

(* Type invariant of the lists: the names are a bijection, and every named *)
(* payload type has a clock rate.                                          *)
ListTypeOK ==
  /\ done \in [Peer -> 0 .. MaxLines]
  /\ names \in [Peer -> SUBSET (Name \X PayloadType)]
  /\ rates \in [Peer -> [PayloadType -> ClockRate \cup {None}]]
  /\ \A p \in Peer : \A x, y \in names[p] : (x[1] = y[1]) = (x[2] = y[2])
  /\ \A p \in Peer : \A x \in names[p] : rates[p][x[2]] # None

(* Two lines that cannot both be in the list. *)
Clash(l, m) == l.id = m.id \/ l.name = m.name

(* What the list is, without the history of its construction: the lines    *)
(* that no later line shares the payload type or the name of.              *)
LastLinesWin ==
  \A p \in Peer :
    names[p] = {<<offered[p][i].name, offered[p][i].id>> : i \in
                  {j \in 1 .. done[p] :
                     \A k \in j + 1 .. done[p] : ~Clash(offered[p][j], offered[p][k])}}

(* The line of payload type t was pushed out by a line of the same codec   *)
(* with another payload type.                                              *)
PushedOut(p, t) ==
  \E i, j \in 1 .. done[p] :
    /\ i < j
    /\ offered[p][i].id = t /\ offered[p][j].id # t
    /\ offered[p][i].name = offered[p][j].name

(* A packet whose payload type is in the answer is only dropped because it *)
(* is the ignored one, or because the offer has the same codec under       *)
(* another payload type as well (H264 with several profiles, say), of      *)
(* which the list knows the last only.                                     *)
AnsweredIsForwarded ==
  packet # None =>
    (packet.payload \in Answered(packet.from) /\ packet.out = None =>
       packet.payload = Ignored \/ PushedOut(packet.from, packet.payload))

(* What the comment at rtc_actor.rs:202 says: a forwarded RTP packet has   *)
(* the payload type that the receiver knows the codec by.                  *)
PayloadPrepared ==
  packet # None =>
    \A n \in Name, t \in PayloadType :
      /\ ~packet.is_rtcp /\ packet.out # None
      /\ <<n, packet.payload>> \in names[packet.from] /\ <<n, t>> \in names[packet.to]
      => packet.out = t

=============================================================================
