---------------------------- MODULE Packets_proofs ----------------------------
(***************************************************************************)
(* Proofs about the three modules on what is inside a packet: module Stun, *)
(* for datagrams, length fields and buffers of every size; MediaList, for  *)
(* any number of peers, payload types, codecs, clock rates and rtpmap      *)
(* lines; and Renumber, for every width, every number of streams and every *)
(* assignment of clock rates.                                              *)
(***************************************************************************)
EXTENDS Stun, MediaList, Renumber, TLAPS

(* Module Stun. ScanInv says where the scan may stand relative to the      *)
(* length field, ResponseInv what is written at each stage of the          *)
(* response.                                                               *)
ScanInv ==
  /\ size \in Nat /\ length \in Nat /\ offset \in Nat /\ reach \in Nat
  /\ refused \in Nat
  /\ ReadsInside
  /\ pc = "recv" => length = 0 /\ offset = 0 /\ refused = 0
  /\ pc = "scan" => /\ first = 0 /\ length >= 4 /\ HeaderLen + length <= size
                    /\ offset >= HeaderLen
  /\ OnlyTheTailIsLost

Stages == {"stun", "failed", "sign", "sum", "send", "sent"}

ClassInv ==
  /\ first \in Nat
  /\ pc \in {"recv", "scan", "rtc", "dtls", "unknown"} \cup Stages
  /\ pc \in Stages => first = 0
  /\ DtlsGetsThrough

ResponseInv ==
  /\ ipv4 \in BOOLEAN
  /\ buffer \in Nat
  /\ pc \in {"sign", "sum", "send", "sent"} => HeaderLen + ContentLen(ipv4) <= buffer
  /\ pc = "sign" => written = Bytes(0, IntegrityAt(ipv4)) /\ field = SignedLen(ipv4)
  /\ pc = "sum"  => written = Bytes(0, FingerprintAt(ipv4))
  /\ pc \in {"send", "sent"} =>
       /\ written = Bytes(0, HeaderLen + ContentLen(ipv4)) /\ field = ContentLen(ipv4)
       /\ summed = [bytes |-> Bytes(0, FingerprintAt(ipv4)), field |-> ContentLen(ipv4)]
  /\ pc \in {"sum", "send", "sent"} =>
       signed = [bytes |-> Bytes(0, IntegrityAt(ipv4)), field |-> SignedLen(ipv4)]
  /\ pc = "sent" => sent = HeaderLen + ContentLen(ipv4)

(* What padding does to the length of an attribute (line 48). *)
LEMMA PaddedFacts ==
  ASSUME NEW n \in Nat
  PROVE  Padded(n) \in Nat /\ Padded(n) >= n
BY DEF Padded

(* Nothing is read before the scan. *)
LEMMA ScanInit == StunInit => ScanInv
BY StunAssumption DEF StunInit, ScanInv, ReadsInside, OnlyTheTailIsLost, HeaderLen

(* Each attribute read moves the scan on, inside the datagram. *)
LEMMA ScanStep == ScanInv /\ [StunNext]_stunVars => ScanInv'
<1> SUFFICES ASSUME ScanInv, [StunNext]_stunVars PROVE ScanInv'
  OBVIOUS
<1> USE DEF ScanInv, ReadsInside, OnlyTheTailIsLost, HeaderLen, Other
<1>1. ASSUME NEW n \in Lengths, NEW ok \in BOOLEAN, Receive(n, ok) PROVE ScanInv'
  <2>1. n \in Nat
    BY StunAssumption
  <2> QED
    BY <1>1, <2>1 DEF Receive, Fits, requestVars, IsDtls
<1>2. ASSUME NEW n \in Payloads, NEW user \in BOOLEAN, NEW ok \in BOOLEAN,
             Attribute(n, user, ok)
      PROVE  ScanInv'
  <2>1. n \in Nat
    BY StunAssumption
  <2>2. PICK p \in Nat : p = Padded(n) /\ p >= n
    BY <2>1, PaddedFacts
  <2> QED
    BY <1>2, <2>1, <2>2 DEF Attribute, TooLong, Skipped, IsDtls
<1>3. CASE EndScan
  BY <1>3 DEF EndScan, IsDtls
<1>4. CASE WriteStep
  BY <1>4 DEF WriteStep, Begin, Sign, Sum, Send, requestVars
<1>5. CASE UNCHANGED stunVars
  BY <1>5 DEF stunVars, requestVars
<1> QED
  BY <1>1, <1>2, <1>3, <1>4, <1>5 DEF StunNext, ParseStep

(* No slice of parse_stun_binding_request is out of range, for datagrams   *)
(* of every size and whatever lengths they claim.                          *)
THEOREM ScanReadsInside == StunSpec => []ReadsInside
<1>1. ScanInv => ReadsInside
  BY DEF ScanInv
<1> QED
  BY <1>1, ScanInit, ScanStep, PTL DEF StunSpec

(* The scan only ever gives up what ends in the last 20 bytes.             *)
THEOREM ScanLosesOnlyTheTail == StunSpec => []OnlyTheTailIsLost
<1>1. ScanInv => OnlyTheTailIsLost
  BY DEF ScanInv
<1> QED
  BY <1>1, ScanInit, ScanStep, PTL DEF StunSpec

(* Each turn of the loop moves on, and never beyond the length field.      *)
THEOREM ScanMovesOn == StunSpec => ScanAdvances
<1> DEFINE Moves == pc = "scan" /\ pc' = "scan" => offset' >= offset + 4 /\ offset' <= length
<1>1. ScanInv /\ [StunNext]_stunVars => [Moves]_stunVars
  <2> SUFFICES ASSUME ScanInv, StunNext, pc = "scan", pc' = "scan"
               PROVE  offset' >= offset + 4 /\ offset' <= length
    OBVIOUS
  <2>1. PICK n \in Payloads, user \in BOOLEAN, ok \in BOOLEAN : Attribute(n, user, ok)
    BY DEF StunNext, ParseStep, WriteStep, Receive, EndScan, Begin, Sign, Sum, Send, Other
  <2>2. n \in Nat
    BY StunAssumption
  <2>3. PICK p \in Nat : p = Padded(n)
    BY <2>2, PaddedFacts
  <2> QED
    BY <2>1, <2>3 DEF Attribute, TooLong, Skipped, Other, ScanInv
<1> QED
  BY <1>1, ScanInit, ScanStep, PTL DEF StunSpec, ScanAdvances

-----------------------------------------------------------------------------
(* What is taken for STUN keeps its first byte while it is parsed. *)
LEMMA ClassStep == ScanInv /\ ClassInv /\ [StunNext]_stunVars => ClassInv'
<1> SUFFICES ASSUME ScanInv, ClassInv, [StunNext]_stunVars PROVE ClassInv'
  OBVIOUS
<1> USE DEF ClassInv, DtlsGetsThrough, Stages, IsDtls, Other
<1>1. ASSUME NEW n \in Lengths, NEW ok \in BOOLEAN, Receive(n, ok) PROVE ClassInv'
  BY <1>1 DEF Receive, requestVars, IsRtpHeader
<1>2. ASSUME NEW n \in Payloads, NEW user \in BOOLEAN, NEW ok \in BOOLEAN,
             Attribute(n, user, ok)
      PROVE  ClassInv'
  BY <1>2 DEF Attribute, ScanInv
<1>3. CASE EndScan
  BY <1>3 DEF EndScan
<1>4. CASE WriteStep
  BY <1>4 DEF WriteStep, Begin, Sign, Sum, Send, requestVars
<1>5. CASE UNCHANGED stunVars
  BY <1>5 DEF stunVars, requestVars
<1> QED
  BY <1>1, <1>2, <1>3, <1>4, <1>5 DEF StunNext, ParseStep

(* DTLS gets exactly the datagrams that start like a DTLS record.          *)
THEOREM DtlsIsNeverMistaken == StunSpec => []DtlsGetsThrough
<1>1. StunInit => ClassInv
  BY StunAssumption DEF StunInit, ClassInv, DtlsGetsThrough, Stages
<1>2. ClassInv => DtlsGetsThrough
  BY DEF ClassInv
<1> QED
  BY <1>1, <1>2, ScanInit, ScanStep, ClassStep, PTL DEF StunSpec

-----------------------------------------------------------------------------
(* The address attribute fills the space between header and integrity.     *)
LEMMA AddressTiles ==
  ASSUME NEW v4 \in BOOLEAN
  PROVE  Bytes(0, HeaderLen) \cup AddressBytes(v4) = Bytes(0, IntegrityAt(v4))
<1> USE DEF Bytes, HeaderLen, AddressBytes, IntegrityAt, Marker, AddrLen
<1>1. CASE v4
  <2>1. Bytes(0, HeaderLen) \cup AddressBytes(v4) = 0 .. 31
    BY <1>1
  <2> QED
    BY <1>1, <2>1
<1>2. CASE ~v4
  <2>1. Bytes(0, HeaderLen) \cup AddressBytes(v4) = 0 .. 43
    BY <1>2
  <2> QED
    BY <1>2, <2>1
<1> QED
  BY <1>1, <1>2

(* The response is written stage by stage, without a gap. *)
LEMMA ResponseStep == ResponseInv /\ [StunNext]_stunVars => ResponseInv'
<1> SUFFICES ASSUME ResponseInv, [StunNext]_stunVars PROVE ResponseInv'
  OBVIOUS
<1> USE DEF ResponseInv, HeaderLen, Marker, Bytes, AddrLen, IntegrityLen, FingerprintLen,
            SignedLen, ContentLen, IntegrityAt, FingerprintAt
<1>1. CASE ParseStep
  BY <1>1 DEF ParseStep, Receive, Attribute, EndScan, responseVars, Other
<1>2. ASSUME NEW v4 \in BOOLEAN, NEW n \in Buffers, Begin(v4, n) PROVE ResponseInv'
  <2>1. n \in Nat
    BY StunAssumption
  <2>2. PICK w : w = Bytes(0, HeaderLen) \cup AddressBytes(v4)
    OBVIOUS
  <2>3. w = Bytes(0, IntegrityAt(v4))
    BY <2>2, AddressTiles
  <2>4. CASE pc' = "failed"
    BY <1>2, <2>1, <2>4 DEF Begin
  <2>5. CASE pc' = "sign"
    <3>1. /\ written' = w /\ field' = SignedLen(ipv4') /\ ipv4' = v4 /\ buffer' = n
          /\ HeaderLen + ContentLen(v4) <= n
      BY ONLY <1>2, <2>1, <2>2, <2>5 DEF Begin, HeaderLen, ContentLen, SignedLen, AddrLen,
         Marker, IntegrityLen, FingerprintLen
    <3> QED
      BY <2>1, <2>3, <2>5, <3>1
  <2> QED
    BY <1>2, <2>4, <2>5 DEF Begin
<1>3. CASE Sign
  <2>1. Bytes(0, IntegrityAt(ipv4)) \cup Bytes(IntegrityAt(ipv4), Marker + IntegrityLen)
          = Bytes(0, FingerprintAt(ipv4))
    OBVIOUS
  <2> QED
    BY <1>3, <2>1 DEF Sign
<1>4. CASE Sum
  <2>1. Bytes(0, FingerprintAt(ipv4)) \cup Bytes(FingerprintAt(ipv4), Marker + FingerprintLen)
          = Bytes(0, HeaderLen + ContentLen(ipv4))
    OBVIOUS
  <2> QED
    BY <1>4, <2>1 DEF Sum
<1>5. CASE Send
  BY <1>5 DEF Send
<1>6. CASE UNCHANGED stunVars
  BY <1>6 DEF stunVars, responseVars
<1> QED
  BY <1>1, <1>2, <1>3, <1>4, <1>5, <1>6 DEF StunNext, WriteStep

(* No response is begun at the start. *)
LEMMA ResponseInvInit == StunInit => ResponseInv
BY DEF StunInit, ResponseInv

(* Every byte of a response was written, and it fits its buffer.           *)
THEOREM ResponseIsWritten == StunSpec => []SentIsWritten
<1>1. ResponseInv => SentIsWritten
  BY DEF ResponseInv, SentIsWritten
<1> QED
  BY <1>1, ResponseInvInit, ResponseStep, PTL DEF StunSpec

(* Integrity and fingerprint cover the message before them, with the       *)
(* length field that their verifier will compute them with.                *)
THEOREM ResponseCoversPrefix == StunSpec => []CoversPrefix
<1>1. ResponseInv => CoversPrefix
  BY DEF ResponseInv, CoversPrefix, HeaderLen, Marker, Bytes, AddrLen, IntegrityLen,
         FingerprintLen, SignedLen, ContentLen, IntegrityAt, FingerprintAt
<1> QED
  BY <1>1, ResponseInvInit, ResponseStep, PTL DEF StunSpec

-----------------------------------------------------------------------------
(* Module MediaList. The invariant relates each list to the lines that     *)
(* were inserted so far: pairs come from lines, and a line's payload type  *)
(* is missing only if another line pushed it out.                          *)
Lines == /\ offered \in [Peer -> Seq(Rtpmap)]
         /\ done \in [Peer -> Nat]
         /\ \A p \in Peer : done[p] <= Len(offered[p]) /\ Len(offered[p]) <= MaxLines

(* The payload type of every line has a rate, and is named or pushed out. *)
LinesKept ==
  \A p \in Peer : \A i \in 1 .. done[p] :
    LET t == offered[p][i].id IN
    /\ rates[p][t] # None
    /\ (\E n \in Name : <<n, t>> \in names[p]) \/ PushedOut(p, t)

PacketInv ==
  packet # None =>
    /\ packet.from \in Peer /\ packet.payload \in PayloadType
    /\ done[packet.from] = Len(offered[packet.from])
    /\ packet.out = None => Dropped(packet.from, packet.payload, packet.is_rtcp)

ListInv == Lines /\ ListTypeOK /\ LastLinesWin /\ LinesKept /\ PacketInv

-----------------------------------------------------------------------------
(* Lists are empty before the first line. *)
LEMMA ListInvInit == ListInit => ListInv
<1> SUFFICES ASSUME ListInit PROVE ListInv
  OBVIOUS
<1>1. Lines
  <2>1. ASSUME NEW p \in Peer PROVE offered[p] \in Seq(Rtpmap) /\ Len(offered[p]) <= MaxLines
    <3>1. PICK n \in 0 .. MaxLines : offered[p] \in [1 .. n -> Rtpmap]
      BY DEF ListInit
    <3>2. n \in Nat /\ n <= MaxLines
      BY <3>1, MediaListAssumption
    <3> QED
      BY <3>1, <3>2
  <2> QED
    BY <2>1, MediaListAssumption DEF ListInit, Lines
<1>2. ListTypeOK
  BY MediaListAssumption DEF ListInit, ListTypeOK
<1>3. LastLinesWin
  <2> SUFFICES ASSUME NEW p \in Peer
               PROVE  names[p] = {<<offered[p][i].name, offered[p][i].id>> : i \in
                        {j \in 1 .. done[p] :
                           \A k \in j + 1 .. done[p] : ~Clash(offered[p][j], offered[p][k])}}
    BY DEF LastLinesWin
  <2>1. names[p] = {} /\ 1 .. done[p] = {}
    BY DEF ListInit
  <2> QED
    BY <2>1
<1>4. LinesKept
  BY DEF ListInit, LinesKept
<1> QED
  BY <1>1, <1>2, <1>3, <1>4 DEF ListInv, PacketInv, ListInit

(* What inserting line m at the end of p's list does. *)
LEMMA InsertOutcome ==
  ASSUME ListInv, NEW p \in Peer, Insert(p)
  PROVE  \E m \in Rtpmap, d \in Nat :
           /\ d = done[p] + 1 /\ d <= Len(offered[p]) /\ m = offered[p][d]
           /\ m.id \in PayloadType /\ m.name \in Name /\ m.rate \in ClockRate
           /\ done' = [done EXCEPT ![p] = d]
           /\ names' = [names EXCEPT ![p] = Inserted(names[p], m)]
           /\ rates' = [rates EXCEPT ![p] = [rates[p] EXCEPT ![m.id] = m.rate]]
           /\ offered' = offered /\ packet' = packet
<1>1. PICK d \in Nat : d = done[p] + 1 /\ d <= Len(offered[p]) /\ d >= 1
  BY DEF ListInv, Lines, Insert
<1>2. PICK m \in Rtpmap : m = offered[p][d]
  BY <1>1 DEF ListInv, Lines
<1>3. m.id \in PayloadType /\ m.name \in Name /\ m.rate \in ClockRate
  BY <1>2 DEF Rtpmap
<1>4. /\ done' = [done EXCEPT ![p] = d]
      /\ names' = [names EXCEPT ![p] = Inserted(names[p], m)]
      /\ rates' = [rates EXCEPT ![p] = [rates[p] EXCEPT ![m.id] = m.rate]]
      /\ offered' = offered /\ packet' = packet
  BY <1>1, <1>2 DEF Insert, ListInv, Lines, ListTypeOK
<1> QED
  BY <1>1, <1>2, <1>3, <1>4

(* A line puts its pair in, and pushes out the pairs that share a side     *)
(* with it.                                                                *)
LEMMA InsertStep ==
  ASSUME ListInv, NEW p \in Peer, Insert(p)
  PROVE  ListInv'
<1>1. PICK m \in Rtpmap, d \in Nat :
           /\ d = done[p] + 1 /\ d <= Len(offered[p]) /\ m = offered[p][d]
           /\ m.id \in PayloadType /\ m.name \in Name /\ m.rate \in ClockRate
           /\ done' = [done EXCEPT ![p] = d]
           /\ names' = [names EXCEPT ![p] = Inserted(names[p], m)]
           /\ rates' = [rates EXCEPT ![p] = [rates[p] EXCEPT ![m.id] = m.rate]]
           /\ offered' = offered /\ packet' = packet
  BY InsertOutcome
<1>2. Lines'
  BY <1>1 DEF ListInv, Lines
<1>3. ListTypeOK'
  <2>1. done' \in [Peer -> 0 .. MaxLines]
    <3>1. d \in 0 .. MaxLines
      BY <1>1, MediaListAssumption DEF ListInv, Lines
    <3> QED
      BY <1>1, <3>1 DEF ListInv, ListTypeOK
  <2>2. names' \in [Peer -> SUBSET (Name \X PayloadType)]
    <3>1. Inserted(names[p], m) \in SUBSET (Name \X PayloadType)
      BY <1>1 DEF ListInv, ListTypeOK, Inserted
    <3> QED
      BY <1>1, <3>1 DEF ListInv, ListTypeOK
  <2>3. rates' \in [Peer -> [PayloadType -> ClockRate \cup {None}]]
    BY <1>1 DEF ListInv, ListTypeOK
  <2>4. ASSUME NEW q \in Peer, NEW x \in names'[q], NEW y \in names'[q]
        PROVE  (x[1] = y[1]) = (x[2] = y[2])
    BY <1>1 DEF ListInv, ListTypeOK, Inserted
  <2>5. ASSUME NEW q \in Peer, NEW x \in names'[q] PROVE rates'[q][x[2]] # None
    <3>1. x \in Name \X PayloadType
      BY <2>2
    <3>2. m.rate # None
      BY <1>1, MediaListAssumption
    <3> QED
      BY <1>1, <3>1, <3>2 DEF ListInv, ListTypeOK, Inserted
  <2> QED
    BY <2>1, <2>2, <2>3, <2>4, <2>5 DEF ListTypeOK
<1>4. LastLinesWin'
  <2>1. ASSUME NEW q \in Peer, q # p
        PROVE  names'[q] = names[q] /\ done'[q] = done[q] /\ offered'[q] = offered[q]
    BY <1>1, <2>1 DEF ListInv, ListTypeOK, Lines
  <2> DEFINE Kept(k) == {<<offered[p][i].name, offered[p][i].id>> : i \in
                           {j \in 1 .. k : \A l \in j + 1 .. k :
                              ~Clash(offered[p][j], offered[p][l])}}
  <2>2. names[p] = Kept(done[p])
    BY DEF ListInv, LastLinesWin
  <2>3. Inserted(names[p], m) = Kept(d)
    <3>1. done[p] = d - 1 /\ d - 1 \in Nat
      BY <1>1 DEF ListInv, Lines
    <3>2. Kept(d) \subseteq Inserted(names[p], m)
      <4> SUFFICES ASSUME NEW i \in 1 .. d,
                          \A l \in i + 1 .. d : ~Clash(offered[p][i], offered[p][l])
                   PROVE  <<offered[p][i].name, offered[p][i].id>> \in Inserted(names[p], m)
        OBVIOUS
      <4>1. CASE i = d
        BY <1>1, <4>1 DEF Inserted
      <4>2. CASE i # d
        <5>1. i \in 1 .. d - 1 /\ \A l \in i + 1 .. d - 1 : ~Clash(offered[p][i], offered[p][l])
          BY <3>1, <4>2
        <5>2. <<offered[p][i].name, offered[p][i].id>> \in names[p]
          BY <2>2, <3>1, <5>1
        <5>3. ~Clash(offered[p][i], m)
          BY <1>1, <3>1, <4>2
        <5> QED
          BY <5>2, <5>3 DEF Inserted, Clash
      <4> QED
        BY <4>1, <4>2
    <3>3. Inserted(names[p], m) \subseteq Kept(d)
      <4> SUFFICES ASSUME NEW x \in Inserted(names[p], m) PROVE x \in Kept(d)
        OBVIOUS
      <4>1. CASE x = <<m.name, m.id>>
        <5>1. d \in 1 .. d /\ \A l \in d + 1 .. d : ~Clash(offered[p][d], offered[p][l])
          BY <3>1
        <5> QED
          BY <1>1, <4>1, <5>1
      <4>2. CASE x \in names[p] /\ x[1] # m.name /\ x[2] # m.id
        <5>1. PICK i \in 1 .. d - 1 :
                /\ x = <<offered[p][i].name, offered[p][i].id>>
                /\ \A l \in i + 1 .. d - 1 : ~Clash(offered[p][i], offered[p][l])
          BY <2>2, <3>1, <4>2
        <5>2. ~Clash(offered[p][i], offered[p][d])
          BY <1>1, <4>2, <5>1 DEF Clash
        <5>3. i \in 1 .. d /\ \A l \in i + 1 .. d : ~Clash(offered[p][i], offered[p][l])
          BY <3>1, <5>1, <5>2
        <5> QED
          BY <5>1, <5>3
      <4> QED
        BY <4>1, <4>2 DEF Inserted
    <3> QED
      BY <3>2, <3>3
  <2>4. names'[p] = Kept(d) /\ done'[p] = d
    BY <1>1, <2>3 DEF ListInv, ListTypeOK, Lines
  <2>5. ASSUME NEW q \in Peer
        PROVE  names'[q] = {<<offered'[q][i].name, offered'[q][i].id>> : i \in
                              {j \in 1 .. done'[q] : \A k \in j + 1 .. done'[q] :
                                 ~Clash(offered'[q][j], offered'[q][k])}}
    <3>1. CASE q = p
      BY <1>1, <2>4, <3>1
    <3>2. CASE q # p
      <4>1. names'[q] = names[q] /\ done'[q] = done[q] /\ offered'[q] = offered[q]
        BY <1>1, <3>2 DEF ListInv, ListTypeOK, Lines
      <4>2. names[q] = {<<offered[q][i].name, offered[q][i].id>> : i \in
                          {j \in 1 .. done[q] : \A k \in j + 1 .. done[q] :
                             ~Clash(offered[q][j], offered[q][k])}}
        BY DEF ListInv, LastLinesWin
      <4> QED
        BY <4>1, <4>2
    <3> QED
      BY <3>1, <3>2
  <2> QED
    BY <2>5 DEF LastLinesWin
<1>5. LinesKept'
  <2> SUFFICES ASSUME NEW q \in Peer, NEW i \in 1 .. done'[q], NEW t, t = offered'[q][i].id
               PROVE  /\ rates'[q][t] # None
                      /\ (\E n \in Name : <<n, t>> \in names'[q]) \/ PushedOut(q, t)'
    BY DEF LinesKept
  <2>1. CASE q # p
    <3>1. /\ names'[q] = names[q] /\ rates'[q] = rates[q] /\ done'[q] = done[q]
          /\ offered'[q] = offered[q]
      BY <1>1, <2>1 DEF ListInv, ListTypeOK, Lines
    <3>2. PushedOut(q, t)' <=> PushedOut(q, t)
      BY <3>1 DEF PushedOut
    <3> QED
      BY <3>1, <3>2 DEF ListInv, LinesKept
  <2>2. CASE q = p /\ t = m.id
    <3>1. rates'[q][t] = m.rate
      BY <1>1, <2>2 DEF ListInv, ListTypeOK
    <3>2. names'[q] = Inserted(names[p], m)
      BY <1>1, <2>2 DEF ListInv, ListTypeOK
    <3>3. <<m.name, t>> \in names'[q]
      BY <2>2, <3>2 DEF Inserted
    <3> QED
      BY <1>1, <3>1, <3>3, MediaListAssumption
  <2>3. CASE q = p /\ t # m.id
    <3>1. i \in 1 .. done[p] /\ done[p] \in Nat /\ t = offered[p][i].id /\ t \in PayloadType
      <4>1. i \in 1 .. d /\ i # d
        BY <1>1, <2>3 DEF ListInv, Lines
      <4>2. done[p] = d - 1 /\ d - 1 \in Nat
        BY <1>1 DEF ListInv, Lines
      <4>3. i \in 1 .. d - 1
        BY <4>1, <4>2
      <4>4. offered[p][i] \in Rtpmap
        BY <1>1, <4>1 DEF ListInv, Lines
      <4> QED
        BY <1>1, <2>3, <4>2, <4>3, <4>4 DEF Rtpmap
    <3>2. rates'[q][t] # None
      <4>1. rates'[q][t] = rates[p][t]
        BY <1>1, <2>3, <3>1 DEF ListInv, ListTypeOK
      <4>2. rates[p][t] # None
        BY <3>1 DEF ListInv, LinesKept
      <4> QED
        BY <4>1, <4>2
    <3>3. CASE PushedOut(p, t)
      <4>1. PICK j, k \in 1 .. done[p] :
              /\ j < k /\ offered[p][j].id = t /\ offered[p][k].id # t
              /\ offered[p][j].name = offered[p][k].name
        BY <3>3 DEF PushedOut
      <4>2. done'[p] = done[p] + 1
        BY <1>1 DEF ListInv, Lines
      <4>3. j \in 1 .. done'[p] /\ k \in 1 .. done'[p]
        BY <3>1, <4>1, <4>2
      <4>4. PushedOut(q, t)'
        BY <1>1, <2>3, <4>1, <4>3 DEF PushedOut
      <4> QED
        BY <3>2, <4>4
    <3>4. CASE \E n \in Name : <<n, t>> \in names[p]
      <4>1. PICK n \in Name : <<n, t>> \in names[p]
        BY <3>4
      <4>2. CASE n # m.name
        BY <1>1, <2>3, <3>2, <4>1, <4>2 DEF ListInv, ListTypeOK, Inserted
      <4>3. CASE n = m.name
        <5>1. PICK j \in 1 .. done[p] : offered[p][j].name = n /\ offered[p][j].id = t
          BY <4>1 DEF ListInv, LastLinesWin
        <5>2. done'[p] = d /\ j < d /\ j \in 1 .. d /\ d \in 1 .. d
          BY <1>1, <3>1, <5>1 DEF ListInv, Lines
        <5>3. PushedOut(q, t)'
          BY <1>1, <2>3, <4>3, <5>1, <5>2 DEF PushedOut
        <5> QED
          BY <3>2, <5>3
      <4> QED
        BY <4>2, <4>3
    <3> QED
      BY <3>1, <3>3, <3>4 DEF ListInv, LinesKept
  <2> QED
    BY <2>1, <2>2, <2>3
<1>6. PacketInv'
  <2> SUFFICES ASSUME packet # None
               PROVE  /\ packet.from \in Peer /\ packet.payload \in PayloadType
                      /\ done'[packet.from] = Len(offered[packet.from])
                      /\ packet.out = None =>
                           Dropped(packet.from, packet.payload, packet.is_rtcp)'
    BY <1>1 DEF PacketInv
  <2>0. PICK r : r = packet.is_rtcp
    OBVIOUS
  <2>1. PICK f \in Peer, t \in PayloadType :
          /\ f = packet.from /\ t = packet.payload
          /\ done[f] = Len(offered[f]) /\ (packet.out = None => Dropped(f, t, r))
    BY <2>0 DEF ListInv, PacketInv
  <2>2. f # p
    BY <1>1, <2>1 DEF ListInv, Lines
  <2>3. names'[f] = names[f] /\ rates'[f] = rates[f] /\ done'[f] = done[f]
    BY <1>1, <2>2 DEF ListInv, ListTypeOK, Lines
  <2>4. Dropped(f, t, r)' = Dropped(f, t, r)
    BY <2>3 DEF Dropped, Codec
  <2> QED
    BY <1>1, <2>0, <2>1, <2>3, <2>4 DEF Dropped, Codec
<1> QED
  BY <1>2, <1>3, <1>4, <1>5, <1>6 DEF ListInv

(* The invariant is about the lists alone. *)
LEMMA SameLists ==
  ASSUME ListInv, UNCHANGED <<offered, done, names, rates>>
  PROVE  (Lines /\ ListTypeOK /\ LastLinesWin /\ LinesKept)'
<1>1. Lines' /\ ListTypeOK'
  BY DEF ListInv, Lines, ListTypeOK
<1>2. LastLinesWin'
  BY DEF ListInv, LastLinesWin, Clash
<1>3. ASSUME NEW p \in Peer, NEW t PROVE PushedOut(p, t)' <=> PushedOut(p, t)
  BY DEF PushedOut
<1>4. LinesKept'
  BY <1>3 DEF ListInv, LinesKept
<1> QED
  BY <1>1, <1>2, <1>4

(* Forwarding reads the lists and changes none. *)
LEMMA ForwardStep ==
  ASSUME ListInv, NEW p \in Peer, NEW q \in Peer, NEW t \in PayloadType,
         NEW is_rtcp \in BOOLEAN, Forward(p, q, t, is_rtcp)
  PROVE  ListInv'
<1>1. UNCHANGED <<offered, done, names, rates>>
  BY DEF Forward, listVars
<1>2. PacketInv'
  <2>1. PICK out \in IF Dropped(p, t, is_rtcp) THEN {None}
                     ELSE IF Prepared(p, q, t, is_rtcp) = {} THEN {t}
                     ELSE Prepared(p, q, t, is_rtcp) :
          packet' = [from |-> p, to |-> q, is_rtcp |-> is_rtcp, payload |-> t, out |-> out]
    BY DEF Forward
  <2>2. out = None => Dropped(p, t, is_rtcp)
    BY <2>1, MediaListAssumption DEF Prepared
  <2>3. Dropped(p, t, is_rtcp)' = Dropped(p, t, is_rtcp)
    BY <1>1 DEF Dropped, Codec
  <2>4. done[p] = Len(offered[p])
    BY DEF Forward
  <2> QED
    BY <1>1, <2>1, <2>2, <2>3, <2>4 DEF PacketInv, Dropped, Codec
<1> QED
  BY <1>1, <1>2, SameLists DEF ListInv

(* So every step keeps the lists in order. *)
LEMMA ListStep == ListInv /\ [ListNext]_mediaListVars => ListInv'
<1> SUFFICES ASSUME ListInv, [ListNext]_mediaListVars PROVE ListInv'
  OBVIOUS
<1>1. CASE UNCHANGED mediaListVars
  <2>1. UNCHANGED <<offered, done, names, rates, packet>>
    BY <1>1 DEF mediaListVars, listVars
  <2>2. PacketInv'
    BY <2>1 DEF ListInv, PacketInv, Dropped, Codec
  <2> QED
    BY <2>1, <2>2, SameLists DEF ListInv
<1> QED
  BY <1>1, InsertStep, ForwardStep DEF ListNext

-----------------------------------------------------------------------------
(* The list of every peer stays a bijection with a rate for every name.    *)
THEOREM ListsAreBijections == ListSpec => []ListTypeOK
<1>1. ListInv => ListTypeOK
  BY DEF ListInv
<1> QED
  BY <1>1, ListInvInit, ListStep, PTL DEF ListSpec

(* The list is what the last lines of each name and payload type make it.  *)
THEOREM LastLinesAreKept == ListSpec => []LastLinesWin
<1>1. ListInv => LastLinesWin
  BY DEF ListInv
<1> QED
  BY <1>1, ListInvInit, ListStep, PTL DEF ListSpec

(* An answered payload type is dropped only if it is the ignored one or if *)
(* its codec was offered again under another payload type.                 *)
THEOREM AnsweredTypesAreForwarded == ListSpec => []AnsweredIsForwarded
<1>1. ListInv => AnsweredIsForwarded
  <2> SUFFICES ASSUME ListInv, packet # None, packet.payload \in Answered(packet.from),
                      packet.out = None, packet.payload # Ignored
               PROVE  PushedOut(packet.from, packet.payload)
    BY DEF AnsweredIsForwarded
  <2>1. PICK p \in Peer : p = packet.from
    BY DEF ListInv, PacketInv
  <2>2. PICK t \in PayloadType : t = packet.payload
    BY DEF ListInv, PacketInv
  <2>3. Codec(p, t, packet.is_rtcp) = {} /\ ~packet.is_rtcp /\ done[p] = Len(offered[p])
    BY <2>1, <2>2 DEF ListInv, PacketInv, Dropped
  <2>4. PICK i \in DOMAIN offered[p] : offered[p][i].id = t
    BY <2>1, <2>2 DEF Answered
  <2>5. i \in 1 .. done[p]
    BY <2>3, <2>4 DEF ListInv, Lines
  <2> QED
    BY <2>1, <2>2, <2>3, <2>4, <2>5 DEF Codec, ListInv, LinesKept
<1> QED
  BY <1>1, ListInvInit, ListStep, PTL DEF ListSpec

-----------------------------------------------------------------------------
(* Module Renumber. *)
(* What Replace does to the runtime of a stream, and to the others. *)
LEMMA ReplaceOutcome ==
  ASSUME RtpTypeOK, NEW r \in Rate, NEW n \in Number, Replace(r, n)
  PROVE  /\ client' = [client EXCEPT ![r] = n]
         /\ client' \in [Rate -> Number]
         /\ server' \in [Rate -> Number]
         /\ shown' \in [Rate -> Nat]
         /\ server'[r] = Wrap(server[r] + Advance(r, n))
         /\ shown'[r] = shown[r] + Advance(r, n)
         /\ Advance(r, n) \in Number
         /\ \A q \in Rate \ {r} :
              client'[q] = client[q] /\ server'[q] = server[q] /\ shown'[q] = shown[q]
<1>1. Advance(r, n) \in Number
  BY RenumberAssumption DEF RtpTypeOK, Advance, SatSub, Number
<1>2. Wrap(server[r] + Advance(r, n)) \in Number
  BY <1>1, RenumberAssumption DEF RtpTypeOK, Wrap, Number
<1>3. shown[r] + Advance(r, n) \in Nat
  BY <1>1, RenumberAssumption DEF RtpTypeOK, Number
<1> QED
  BY <1>1, <1>2, <1>3 DEF RtpTypeOK, Replace

(* Going on from a wrapped sum wraps to where the unwrapped one does. *)
LEMMA WrapAgain ==
  ASSUME NEW x \in Number, NEW o \in Number, NEW n \in Number, n >= x
  PROVE  Wrap(Wrap(x + o) + (n - x)) = Wrap(n + o)
BY RenumberAssumption DEF Wrap, Number

(* The initial states satisfy the invariant. *)
LEMMA RtpInitInv == RtpInit => RtpInv
<1> SUFFICES ASSUME RtpInit PROVE RtpInv
  OBVIOUS
<1>1. RtpTypeOK
  <2>1. First \subseteq Number /\ 0 \in Number
    BY RenumberAssumption DEF Number
  <2> QED  BY <2>1 DEF RtpInit, RtpTypeOK
<1>2. \A s \in Stream : Follows(s)
  BY RenumberAssumption DEF RtpInit, Follows
<1>3. OffsetKept /\ NeverAhead
  BY RenumberAssumption DEF RtpInit, OffsetKept, NeverAhead
<1> QED
  BY <1>1, <1>2, <1>3 DEF RtpInv

(* The next packet of a stream keeps the invariant. *)
LEMMA PacketStep ==
  ASSUME RtpInv, NEW s \in Stream, NEW d \in 0 .. MaxJump, Packet(s, d)
  PROVE  RtpInv'
<1> DEFINE r == RateOf[s]
<1> USE RenumberAssumption
<1>1. PICK n \in Number : n = Wrap(last[s] + d)
  BY DEF RtpInv, RtpTypeOK, Number, Wrap
<1>2. /\ last' = [last EXCEPT ![s] = n]
      /\ travelled' = [travelled EXCEPT ![s] = IF stage[s] = "new" THEN 0 ELSE @ + d]
      /\ Replace(r, n)
      /\ shift' = [shift EXCEPT ![s] =
                      IF stage[s] = "new" THEN Back(server'[r], n) ELSE @]
      /\ stage' = [stage EXCEPT ![s] = StageAfter(s, n)]
  BY <1>1 DEF Packet, RuntimeOf
<1>3. r \in Rate
  OBVIOUS
<1>4. RtpTypeOK
  BY DEF RtpInv
<1>5. /\ client' = [client EXCEPT ![r] = n]
      /\ client' \in [Rate -> Number]
      /\ server' \in [Rate -> Number]
      /\ shown' \in [Rate -> Nat]
      /\ server'[r] = Wrap(server[r] + Advance(r, n))
      /\ shown'[r] = shown[r] + Advance(r, n)
      /\ Advance(r, n) \in Number
      /\ \A q \in Rate \ {r} :
           client'[q] = client[q] /\ server'[q] = server[q] /\ shown'[q] = shown[q]
  BY <1>1, <1>2, <1>3, <1>4, ReplaceOutcome
<1>6. stage'[s] # "new"
  BY <1>2, <1>4 DEF RtpTypeOK, StageAfter
<1>7. RtpTypeOK'
  <2>1. last' \in [Stream -> Number]
    BY <1>2, <1>4 DEF RtpTypeOK
  <2>2. travelled' \in [Stream -> Nat]
    BY <1>2, <1>4 DEF RtpTypeOK
  <2>3. shift' \in [Stream -> Number]
    <3>1. Back(server'[r], n) \in Number
      BY <1>3, <1>5 DEF Back, Number
    <3> QED  BY <3>1, <1>2, <1>4 DEF RtpTypeOK
  <2>4. stage' \in [Stream -> {"new", "clean", "wrapped", "mixed"}]
    BY <1>2, <1>4 DEF RtpTypeOK, StageAfter
  <2> QED  BY <1>5, <2>1, <2>2, <2>3, <2>4 DEF RtpTypeOK
<1>8. ASSUME NEW t \in Stream, Alone(t), t # s
      PROVE  /\ RateOf[t] \in Rate \ {r}
             /\ last'[t] = last[t] /\ travelled'[t] = travelled[t]
             /\ shift'[t] = shift[t] /\ stage'[t] = stage[t]
             /\ client'[RateOf[t]] = client[RateOf[t]]
             /\ server'[RateOf[t]] = server[RateOf[t]]
             /\ shown'[RateOf[t]] = shown[RateOf[t]]
  <2>1. RateOf[t] \in Rate \ {r}
    BY <1>8 DEF Alone
  <2> QED  BY <2>1, <1>2, <1>4, <1>5, <1>8 DEF RtpTypeOK
<1>9. last'[s] = n /\ client'[r] = n
  BY <1>2, <1>4, <1>5, <1>3 DEF RtpTypeOK
<1>10. ASSUME NEW t \in Stream, Alone(t) PROVE Follows(t)'
  <2>1. CASE t = s
    <3>1. stage'[s] = "clean" => n # 0
      BY <1>2, <1>4 DEF RtpTypeOK, StageAfter
    <3> QED  BY <2>1, <3>1, <1>6, <1>9 DEF Follows
  <2>2. CASE t # s
    <3>1. Follows(t)
      BY <1>10 DEF RtpInv
    <3> QED  BY <2>2, <3>1, <1>8, <1>10 DEF Follows
  <2> QED  BY <2>1, <2>2
<1>11. ASSUME Alone(s), stage'[s] = "clean"
       PROVE  server'[r] = Wrap(n + shift'[s])
  <2>1. CASE stage[s] = "new"
    <3>1. shift'[s] = Back(server'[r], n)
      BY <2>1, <1>2, <1>4 DEF RtpTypeOK
    <3>2. server'[r] \in Number
      BY <1>3, <1>5
    <3> QED  BY <3>1, <3>2 DEF Back, Wrap, Number
  <2>2. CASE stage[s] # "new"
    <3>1. stage[s] = "clean" /\ n >= last[s] /\ shift'[s] = shift[s]
      BY <2>2, <1>11, <1>2, <1>4 DEF RtpTypeOK, StageAfter
    <3>2. client[r] = last[s] /\ last[s] # 0 /\ server[r] = Wrap(last[s] + shift[s])
      BY <3>1, <1>11 DEF RtpInv, Follows, OffsetKept
    <3>3. Advance(r, n) = n - last[s]
      BY <3>1, <3>2, <1>4 DEF Advance, SatSub, RtpTypeOK, Number
    <3>4. last[s] \in Number /\ shift[s] \in Number
      BY <1>4 DEF RtpTypeOK
    <3>5. server'[r] = Wrap(Wrap(last[s] + shift[s]) + (n - last[s]))
      BY <3>2, <3>3, <1>5
    <3> QED  BY <3>1, <3>4, <3>5, WrapAgain
  <2> QED  BY <2>1, <2>2
<1>12. OffsetKept'
  <2> SUFFICES ASSUME NEW t \in Stream, Alone(t), stage'[t] = "clean"
               PROVE  server'[RateOf[t]] = Wrap(last'[t] + shift'[t])
    BY DEF OffsetKept, Alone, Wrap
  <2>1. CASE t = s
    BY <2>1, <1>9, <1>11
  <2>2. CASE t # s
    <3>1. /\ server'[RateOf[t]] = server[RateOf[t]] /\ last'[t] = last[t]
          /\ shift'[t] = shift[t] /\ stage[t] = "clean"
      BY <2>2, <1>8
    <3>2. server[RateOf[t]] = Wrap(last[t] + shift[t])
      BY <3>1 DEF RtpInv, OffsetKept
    <3> QED  BY <3>1, <3>2
  <2> QED  BY <2>1, <2>2
<1>13. ASSUME Alone(s), stage'[s] # "mixed" PROVE shown'[r] <= travelled'[s]
  <2>1. last[s] \in Number /\ travelled[s] \in Nat /\ shown[r] \in Nat /\ client[r] \in Number
    BY <1>3, <1>4 DEF RtpTypeOK
  <2>2. CASE stage[s] = "new"
    <3>1. client[r] = 0 /\ shown[r] = 0
      BY <2>2, <1>13 DEF RtpInv, Follows
    <3>2. travelled'[s] = 0
      BY <2>2, <1>2, <1>4 DEF RtpTypeOK
    <3> QED  BY <3>1, <3>2, <1>5 DEF Advance
  <2>3. CASE stage[s] # "new"
    <3>1. stage[s] \in {"clean", "wrapped"} /\ travelled'[s] = travelled[s] + d
      BY <2>3, <1>13, <1>2, <1>4 DEF RtpTypeOK, StageAfter
    <3>2. client[r] = last[s] /\ shown[r] <= travelled[s]
      BY <3>1, <1>13 DEF RtpInv, Follows, NeverAhead
    <3>3. Advance(r, n) <= d
      BY <3>2, <2>1, <1>1 DEF Advance, SatSub, Wrap, Number
    <3>4. shown'[r] = shown[r] + Advance(r, n) /\ Advance(r, n) \in Nat
      BY <1>5 DEF Number
    <3>5. shown[r] + Advance(r, n) <= travelled[s] + d
      BY <3>2, <3>3, <3>4, <2>1
    <3> QED  BY <3>1, <3>4, <3>5
  <2> QED  BY <2>2, <2>3
<1>14. NeverAhead'
  <2> SUFFICES ASSUME NEW t \in Stream, Alone(t), stage'[t] # "mixed"
               PROVE  shown'[RateOf[t]] <= travelled'[t]
    BY DEF NeverAhead, Alone
  <2>1. CASE t = s
    BY <2>1, <1>13
  <2>2. CASE t # s
    BY <2>2, <1>8 DEF RtpInv, NeverAhead
  <2> QED  BY <2>1, <2>2
<1> QED
  BY <1>7, <1>10, <1>12, <1>14 DEF RtpInv, Alone

(* A late packet keeps the invariant: it disturbs no other stream, unless  *)
(* that stream shares its clock rate.                                      *)
LEMMA LateStep ==
  ASSUME RtpInv, NEW s \in Stream, NEW d \in 1 .. MaxJump, Late(s, d)
  PROVE  RtpInv'
<1> DEFINE r == RateOf[s]
<1> USE RenumberAssumption
<1>1. PICK n \in Number : n = Back(last[s], d)
  BY DEF RtpInv, RtpTypeOK, Number, Back
<1>2. /\ Replace(r, n)
      /\ stage' = [stage EXCEPT ![s] = "mixed"]
      /\ UNCHANGED <<last, travelled, shift>>
  BY <1>1 DEF Late, RuntimeOf
<1>3. RtpTypeOK /\ r \in Rate
  BY DEF RtpInv
<1>4. /\ client' \in [Rate -> Number]
      /\ server' \in [Rate -> Number]
      /\ shown' \in [Rate -> Nat]
      /\ \A q \in Rate \ {r} :
           client'[q] = client[q] /\ server'[q] = server[q] /\ shown'[q] = shown[q]
  BY <1>1, <1>2, <1>3, ReplaceOutcome
<1>5. RtpTypeOK'
  <2>1. stage' \in [Stream -> {"new", "clean", "wrapped", "mixed"}]
    BY <1>2, <1>3 DEF RtpTypeOK
  <2> QED  BY <1>2, <1>3, <1>4, <2>1 DEF RtpTypeOK
<1>6. stage'[s] = "mixed"
  BY <1>2, <1>3 DEF RtpTypeOK
<1>7. ASSUME NEW t \in Stream, Alone(t), t # s
      PROVE  /\ RateOf[t] \in Rate \ {r}
             /\ last'[t] = last[t] /\ travelled'[t] = travelled[t]
             /\ shift'[t] = shift[t] /\ stage'[t] = stage[t]
             /\ client'[RateOf[t]] = client[RateOf[t]]
             /\ server'[RateOf[t]] = server[RateOf[t]]
             /\ shown'[RateOf[t]] = shown[RateOf[t]]
  <2>1. RateOf[t] \in Rate \ {r}
    BY <1>7 DEF Alone
  <2> QED  BY <2>1, <1>2, <1>3, <1>4, <1>7 DEF RtpTypeOK
<1>8. ASSUME NEW t \in Stream, Alone(t) PROVE Follows(t)'
  <2>1. CASE t = s
    BY <2>1, <1>6 DEF Follows
  <2>2. CASE t # s
    <3>1. Follows(t)
      BY <1>8 DEF RtpInv
    <3> QED  BY <2>2, <3>1, <1>7, <1>8 DEF Follows
  <2> QED  BY <2>1, <2>2
<1>9. OffsetKept'
  <2> SUFFICES ASSUME NEW t \in Stream, Alone(t), stage'[t] = "clean"
               PROVE  server'[RateOf[t]] = Wrap(last'[t] + shift'[t])
    BY DEF OffsetKept, Alone, Wrap
  <2>1. /\ server'[RateOf[t]] = server[RateOf[t]] /\ last'[t] = last[t]
        /\ shift'[t] = shift[t] /\ stage[t] = "clean"
    BY <1>6, <1>7
  <2>2. server[RateOf[t]] = Wrap(last[t] + shift[t])
    BY <2>1 DEF RtpInv, OffsetKept
  <2> QED  BY <2>1, <2>2
<1>10. NeverAhead'
  <2> SUFFICES ASSUME NEW t \in Stream, Alone(t), stage'[t] # "mixed"
               PROVE  shown'[RateOf[t]] <= travelled'[t]
    BY DEF NeverAhead, Alone
  <2>1. t # s
    BY <1>6
  <2> QED  BY <2>1, <1>7 DEF RtpInv, NeverAhead
<1> QED
  BY <1>5, <1>8, <1>9, <1>10 DEF RtpInv, Alone

(* The invariant holds throughout. *)
LEMMA RtpInvariant == RtpSpec => []RtpInv
<1>1. RtpInv /\ [RtpNext]_rtpVars => RtpInv'
  <2> SUFFICES ASSUME RtpInv, [RtpNext]_rtpVars PROVE RtpInv'
    OBVIOUS
  <2>1. ASSUME NEW s \in Stream, NEW d \in 0 .. MaxJump, Packet(s, d) PROVE RtpInv'
    BY <2>1, PacketStep
  <2>2. ASSUME NEW s \in Stream, NEW d \in 0 .. MaxJump, d > 0, Late(s, d) PROVE RtpInv'
    <3>1. d \in 1 .. MaxJump
      BY <2>2, RenumberAssumption
    <3> QED  BY <2>2, <3>1, LateStep
  <2>3. CASE UNCHANGED rtpVars
    BY <2>3 DEF rtpVars, RtpInv, RtpTypeOK, Follows, Alone, OffsetKept, NeverAhead
  <2> QED
    BY <2>1, <2>2, <2>3 DEF RtpNext
<1> QED
  BY <1>1, RtpInitInv, PTL DEF RtpSpec

(* Type correctness of the runtimes, for every width. *)
THEOREM NumbersKeepTheirWidth == RtpSpec => []RtpTypeOK
BY RtpInvariant, PTL DEF RtpInv

(* rtc_actor.rs:110-133 moves a stream that arrives in order, does not wrap *)
(* around and has its clock rate to itself by one and the same distance.   *)
THEOREM OrderedStreamKeepsOffset == RtpSpec => []OffsetKept
BY RtpInvariant, PTL DEF RtpInv

(* The saturating differences never advance the server's numbers further   *)
(* than an ordered stream has advanced, wrap around and losses included.   *)
THEOREM ServerNeverAhead == RtpSpec => []NeverAhead
BY RtpInvariant, PTL DEF RtpInv

=============================================================================
