--------------------------------- MODULE Stun ---------------------------------
(***************************************************************************)
(* What a datagram is taken for (src/src/server/udp.rs:345-359), how the   *)
(* user names of a STUN binding request are found, and how the response is *)
(* laid out in its buffer (src/src/stun/mod.rs, src/src/server/udp.rs:     *)
(* 260-291).                                                               *)
(*                                                                         *)
(* Positions and lengths are those of the code; of the bytes only the      *)
(* first one and the length fields have values. The scan reads every       *)
(* attribute once, so the type and the length of an attribute are chosen   *)
(* when they are read. Datagrams are not empty.                            *)
(***************************************************************************)
EXTENDS Integers

CONSTANTS
  Sizes,      \* lengths of datagrams
  FirstBytes, \* first bytes of datagrams
  Lengths,    \* values of the length field of the header
  Payloads,   \* values of the length field of an attribute
  Buffers     \* sizes of the buffer a response is written to (1200 in UdpSend)

ASSUME StunAssumption ==
  /\ Sizes \subseteq Nat \ {0}
  /\ FirstBytes \subseteq Nat
  /\ Lengths \subseteq Nat
  /\ Payloads \subseteq Nat
  /\ Buffers \subseteq Nat

VARIABLES
  pc,      \* "recv", "scan", the class of the datagram, or the stage of its response
  size,    \* bytes of the datagram
  first,   \* its first byte
  length,  \* the length field of its header
  offset,  \* where the next attribute starts
  reach,   \* how many bytes from the start have been looked at
  refused, \* where the attribute (or its header) that ended the scan would end, or 0
  ipv4,    \* the family of the address in the response
  buffer,  \* the size of its buffer
  written, \* the bytes of the buffer that are initialised
  field,   \* the length field of its header
  signed,  \* the bytes and the length field that the integrity attribute covers
  summed,  \* the same of the fingerprint
  sent     \* bytes sent

requestVars  == <<size, first, length, offset, reach, refused>>
responseVars == <<ipv4, buffer, written, field, signed, summed, sent>>
stunVars     == <<pc, requestVars, responseVars>>

HeaderLen  == 20
Marker     == 4
Bytes(from, n) == from .. from + n - 1
Nothing    == [bytes |-> {}, field |-> 0]

StunInit ==
  /\ pc = "recv" /\ size \in Sizes /\ first \in FirstBytes
  /\ length = 0 /\ offset = 0 /\ reach = 0 /\ refused = 0
  /\ ipv4 = TRUE /\ buffer = 0 /\ written = {} /\ field = 0
  /\ signed = Nothing /\ summed = Nothing /\ sent = 0

-----------------------------------------------------------------------------
(***************************************************************************)
(* The datagram.                                                           *)
(***************************************************************************)

(* RtpHeader::is_rtp_header *)
IsRtpHeader == size > 12 /\ first \div 64 = 2

(* Wrong on purpose, for mutation: the last content type is left out. *)
IsDtlsShort == first >= 20 /\ first < 64

(* is_dtls *)
IsDtls == first >= 20 /\ first <= 64

(* The class of a datagram that is not a binding request of some user. *)
Other == IF IsDtls THEN "dtls" ELSE "unknown"

(* Rounds up to STUN_ALIGNMENT. *)
Padded(n) == ((n + 3) \div 4) * 4

(* Wrong on purpose, for mutation: the datagram's size is not compared. *)
FitsAny(n) == n >= 4

(* Line 32. *)
Fits(n) == n >= 4 /\ HeaderLen + n <= size

(* The header of a datagram with length field n; ok stands for the second  *)
(* byte of the type and the cookie. The type is 1, so the first byte is 0. *)
Receive(n, ok) ==
  /\ pc = "recv"
  /\ IF IsRtpHeader
       THEN pc' = "rtc" /\ UNCHANGED requestVars
       ELSE IF size >= HeaderLen /\ first = 0 /\ Fits(n) /\ ok
       THEN /\ pc' = "scan"
            /\ length' = n /\ offset' = HeaderLen /\ reach' = HeaderLen
            /\ UNCHANGED <<size, first, refused>>
       ELSE pc' = Other /\ UNCHANGED requestVars
  /\ UNCHANGED responseVars

(* Wrong on purpose, for mutation: room for an integrity attribute is kept. *)
TooLongBefore(end) == end + 24 > length

(* Line 49. *)
TooLong(end) == end > length

(* Lines 47 and 71. *)
Skipped(n) == offset + 4 + Padded(n)

(* An attribute with n bytes of payload; ok stands for the colon, the      *)
(* lengths and the encoding of the two user names.                         *)
Attribute(n, user, ok) ==
  /\ pc = "scan" /\ offset < length - 4
  /\ IF TooLong(offset + 4 + Padded(n))
       THEN /\ pc' = Other /\ refused' = offset + 4 + Padded(n)
            /\ reach' = offset + 4
            /\ UNCHANGED offset
       ELSE IF user
       THEN /\ pc' = IF ok THEN "stun" ELSE Other
            /\ reach' = offset + 4 + n
            /\ offset' = offset + 4
            /\ UNCHANGED refused
       ELSE /\ offset' = Skipped(n)
            /\ reach' = offset + 4
            /\ UNCHANGED <<pc, refused>>
  /\ UNCHANGED <<size, first, length, responseVars>>

(* The loop ends without a user name. *)
EndScan ==
  /\ pc = "scan" /\ offset >= length - 4
  /\ pc' = Other /\ refused' = offset + 4
  /\ UNCHANGED <<size, first, length, offset, reach, responseVars>>

-----------------------------------------------------------------------------
(***************************************************************************)
(* The response: header, address, integrity, fingerprint.                  *)
(***************************************************************************)

AddrLen(v4)       == IF v4 THEN 8 ELSE 20
IntegrityLen      == 20
FingerprintLen    == 4

(* content_len_integrity *)
SignedLen(v4)     == Marker * 2 + AddrLen(v4) + IntegrityLen

(* content_len *)
ContentLen(v4)    == SignedLen(v4) + Marker + FingerprintLen

(* Where the attributes start: split_at_mut. *)
IntegrityAt(v4)   == HeaderLen + Marker + AddrLen(v4)
FingerprintAt(v4) == IntegrityAt(v4) + Marker + IntegrityLen

(* Wrong on purpose, for mutation: a v6 address as long as a v4 one. *)
AddressBytesV4(v4) == Bytes(HeaderLen, 12)

(* Lines 111-134: the marker, 0 and the family, the port, the address. *)
AddressBytes(v4) ==
  Bytes(HeaderLen, 4) \cup Bytes(HeaderLen + 4, 2) \cup Bytes(HeaderLen + 6, 2)
    \cup Bytes(HeaderLen + 8, IF v4 THEN 4 ELSE 16)

(* Lines 88-134, in a fresh buffer whose bytes are not initialised. *)
Begin(v4, n) ==
  /\ pc = "stun"
  /\ ipv4' = v4 /\ buffer' = n
  /\ IF HeaderLen + ContentLen(v4) > n
       THEN pc' = "failed" /\ UNCHANGED <<written, field>>
       ELSE /\ pc' = "sign" /\ field' = SignedLen(v4)
            /\ written' = Bytes(0, HeaderLen) \cup AddressBytes(v4)
  /\ UNCHANGED <<requestVars, signed, summed, sent>>

(* Lines 136-151. *)
Sign ==
  /\ pc = "sign" /\ pc' = "sum"
  /\ signed' = [bytes |-> Bytes(0, IntegrityAt(ipv4)), field |-> field]
  /\ written' = written \cup Bytes(IntegrityAt(ipv4), Marker + IntegrityLen)
  /\ UNCHANGED <<requestVars, ipv4, buffer, field, summed, sent>>

(* Wrong on purpose, for mutation: the length is set after the checksum. *)
SumEarly ==
  /\ pc = "sum" /\ pc' = "send"
  /\ field' = ContentLen(ipv4)
  /\ summed' = [bytes |-> Bytes(0, FingerprintAt(ipv4)), field |-> field]
  /\ written' = written \cup Bytes(FingerprintAt(ipv4), Marker + FingerprintLen)
  /\ UNCHANGED <<requestVars, ipv4, buffer, signed, sent>>

(* Lines 153-169. *)
Sum ==
  /\ pc = "sum" /\ pc' = "send"
  /\ field' = ContentLen(ipv4)
  /\ summed' = [bytes |-> Bytes(0, FingerprintAt(ipv4)), field |-> field']
  /\ written' = written \cup Bytes(FingerprintAt(ipv4), Marker + FingerprintLen)
  /\ UNCHANGED <<requestVars, ipv4, buffer, signed, sent>>

(* UdpSend truncates the buffer to the returned length and sends it. *)
Send ==
  /\ pc = "send" /\ pc' = "sent"
  /\ sent' = HeaderLen + ContentLen(ipv4)
  /\ UNCHANGED <<requestVars, ipv4, buffer, written, field, signed, summed>>

ParseStep ==
  \/ \E n \in Lengths, ok \in BOOLEAN : Receive(n, ok)
  \/ \E n \in Payloads, user, ok \in BOOLEAN : Attribute(n, user, ok)
  \/ EndScan

WriteStep ==
  \/ \E v4 \in BOOLEAN, n \in Buffers : Begin(v4, n)
  \/ Sign
  \/ Sum
  \/ Send

StunNext == ParseStep \/ WriteStep

StunSpec == StunInit /\ [][StunNext]_stunVars

-----------------------------------------------------------------------------
(***************************************************************************)
(* Properties.                                                             *)
(***************************************************************************)

(* Every byte the scan indexes is a byte of the datagram, whatever lengths *)
(* its header and attributes claim: no slice of parse_stun_binding_request *)
(* is out of range.                                                        *)
ReadsInside == reach <= size

(* The loop compares positions, which count the header, with the length    *)
(* field, which does not. So it stops early, but only near the end: what   *)
(* it gives up ends within the last 20 bytes of the message. A user name   *)
(* followed by an integrity attribute (24 bytes) is always found.          *)
OnlyTheTailIsLost == refused # 0 => refused + 20 >= HeaderLen + length

(* The three tests agree on no datagram: one that starts like a DTLS       *)
(* record is given to DTLS whatever the tests before it find, and no other *)
(* is.                                                                     *)
DtlsGetsThrough ==
  pc \notin {"recv", "scan"} => (pc = "dtls") = (first \in 20 .. 64)

(* A response is sent only when every byte of it has been written (the     *)
(* buffer starts uninitialised, udp.rs:261-262) and lies in the buffer.    *)
SentIsWritten ==
  pc = "sent" => /\ written = Bytes(0, sent)
                 /\ sent <= buffer

(* The integrity and the fingerprint are computed over all that is before  *)
(* them, all of it written, while the length field counts the message up   *)
(* to their own end; the field sent is the last one.                       *)
CoversPrefix ==
  pc = "sent" =>
    /\ signed.bytes = Bytes(0, HeaderLen + signed.field - (Marker + IntegrityLen))
    /\ summed.bytes = Bytes(0, HeaderLen + summed.field - (Marker + FingerprintLen))
    /\ signed.bytes \subseteq summed.bytes /\ summed.bytes \subseteq written
    /\ summed.field = field /\ sent = HeaderLen + field

(* The loop ends for every datagram: each turn, that of an empty attribute *)
(* included, moves on by at least the 4 bytes of an attribute header and   *)
(* stays within the length field. No attribute is read twice.              *)
ScanAdvances ==
  [][pc = "scan" /\ pc' = "scan" => offset' >= offset + 4 /\ offset' <= length]_stunVars

=============================================================================
