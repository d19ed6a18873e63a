---------------------------- MODULE UdpRecv_proofs ----------------------------
(***************************************************************************)
(* Proofs about module UdpRecv, for any number of offers and users, any    *)
(* latency up to the age limit and any capacity. Orderly says which        *)
(* messages can be on their way; Kept that a registration whose session    *)
(* message was handled left a session at most Latency older than itself;   *)
(* Paired that, in a mailbox that never overflows, a media message follows *)
(* its session message directly.                                           *)
(***************************************************************************)
EXTENDS UdpRecv, TLAPS

Box == 1 .. Len(mailbox)

(* An offer waits for the answers to its messages, one of each kind. *)
Orderly ==
  /\ \A i \in Box : mailbox[i].offer # None => mailbox[i].kind \in waits[mailbox[i].offer]
  /\ \A m \in parked : m.offer # None /\ m.kind \in waits[m.offer]
  /\ \A i, j \in Box : mailbox[i].offer # None /\ mailbox[i].offer = mailbox[j].offer
                       /\ mailbox[i].kind = mailbox[j].kind => i = j
  /\ \A m \in parked, i \in Box : mailbox[i].offer = m.offer => mailbox[i].kind # m.kind
  /\ \A m, n \in parked : m.offer = n.offer /\ m.kind = n.kind => m = n
  /\ \A o \in Offer : waits[o] # {} => stage[o] = "open"

(* A message of offer o about user u is on its way. *)
Pending(o, u, kind) ==
  \/ \E m \in parked : m.offer = o /\ m.user = u /\ m.kind = kind
  \/ \E i \in Box : mailbox[i].offer = o /\ mailbox[i].user = u /\ mailbox[i].kind = kind

Fresh(o, u) == registered[o][u] \in Age /\ registered[o][u] + Latency <= Minute

Kept ==
  \A o \in Offer, u \in User :
    Fresh(o, u) /\ ~Pending(o, u, "session") =>
      sessions[u] \in Age /\ sessions[u] <= registered[o][u] + Latency

(* A line's two messages, as they are sent. *)
Follows(m, s) ==
  /\ s.kind = "session" /\ m.kind = "media"
  /\ s.offer = m.offer /\ s.user = m.user /\ s.age = m.age

(* When nothing is parked, a session message is directly followed by its   *)
(* media message, and a media message is next only if the session was just *)
(* written with the ttl both took.                                         *)
Paired ==
  /\ parked = {}
  /\ \A i \in Box : mailbox[i].kind = "session" =>
                     i + 1 \in Box /\ Follows(mailbox[i + 1], mailbox[i])
  /\ \A i \in Box : mailbox[i].kind = "media" /\ i # 1 =>
                     i - 1 \in Box /\ Follows(mailbox[i], mailbox[i - 1])
  /\ mailbox # << >> /\ mailbox[1].kind = "media" =>
       sessions[mailbox[1].user] = mailbox[1].age

MediaKept ==
  \A o \in Offer, u \in User :
    Fresh(o, u) /\ ~Pending(o, u, "session") /\ ~Pending(o, u, "media") =>
      u \in media_sessions

Owned == \A u \in media_sessions : sessions[u] # None

(* How a mailbox changes: by the handled message, by one or two new ones,  *)
(* or in the fields of its messages.                                       *)
LEMMA TailOutcome ==
  ASSUME UdpTypeOK, mailbox # << >>
  PROVE  /\ Head(mailbox) = mailbox[1] /\ mailbox[1] \in Messages /\ Len(mailbox) \in Nat \ {0}
         /\ Tail(mailbox) \in Seq(Messages) /\ Len(Tail(mailbox)) = Len(mailbox) - 1
         /\ \A i \in 1 .. Len(mailbox) - 1 : Tail(mailbox)[i] = mailbox[i + 1]
BY DEF UdpTypeOK

(* What a parked message makes of the mailbox. *)
LEMMA AppendOutcome ==
  ASSUME UdpTypeOK, NEW m \in Messages
  PROVE  /\ Append(mailbox, m) \in Seq(Messages)
         /\ Len(mailbox) \in Nat /\ Len(Append(mailbox, m)) = Len(mailbox) + 1
         /\ \A i \in Box : Append(mailbox, m)[i] = mailbox[i]
         /\ Append(mailbox, m)[Len(mailbox) + 1] = m
BY DEF UdpTypeOK, Box

(* What the two messages of a line make of the mailbox. *)
LEMMA AppendTwoOutcome ==
  ASSUME UdpTypeOK, NEW m \in Messages, NEW n \in Messages
  PROVE  /\ mailbox \o <<m, n>> \in Seq(Messages)
         /\ Len(mailbox) \in Nat /\ Len(mailbox \o <<m, n>>) = Len(mailbox) + 2
         /\ \A i \in Box : (mailbox \o <<m, n>>)[i] = mailbox[i]
         /\ (mailbox \o <<m, n>>)[Len(mailbox) + 1] = m
         /\ (mailbox \o <<m, n>>)[Len(mailbox) + 2] = n
BY DEF UdpTypeOK, Box

(* What a message carries. *)
LEMMA MessageFields ==
  ASSUME NEW m \in Messages
  PROVE  /\ m.kind \in Kinds /\ m.offer \in Offer \cup {None} /\ m.user \in User
         /\ m.age \in 0 .. Latency
BY DEF Messages

(* A new message carries what it was made of. *)
LEMMA NewMessage ==
  ASSUME NEW k \in Kinds, NEW o \in Offer, NEW u \in User
  PROVE  /\ Message(k, o, u) \in Messages /\ Message(k, o, u).kind = k
         /\ Message(k, o, u).offer = o /\ Message(k, o, u).user = u
         /\ Message(k, o, u).age = 0
BY UdpRecvAssumption DEF Message, Messages

(* CloseOffer: messages in the mailbox lose their offer. *)
LEMMA CloseOutcome ==
  ASSUME UdpTypeOK, NEW o \in Offer, CloseOffer(o)
  PROVE  /\ mailbox' \in Seq(Messages) /\ Len(mailbox') = Len(mailbox)
         /\ \A i \in Box :
              /\ mailbox'[i].kind = mailbox[i].kind /\ mailbox'[i].user = mailbox[i].user
              /\ mailbox'[i].age = mailbox[i].age
              /\ mailbox'[i].offer = IF mailbox[i].offer = o THEN None ELSE mailbox[i].offer
<1>1. Len(mailbox) \in Nat /\ DOMAIN mailbox = Box /\ \A i \in Box : mailbox[i] \in Messages
  BY DEF UdpTypeOK, Box
<1>2. mailbox' = [i \in Box |-> [mailbox[i] EXCEPT !.offer = IF @ = o THEN None ELSE @]]
  BY <1>1 DEF CloseOffer
<1>3. ASSUME NEW i \in Box
      PROVE  /\ mailbox'[i] \in Messages
             /\ mailbox'[i].kind = mailbox[i].kind /\ mailbox'[i].user = mailbox[i].user
             /\ mailbox'[i].age = mailbox[i].age
             /\ mailbox'[i].offer = IF mailbox[i].offer = o THEN None ELSE mailbox[i].offer
  <2>1. mailbox'[i] = [mailbox[i] EXCEPT !.offer = IF @ = o THEN None ELSE @]
    BY <1>2
  <2>2. mailbox[i] \in Messages
    BY <1>1
  <2> QED
    BY <2>1, <2>2 DEF Messages
<1>4. mailbox' \in [Box -> Messages]
  BY <1>2, <1>3
<1>5. mailbox' \in Seq(Messages) /\ Len(mailbox') = Len(mailbox)
  BY <1>1, <1>4 DEF Box
<1> QED
  BY <1>3, <1>5

(* Tick: all messages become older, none older than Latency. *)
LEMMA TickOutcome ==
  ASSUME UdpTypeOK, Tick
  PROVE  /\ mailbox' \in Seq(Messages) /\ Len(mailbox') = Len(mailbox)
         /\ \A i \in Box :
              /\ mailbox'[i].kind = mailbox[i].kind /\ mailbox'[i].user = mailbox[i].user
              /\ mailbox'[i].offer = mailbox[i].offer
              /\ mailbox'[i].age = mailbox[i].age + 1 /\ mailbox[i].age < Latency
         /\ parked' \subseteq Messages
         /\ \A n \in parked' : \E m \in parked :
              n = [m EXCEPT !.age = @ + 1] /\ n.kind = m.kind /\ n.offer = m.offer /\ n.user = m.user
         /\ \A m \in parked : \E n \in parked' :
              n.kind = m.kind /\ n.offer = m.offer /\ n.user = m.user
<1>1. Len(mailbox) \in Nat /\ DOMAIN mailbox = Box /\ \A i \in Box : mailbox[i] \in Messages
  BY DEF UdpTypeOK, Box
<1>2. mailbox' = [i \in Box |-> [mailbox[i] EXCEPT !.age = @ + 1]]
  BY <1>1 DEF Tick
<1>3. ASSUME NEW m \in Messages, m.age < Latency
      PROVE  /\ [m EXCEPT !.age = @ + 1] \in Messages
             /\ [m EXCEPT !.age = @ + 1].kind = m.kind
             /\ [m EXCEPT !.age = @ + 1].offer = m.offer
             /\ [m EXCEPT !.age = @ + 1].user = m.user
             /\ [m EXCEPT !.age = @ + 1].age = m.age + 1
  BY <1>3, UdpRecvAssumption DEF Messages
<1>4. ASSUME NEW i \in Box
      PROVE  /\ mailbox'[i] \in Messages /\ mailbox[i].age < Latency
             /\ mailbox'[i].kind = mailbox[i].kind /\ mailbox'[i].user = mailbox[i].user
             /\ mailbox'[i].offer = mailbox[i].offer
             /\ mailbox'[i].age = mailbox[i].age + 1
  <2>1. mailbox[i] \in Messages /\ mailbox[i].age < Latency
    BY <1>1 DEF Tick
  <2>2. mailbox'[i] = [mailbox[i] EXCEPT !.age = @ + 1]
    BY <1>2
  <2> QED
    BY <1>3, <2>1, <2>2
<1>5. parked' = {[m EXCEPT !.age = @ + 1] : m \in parked}
  BY DEF Tick
<1>6. \A m \in parked : m \in Messages /\ m.age < Latency
  BY DEF Tick, UdpTypeOK
<1>7. mailbox' \in [Box -> Messages]
  BY <1>2, <1>4
<1>8. mailbox' \in Seq(Messages) /\ Len(mailbox') = Len(mailbox)
  BY <1>1, <1>7 DEF Box
<1>9. ASSUME NEW n \in parked'
      PROVE  /\ n \in Messages
             /\ \E m \in parked :
                  n = [m EXCEPT !.age = @ + 1] /\ n.kind = m.kind /\ n.offer = m.offer /\ n.user = m.user
  BY <1>3, <1>5, <1>6
<1>10. ASSUME NEW m \in parked
       PROVE  \E n \in parked' : n.kind = m.kind /\ n.offer = m.offer /\ n.user = m.user
  BY <1>3, <1>5, <1>6
<1> QED
  BY <1>4, <1>8, <1>9, <1>10

-----------------------------------------------------------------------------
(* The type invariant is inductive. *)
LEMMA TypeInit == UdpInit => UdpTypeOK
<1>1. UdpInit => crowded \in BOOLEAN
  BY Zenon DEF UdpInit
<1> QED
  BY <1>1, UdpRecvAssumption DEF UdpInit, UdpTypeOK, Nobody, Age, Expired

(* Ages stay in their range, and what is not there stays away. *)
LEMMA OlderAge == ASSUME NEW a \in Age \cup {None} PROVE Older(a) \in Age \cup {None}
BY UdpRecvAssumption DEF Older, Age, Expired

(* Every step keeps the types. *)
LEMMA TypeStep == ASSUME UdpTypeOK, [UdpNext]_udpVars PROVE UdpTypeOK'
<1> USE UdpRecvAssumption
<1>0. 0 \in Age /\ \A a \in 0 .. Latency : a \in Age
  BY DEF Age, Expired
<1>0a. Nobody \in [User -> Age \cup {None}]
  BY DEF Nobody
<1>1. ASSUME NEW o \in Offer, ReceiveOffer(o) PROVE UdpTypeOK'
  BY <1>1, <1>0a DEF ReceiveOffer, UdpTypeOK, recvVars, queueVars
<1>2. ASSUME NEW o \in Offer, AnswerOffer(o) PROVE UdpTypeOK'
  BY <1>2 DEF AnswerOffer, UdpTypeOK, recvVars, queueVars
<1>3. ASSUME NEW o \in Offer, CloseOffer(o) PROVE UdpTypeOK'
  <2>1. mailbox' \in Seq(Messages) /\ Len(mailbox') = Len(mailbox)
    BY <1>3, CloseOutcome
  <2> QED
    BY <1>3, <2>1, <1>0a DEF CloseOffer, UdpTypeOK, recvVars
<1>4. ASSUME NEW o \in Offer, NEW u \in User, SendLine(o, u) PROVE UdpTypeOK'
  <2>1. Message("session", o, u) \in Messages /\ Message("media", o, u) \in Messages
    BY NewMessage DEF Kinds
  <2>2. mailbox' \in Seq(Messages) /\ Len(mailbox') <= Capacity
    <3>1. CASE mailbox' = mailbox
      BY <3>1 DEF UdpTypeOK
    <3>2. CASE mailbox' # mailbox
      <4>1. /\ mailbox' = mailbox \o <<Message("session", o, u), Message("media", o, u)>>
            /\ Len(mailbox) + 2 <= Capacity
        BY <1>4, <3>2 DEF SendLine
      <4> QED
        BY <4>1, <2>1, AppendTwoOutcome
    <3> QED
      BY <3>1, <3>2
  <2>3. parked' \subseteq Messages
    <3>1. parked' \subseteq parked \cup {Message("session", o, u), Message("media", o, u)}
      BY <1>4 DEF SendLine, Kinds
    <3> QED
      BY <2>1, <3>1 DEF UdpTypeOK
  <2>4. registered' \in [Offer -> [User -> Age \cup {None}]]
    BY <1>4, <1>0 DEF SendLine, UdpTypeOK
  <2>5. lines' \in [Offer -> 0 .. MaxLines] /\ waits' \in [Offer -> SUBSET Kinds]
    BY <1>4 DEF SendLine, UdpTypeOK
  <2> QED
    BY <1>4, <2>2, <2>3, <2>4, <2>5 DEF SendLine, UdpTypeOK, recvVars
<1>5. ASSUME NEW m \in parked, Unpark(m) PROVE UdpTypeOK'
  <2>1. m \in Messages
    BY DEF UdpTypeOK
  <2>2. mailbox' \in Seq(Messages) /\ Len(mailbox') <= Capacity
    BY <1>5, <2>1, AppendOutcome DEF Unpark, UdpTypeOK
  <2> QED
    BY <1>5, <2>2 DEF Unpark, UdpTypeOK, recvVars, offerVars
<1>6. ASSUME HandleMessage PROVE UdpTypeOK'
  <2>1. PICK m : m = Head(mailbox)
    OBVIOUS
  <2>2. m \in Messages /\ Tail(mailbox) \in Seq(Messages) /\ Len(Tail(mailbox)) <= Capacity
    BY <1>6, <2>1, TailOutcome DEF HandleMessage, UdpTypeOK
  <2>3. m.user \in User /\ m.age \in Age
    BY <1>0, <2>2, MessageFields
  <2>4. sessions' \in [User -> Age \cup {None}] /\ media_sessions' \subseteq User
    BY <1>6, <2>1, <2>3 DEF HandleMessage, UdpTypeOK
  <2>5. waits' \in [Offer -> SUBSET Kinds]
    BY <1>6 DEF HandleMessage, UdpTypeOK
  <2> QED
    BY <1>6, <2>2, <2>4, <2>5 DEF HandleMessage, UdpTypeOK
<1>7. ASSUME ClearData PROVE UdpTypeOK'
  BY <1>7 DEF ClearData, UdpTypeOK, queueVars, offerVars
<1>8. ASSUME Tick PROVE UdpTypeOK'
  <2>1. mailbox' \in Seq(Messages) /\ Len(mailbox') = Len(mailbox) /\ parked' \subseteq Messages
    BY <1>8, TickOutcome
  <2>2. sessions' \in [User -> Age \cup {None}]
    BY <1>8, OlderAge DEF Tick, UdpTypeOK
  <2>3. registered' \in [Offer -> [User -> Age \cup {None}]]
    BY <1>8, OlderAge DEF Tick, UdpTypeOK
  <2> QED
    BY <1>8, <2>1, <2>2, <2>3 DEF Tick, UdpTypeOK
<1>9. CASE UNCHANGED udpVars
  BY <1>9 DEF UdpTypeOK, udpVars, recvVars, queueVars, offerVars
<1> QED
  BY <1>1, <1>2, <1>3, <1>4, <1>5, <1>6, <1>7, <1>8, <1>9 DEF UdpNext

(* The tables of UdpRecv and the offers under way keep their types, and    *)
(* the mailbox its capacity, for every load (UdpTypeOK).                   *)
THEOREM TablesKeepTheirTypes == UdpSpec => []UdpTypeOK
<1>1. UdpTypeOK /\ [UdpNext]_udpVars => UdpTypeOK'
  BY TypeStep
<1> QED
  BY <1>1, TypeInit, PTL DEF UdpSpec

-----------------------------------------------------------------------------
(* Which messages are on their way. *)
LEMMA OrderlyInit == UdpInit => Orderly
BY DEF UdpInit, Orderly, Box

(* An offer sends its next line when it has both answers. *)
LEMMA OrderlyStep == ASSUME UdpTypeOK, Orderly, [UdpNext]_udpVars PROVE Orderly'
<1> USE UdpRecvAssumption
<1>0. /\ \A i \in Box : mailbox[i] \in Messages
      /\ \A i \in Box : mailbox[i].kind \in Kinds /\ mailbox[i].offer \in Offer \cup {None}
      /\ \A m \in parked : m \in Messages /\ m.kind \in Kinds /\ m.offer \in Offer
      /\ Len(mailbox) \in Nat
  <2>1. Len(mailbox) \in Nat /\ \A i \in Box : mailbox[i] \in Messages
    BY DEF UdpTypeOK, Box
  <2>2. \A m \in parked : m \in Messages /\ m.offer # None
    BY DEF UdpTypeOK, Orderly
  <2> QED
    BY <2>1, <2>2, MessageFields
<1>1. ASSUME NEW o \in Offer, ReceiveOffer(o) PROVE Orderly'
  BY <1>1 DEF ReceiveOffer, UdpTypeOK, Orderly, Box, recvVars, queueVars
<1>2. ASSUME NEW o \in Offer, AnswerOffer(o) PROVE Orderly'
  BY <1>2 DEF AnswerOffer, UdpTypeOK, Orderly, Box, recvVars, queueVars
<1>3. ASSUME NEW o \in Offer, CloseOffer(o) PROVE Orderly'
  <2>1. /\ Box' = Box
        /\ \A i \in Box : /\ mailbox'[i].kind = mailbox[i].kind
                          /\ mailbox'[i].offer = IF mailbox[i].offer = o THEN None ELSE mailbox[i].offer
    BY <1>3, CloseOutcome DEF Box
  <2>2. /\ \A p \in Offer : waits'[p] = IF p = o THEN {} ELSE waits[p]
        /\ \A p \in Offer \ {o} : stage'[p] = stage[p]
        /\ \A m \in parked' : m \in parked /\ m.offer # o
    BY <1>3 DEF CloseOffer, UdpTypeOK
  <2> QED
    BY <1>0, <2>1, <2>2 DEF Orderly
<1>4. ASSUME NEW o \in Offer, NEW u \in User, SendLine(o, u) PROVE Orderly'
  <2>1. PICK s, m : /\ s = Message("session", o, u) /\ m = Message("media", o, u)
                    /\ s \in Messages /\ m \in Messages
                    /\ s.kind = "session" /\ m.kind = "media" /\ s.offer = o /\ m.offer = o
    BY NewMessage DEF Kinds
  <2>2. /\ \A p \in Offer : waits'[p] = IF p = o THEN Kinds ELSE waits[p]
        /\ waits[o] = {} /\ stage[o] = "open" /\ stage' = stage
    BY <1>4 DEF SendLine, UdpTypeOK
  <2>3. /\ \A i \in Box : mailbox[i].offer # o
        /\ \A n \in parked : n.offer # o
    BY <2>2, <1>0 DEF Orderly
  <2>4. CASE mailbox' = mailbox
    <3>1. parked' = parked \cup {s, m} /\ mailbox' = mailbox /\ Box' = Box
      <4>1. parked' = parked \cup {Message(k, o, u) : k \in Kinds}
        BY <1>4, <2>1, <2>4, AppendTwoOutcome DEF SendLine
      <4> QED
        BY <2>1, <2>4, <4>1 DEF Kinds, Box
    <3> QED
      BY <1>0, <2>1, <2>2, <2>3, <3>1 DEF Orderly, Kinds
  <2>5. CASE mailbox' # mailbox
    <3>1. /\ parked' = parked /\ Box' = 1 .. Len(mailbox) + 2
          /\ \A i \in Box : mailbox'[i] = mailbox[i]
          /\ mailbox'[Len(mailbox) + 1] = s /\ mailbox'[Len(mailbox) + 2] = m
      BY <1>4, <2>1, <2>5, AppendTwoOutcome DEF SendLine, Box
    <3>2. \A i \in Box' : i \in Box \/ i = Len(mailbox) + 1 \/ i = Len(mailbox) + 2
      BY <1>0, <3>1 DEF Box
    <3>3. Len(mailbox) + 1 \notin Box /\ Len(mailbox) + 2 \notin Box
      BY <1>0 DEF Box
    <3>4. \A i \in Box' : mailbox'[i].offer # None => mailbox'[i].kind \in waits'[mailbox'[i].offer]
      BY <1>0, <2>1, <2>2, <2>3, <3>1, <3>2 DEF Orderly, Kinds
    <3>5. \A n \in parked' : n.offer # None /\ n.kind \in waits'[n.offer]
      BY <1>0, <2>2, <2>3, <3>1 DEF Orderly
    <3>6. ASSUME NEW i \in Box', NEW j \in Box', mailbox'[i].offer # None,
                 mailbox'[i].offer = mailbox'[j].offer, mailbox'[i].kind = mailbox'[j].kind
          PROVE  i = j
      <4>1. CASE i \in Box /\ j \in Box
        BY <3>1, <3>6, <4>1 DEF Orderly
      <4>2. CASE i \notin Box \/ j \notin Box
        BY <2>1, <2>3, <3>1, <3>2, <3>6, <4>2
      <4> QED
        BY <4>1, <4>2
    <3>7. \A n \in parked', i \in Box' : mailbox'[i].offer = n.offer => mailbox'[i].kind # n.kind
      BY <2>1, <2>3, <3>1, <3>2 DEF Orderly
    <3> QED
      BY <2>2, <3>1, <3>4, <3>5, <3>6, <3>7 DEF Orderly
  <2> QED
    BY <2>4, <2>5
<1>5. ASSUME NEW m \in parked, Unpark(m) PROVE Orderly'
  <2>1. /\ Box' = 1 .. Len(mailbox) + 1 /\ mailbox'[Len(mailbox) + 1] = m
        /\ \A i \in Box : mailbox'[i] = mailbox[i]
        /\ parked' = parked \ {m} /\ waits' = waits /\ stage' = stage
    BY <1>0, <1>5, AppendOutcome DEF Unpark, Box, offerVars
  <2>2. \A i \in Box' : i \in Box \/ i = Len(mailbox) + 1
    BY <1>0, <2>1 DEF Box
  <2> QED
    BY <1>0, <2>1, <2>2 DEF Orderly
<1>6. ASSUME HandleMessage PROVE Orderly'
  <2>1. /\ 1 \in Box /\ Head(mailbox) = mailbox[1]
        /\ \A i \in Box' : i + 1 \in Box /\ i + 1 # 1 /\ mailbox'[i] = mailbox[i + 1]
        /\ Box' \subseteq Nat
    BY <1>6, TailOutcome DEF HandleMessage, Box
  <2>2. PICK m : m = mailbox[1]
    OBVIOUS
  <2>3. /\ \A p \in Offer : waits'[p] = IF p = m.offer THEN waits[p] \ {m.kind} ELSE waits[p]
        /\ parked' = parked /\ stage' = stage
    BY <1>6, <2>1, <2>2 DEF HandleMessage
  <2>4. \A i, j \in Box' : i + 1 = j + 1 => i = j
    BY <2>1
  <2>5. \A i \in Box' : mailbox'[i].offer = m.offer /\ m.offer # None => mailbox'[i].kind # m.kind
    BY <2>1, <2>2 DEF Orderly
  <2>6. \A n \in parked : n.offer = m.offer => n.kind # m.kind
    BY <2>1, <2>2 DEF Orderly
  <2>7. \A i \in Box' : mailbox'[i].offer # None => mailbox'[i].kind \in waits'[mailbox'[i].offer]
    <3> SUFFICES ASSUME NEW i \in Box', mailbox'[i].offer # None
                 PROVE  mailbox'[i].kind \in waits'[mailbox'[i].offer]
      OBVIOUS
    <3>1. PICK n : n = mailbox[i + 1] /\ n = mailbox'[i]
      BY <2>1
    <3>2. n.offer \in Offer /\ n.kind \in waits[n.offer]
      BY <1>0, <2>1, <3>1 DEF Orderly
    <3>3. n.offer = m.offer => n.kind # m.kind
      BY <2>5, <3>1
    <3> QED
      BY <2>3, <3>1, <3>2, <3>3
  <2>8. \A n \in parked' : n.offer # None /\ n.kind \in waits'[n.offer]
    BY <1>0, <2>3, <2>6 DEF Orderly
  <2>9. ASSUME NEW i \in Box', NEW j \in Box', mailbox'[i].offer # None,
               mailbox'[i].offer = mailbox'[j].offer, mailbox'[i].kind = mailbox'[j].kind
        PROVE  i = j
    <3>1. i + 1 = j + 1
      BY <2>1, <2>9 DEF Orderly
    <3> QED
      BY <2>4, <3>1
  <2>10. \A n \in parked', i \in Box' : mailbox'[i].offer = n.offer => mailbox'[i].kind # n.kind
    BY <2>1, <2>3 DEF Orderly
  <2>11. \A p \in Offer : waits'[p] # {} => stage'[p] = "open"
    <3>1. \A p \in Offer : waits'[p] # {} => waits[p] # {}
      BY <2>3
    <3> QED
      BY <2>3, <3>1 DEF Orderly
  <2>12. \A n, k \in parked' : n.offer = k.offer /\ n.kind = k.kind => n = k
    BY <2>3 DEF Orderly
  <2> QED
    BY <2>7, <2>8, <2>9, <2>10, <2>11, <2>12 DEF Orderly
<1>7. ASSUME ClearData PROVE Orderly'
  BY <1>7 DEF ClearData, Orderly, Box, queueVars, offerVars
<1>8. ASSUME Tick PROVE Orderly'
  <2>1. /\ Box' = Box
        /\ \A i \in Box : mailbox'[i].kind = mailbox[i].kind /\ mailbox'[i].offer = mailbox[i].offer
        /\ \A n \in parked' : \E m \in parked :
             n = [m EXCEPT !.age = @ + 1] /\ n.kind = m.kind /\ n.offer = m.offer
    BY <1>8, TickOutcome DEF Box
  <2>2. waits' = waits /\ stage' = stage
    BY <1>8 DEF Tick
  <2> QED
    BY <1>0, <2>1, <2>2 DEF Orderly
<1>9. CASE UNCHANGED udpVars
  BY <1>9 DEF Orderly, Box, udpVars, recvVars, queueVars, offerVars
<1> QED
  BY <1>1, <1>2, <1>3, <1>4, <1>5, <1>6, <1>7, <1>8, <1>9 DEF UdpNext

-----------------------------------------------------------------------------
(* A message on its way stays so, until it is handled or its offer closes. *)
LEMMA PendingStays ==
  ASSUME UdpTypeOK, [UdpNext]_udpVars,
         NEW o \in Offer, NEW u \in User, NEW kind \in Kinds, Pending(o, u, kind)
  PROVE  \/ Pending(o, u, kind)'
         \/ CloseOffer(o)
         \/ /\ HandleMessage
            /\ mailbox[1].offer = o /\ mailbox[1].user = u /\ mailbox[1].kind = kind
<1> USE UdpRecvAssumption
<1>0. Len(mailbox) \in Nat /\ parked \subseteq Messages
  BY DEF UdpTypeOK
<1>1. ASSUME NEW p \in Offer, ReceiveOffer(p) PROVE Pending(o, u, kind)'
  BY <1>1 DEF ReceiveOffer, Pending, Box, queueVars
<1>2. ASSUME NEW p \in Offer, AnswerOffer(p) PROVE Pending(o, u, kind)'
  BY <1>2 DEF AnswerOffer, Pending, Box, queueVars
<1>3. ASSUME NEW p \in Offer, CloseOffer(p), p # o PROVE Pending(o, u, kind)'
  <2>1. /\ Box' = Box
        /\ \A i \in Box : /\ mailbox'[i].kind = mailbox[i].kind
                          /\ mailbox'[i].user = mailbox[i].user
                          /\ mailbox'[i].offer = IF mailbox[i].offer = p THEN None ELSE mailbox[i].offer
    BY <1>3, CloseOutcome DEF Box
  <2>2. \A m \in parked : m.offer = o => m \in parked'
    BY <1>3 DEF CloseOffer
  <2> QED
    BY <1>3, <2>1, <2>2 DEF Pending
<1>4. ASSUME NEW p \in Offer, NEW w \in User, SendLine(p, w) PROVE Pending(o, u, kind)'
  <2>1. Message("session", p, w) \in Messages /\ Message("media", p, w) \in Messages
    BY NewMessage DEF Kinds
  <2>2. parked \subseteq parked'
    BY <1>4 DEF SendLine
  <2>3. \A i \in Box : i \in Box' /\ mailbox'[i] = mailbox[i]
    BY <1>0, <1>4, <2>1, AppendTwoOutcome DEF SendLine, Box
  <2> QED
    BY <2>2, <2>3 DEF Pending
<1>5. ASSUME NEW m \in parked, Unpark(m) PROVE Pending(o, u, kind)'
  <2>1. /\ \A i \in Box : i \in Box' /\ mailbox'[i] = mailbox[i]
        /\ Len(mailbox) + 1 \in Box' /\ mailbox'[Len(mailbox) + 1] = m
        /\ parked' = parked \ {m}
    BY <1>0, <1>5, AppendOutcome DEF Unpark, Box
  <2> QED
    BY <2>1 DEF Pending
<1>6. ASSUME HandleMessage,
             ~(mailbox[1].offer = o /\ mailbox[1].user = u /\ mailbox[1].kind = kind)
      PROVE  Pending(o, u, kind)'
  <2>1. \A i \in Box : i = 1 \/ (i - 1 \in Box' /\ mailbox'[i - 1] = mailbox[i])
    BY <1>6, TailOutcome DEF HandleMessage, Box
  <2>2. parked' = parked
    BY <1>6 DEF HandleMessage
  <2> QED
    BY <1>6, <2>1, <2>2 DEF Pending
<1>7. ASSUME ClearData PROVE Pending(o, u, kind)'
  BY <1>7 DEF ClearData, Pending, Box, queueVars
<1>8. ASSUME Tick PROVE Pending(o, u, kind)'
  BY <1>8, TickOutcome DEF Pending, Box
<1>9. CASE UNCHANGED udpVars
  BY <1>9 DEF Pending, Box, udpVars, queueVars
<1> QED
  BY <1>1, <1>2, <1>3, <1>4, <1>5, <1>6, <1>7, <1>8, <1>9 DEF UdpNext

(* A line's own messages are on their way once it is sent. *)
LEMMA SentIsPending ==
  ASSUME UdpTypeOK, NEW o \in Offer, NEW u \in User, NEW kind \in Kinds, SendLine(o, u)
  PROVE  Pending(o, u, kind)'
<1>1. PICK s, m : /\ s = Message("session", o, u) /\ m = Message("media", o, u)
                  /\ s \in Messages /\ m \in Messages /\ s.kind = "session" /\ m.kind = "media"
                  /\ s.offer = o /\ m.offer = o /\ s.user = u /\ m.user = u
  BY NewMessage DEF Kinds
<1>2. CASE mailbox' = mailbox
  <2>1. parked' = parked \cup {Message(k, o, u) : k \in Kinds}
    BY <1>1, <1>2, AppendTwoOutcome DEF SendLine
  <2>2. s \in parked' /\ m \in parked'
    BY <1>1, <2>1 DEF Kinds
  <2> QED
    BY <1>1, <2>2 DEF Pending, Kinds
<1>3. CASE mailbox' # mailbox
  <2>1. /\ Len(mailbox) + 1 \in Box' /\ Len(mailbox) + 2 \in Box'
        /\ mailbox'[Len(mailbox) + 1] = s /\ mailbox'[Len(mailbox) + 2] = m
    BY <1>1, <1>3, AppendTwoOutcome DEF SendLine, Box
  <2> QED
    BY <1>1, <2>1 DEF Pending, Kinds
<1> QED
  BY <1>2, <1>3, UdpRecvAssumption

(* Registrations only age, are made by SendLine, or are forgotten. *)
LEMMA FreshBefore ==
  ASSUME UdpTypeOK, [UdpNext]_udpVars, NEW o \in Offer, NEW u \in User, Fresh(o, u)'
  PROVE  /\ ~CloseOffer(o)
         /\ \/ SendLine(o, u)
            \/ (Fresh(o, u) /\ registered'[o][u] = registered[o][u])
            \/ (Tick /\ Fresh(o, u) /\ registered'[o][u] = registered[o][u] + 1)
<1> USE UdpRecvAssumption
<1>0. None \notin Age /\ Age \subseteq Nat
  BY DEF Age, Expired
<1>1. /\ registered'[o][u] # None /\ registered'[o][u] \in Age
      /\ registered'[o][u] + Latency <= Minute
      /\ registered[o][u] \in Age \cup {None}
  BY <1>0 DEF Fresh, UdpTypeOK
<1>2. ASSUME NEW p \in Offer, ReceiveOffer(p) PROVE p # o /\ registered'[o] = registered[o]
  BY <1>1, <1>2 DEF ReceiveOffer, Nobody, UdpTypeOK
<1>3. ASSUME NEW p \in Offer, CloseOffer(p) PROVE p # o /\ registered'[o] = registered[o]
  BY <1>1, <1>3 DEF CloseOffer, Nobody, UdpTypeOK
<1>4. ASSUME NEW p \in Offer, NEW w \in User, SendLine(p, w), ~(p = o /\ w = u)
      PROVE  registered'[o][u] = registered[o][u]
  BY <1>4 DEF SendLine, UdpTypeOK
<1>5. ASSUME Tick PROVE Fresh(o, u) /\ registered'[o][u] = registered[o][u] + 1
  <2>1. registered'[o][u] = Older(registered[o][u])
    BY <1>5 DEF Tick
  <2>2. registered[o][u] \in Age
    BY <1>0, <1>1, <2>1 DEF Older
  <2> QED
    BY <1>0, <1>1, <2>1, <2>2 DEF Older, Age, Expired, Fresh
<1>6. ASSUME registered'[o][u] = registered[o][u] PROVE Fresh(o, u)
  BY <1>1, <1>6 DEF Fresh
<1>7. ~CloseOffer(o)
  BY <1>3
<1>8. CASE \E p \in Offer : ReceiveOffer(p) \/ AnswerOffer(p) \/ CloseOffer(p)
  BY <1>2, <1>3, <1>6, <1>7, <1>8 DEF AnswerOffer
<1>9. CASE \E p \in Offer, w \in User : SendLine(p, w)
  BY <1>4, <1>6, <1>7, <1>9
<1>10. CASE \/ (\E m \in parked : Unpark(m)) \/ HandleMessage \/ ClearData \/ UNCHANGED udpVars
  <2>1. registered' = registered
    BY <1>10 DEF Unpark, HandleMessage, ClearData, offerVars, udpVars
  <2> QED
    BY <1>6, <1>7, <2>1
<1> QED
  BY <1>5, <1>7, <1>8, <1>9, <1>10 DEF UdpNext

(* What a step does to the session of one user. *)
LEMMA SessionBefore ==
  ASSUME UdpTypeOK, [UdpNext]_udpVars, NEW u \in User,
         sessions[u] \in Age, sessions[u] <= Minute
  PROVE  /\ sessions'[u] \in Age
         /\ sessions'[u] = sessions[u] \/ sessions'[u] <= Latency
            \/ (Tick /\ sessions'[u] = sessions[u] + 1)
<1> USE UdpRecvAssumption
<1>0. Age \subseteq Nat /\ \A a \in 0 .. Latency : a \in Age
  BY DEF Age, Expired
<1>1. ASSUME HandleMessage
      PROVE  sessions'[u] \in Age /\ (sessions'[u] = sessions[u] \/ sessions'[u] <= Latency)
  <2>1. PICK m \in Messages : m = Head(mailbox)
    BY <1>1, TailOutcome DEF HandleMessage
  <2>2. m.age \in 0 .. Latency
    BY MessageFields
  <2>3. sessions'[u] = sessions[u] \/ sessions'[u] = m.age
    BY <1>1, <2>1 DEF HandleMessage, UdpTypeOK
  <2> QED
    BY <1>0, <2>2, <2>3
<1>2. ASSUME ClearData PROVE sessions'[u] = sessions[u]
  <2>0. ~(sessions[u] > Minute)
    <3>1. sessions[u] \in Nat
      BY <1>0
    <3>2. Minute \in Nat
      OBVIOUS
    <3> QED
      BY <3>1, <3>2
  <2>1. u \notin ToRemove
    BY <2>0, Zenon DEF ToRemove
  <2> QED
    BY <1>2, <2>1 DEF ClearData
<1>3. ASSUME Tick PROVE sessions'[u] \in Age /\ sessions'[u] = sessions[u] + 1
  BY <1>0, <1>3 DEF Tick, Older, Age, Expired
<1>4. CASE \/ \E o \in Offer : ReceiveOffer(o) \/ AnswerOffer(o) \/ CloseOffer(o)
           \/ \E o \in Offer, w \in User : SendLine(o, w)
           \/ \E m \in parked : Unpark(m)
           \/ UNCHANGED udpVars
  <2>1. sessions' = sessions
    BY <1>4 DEF ReceiveOffer, AnswerOffer, CloseOffer, SendLine, Unpark, recvVars, udpVars
  <2> QED
    BY <2>1
<1> QED
  <2>1. CASE Tick
    BY <2>1, <1>3
  <2>2. CASE HandleMessage
    BY <2>2, <1>1
  <2>3. CASE ClearData
    BY <2>3, <1>2
  <2> QED
    BY <2>1, <2>2, <2>3, <1>4 DEF UdpNext

(* Nothing is registered at the start. *)
LEMMA KeptInit == UdpInit => Kept
BY UdpRecvAssumption DEF UdpInit, Kept, Fresh, Nobody, Age, Expired

(* A session is overwritten by one at most Latency older, and ages with    *)
(* the registration.                                                       *)
LEMMA KeptStep == ASSUME UdpTypeOK, Kept, [UdpNext]_udpVars PROVE Kept'
<1> USE UdpRecvAssumption
<1> SUFFICES ASSUME NEW o \in Offer, NEW u \in User, Fresh(o, u)', ~Pending(o, u, "session")'
             PROVE  sessions'[u] \in Age /\ sessions'[u] <= registered'[o][u] + Latency
  BY DEF Kept
<1>0. Age \subseteq Nat /\ \A a \in 0 .. Latency : a \in Age
  BY DEF Age, Expired
<1>1. ~SendLine(o, u) /\ ~CloseOffer(o)
  BY SentIsPending, FreshBefore DEF Kinds
<1>2. /\ Fresh(o, u)
      /\ registered'[o][u] = registered[o][u] \/ (Tick /\ registered'[o][u] = registered[o][u] + 1)
  BY <1>1, FreshBefore
<1>3. registered[o][u] \in Nat /\ registered'[o][u] \in Nat /\ registered[o][u] + Latency <= Minute
  BY <1>0, <1>2 DEF Fresh
<1>4. CASE Pending(o, u, "session")
  <2>1. HandleMessage /\ mailbox[1].user = u /\ mailbox[1].kind = "session"
    BY <1>1, <1>4, PendingStays DEF Kinds
  <2>2. PICK m \in Messages : m = Head(mailbox) /\ m = mailbox[1]
    BY <2>1, TailOutcome DEF HandleMessage
  <2>3. m.age \in 0 .. Latency
    BY MessageFields
  <2>4. sessions'[u] = m.age
    BY <2>1, <2>2 DEF HandleMessage, UdpTypeOK
  <2> QED
    BY <1>0, <1>3, <2>3, <2>4
<1>5. CASE ~Pending(o, u, "session")
  <2>1. sessions[u] \in Age /\ sessions[u] <= registered[o][u] + Latency
    BY <1>2, <1>5 DEF Kept
  <2>2. /\ sessions'[u] \in Age
        /\ sessions'[u] = sessions[u] \/ sessions'[u] <= Latency
           \/ (Tick /\ sessions'[u] = sessions[u] + 1)
    <3>0. sessions[u] \in Nat /\ Latency \in Nat /\ Minute \in Nat
      BY <1>0, <2>1
    <3>1. sessions[u] <= Minute
      BY <1>3, <2>1, <3>0
    <3> QED
      BY <2>1, <3>1, SessionBefore
  <2>3. Tick => registered'[o][u] = registered[o][u] + 1
    BY <1>0, <1>2, <1>3 DEF Tick, Older, Age, Expired, Fresh
  <2> QED
    <3>1. PICK r, r1, t, t1 : /\ r = registered[o][u] /\ r1 = registered'[o][u]
                              /\ t = sessions[u] /\ t1 = sessions'[u]
      OBVIOUS
    <3>2. /\ r \in Nat /\ r1 \in Nat /\ t \in Nat /\ t1 \in Nat
          /\ r1 = r \/ r1 = r + 1
          /\ t <= r + Latency
          /\ t1 = t \/ t1 <= Latency \/ (t1 = t + 1 /\ r1 = r + 1)
      <4>1. r \in Nat /\ r1 \in Nat /\ t \in Nat /\ t1 \in Nat
        BY <1>0, <1>3, <2>1, <2>2, <3>1
      <4>2. (r1 = r \/ r1 = r + 1) /\ t <= r + Latency
        BY <1>2, <2>1, <3>1
      <4>3. CASE Tick
        BY <2>2, <2>3, <3>1, <4>1, <4>2, <4>3
      <4>4. CASE ~Tick
        BY <2>2, <3>1, <4>1, <4>2, <4>4
      <4> QED
        BY <4>3, <4>4
    <3>3. t1 <= r1 + Latency
      BY <3>2
    <3> QED
      BY <2>2, <3>1, <3>3
<1> QED
  BY <1>4, <1>5

(* Whoever was answered finds its session while its registration is valid, *)
(* for any number of offers racing through the mailbox, parked or not:     *)
(* ClearData never takes one early (AnsweredHasSession).                   *)
THEOREM AnsweredUsersHaveSessions == UdpSpec => []AnsweredHasSession
<1>1. UdpInit => UdpTypeOK /\ Orderly /\ Kept
  BY TypeInit, OrderlyInit, KeptInit
<1>2. UdpTypeOK /\ Orderly /\ Kept /\ [UdpNext]_udpVars => (UdpTypeOK /\ Orderly /\ Kept)'
  BY TypeStep, OrderlyStep, KeptStep
<1>3. UdpTypeOK /\ Orderly /\ Kept => AnsweredHasSession
  <2> SUFFICES ASSUME UdpTypeOK, Orderly, Kept, NEW o \in Offer, NEW u \in User, StillValid(o, u)
               PROVE  sessions[u] # None
    BY DEF AnsweredHasSession
  <2>1. waits[o] = {}
    BY DEF Orderly, StillValid
  <2>2. ~Pending(o, u, "session")
    BY <2>1, UdpRecvAssumption DEF Orderly, Pending
  <2>3. sessions[u] \in Age
    BY <2>2 DEF Kept, Fresh, StillValid
  <2> QED
    BY <2>3, UdpRecvAssumption DEF Age
<1> QED
  BY <1>1, <1>2, <1>3, PTL DEF UdpSpec

-----------------------------------------------------------------------------
(* From here on the mailbox never overflowed, so that nothing is parked.   *)
LEMMA PairedStep ==
  ASSUME UdpTypeOK, Paired, [UdpNext]_udpVars, ~crowded'
  PROVE  Paired'
<1> USE UdpRecvAssumption
<1>0. /\ Len(mailbox) \in Nat /\ (mailbox # << >> <=> 1 \in Box)
      /\ \A i \in Box : /\ i \in Nat /\ mailbox[i] \in Messages
                        /\ mailbox[i].kind \in Kinds /\ mailbox[i].user \in User
                        /\ mailbox[i].age \in 0 .. Latency
      /\ Box \subseteq Nat
  <2>1. /\ Len(mailbox) \in Nat /\ Box \subseteq Nat /\ (mailbox # << >> <=> 1 \in Box)
        /\ \A i \in Box : mailbox[i] \in Messages
    BY DEF UdpTypeOK, Box
  <2> QED
    BY <2>1, MessageFields
<1>1. CASE \E o \in Offer : ReceiveOffer(o) \/ AnswerOffer(o)
  <2>1. mailbox' = mailbox /\ parked' = parked /\ sessions' = sessions
    BY <1>1 DEF ReceiveOffer, AnswerOffer, recvVars, queueVars
  <2> QED
    BY <2>1 DEF Paired, Box
<1>2. ASSUME NEW o \in Offer, CloseOffer(o) PROVE Paired'
  <2>1. /\ Box' = Box /\ (mailbox' # << >> => 1 \in Box)
        /\ \A i \in Box :
              /\ mailbox'[i].kind = mailbox[i].kind /\ mailbox'[i].user = mailbox[i].user
              /\ mailbox'[i].age = mailbox[i].age
              /\ mailbox'[i].offer = IF mailbox[i].offer = o THEN None ELSE mailbox[i].offer
    BY <1>0, <1>2, CloseOutcome DEF Box
  <2>2. sessions' = sessions /\ parked' = {}
    BY <1>2 DEF CloseOffer, Paired, recvVars
  <2> QED
    <3>1. \A i \in Box : mailbox[i].kind = "session" =>
                         i + 1 \in Box /\ Follows(mailbox'[i + 1], mailbox'[i])
      BY <2>1 DEF Paired, Follows
    <3>2. \A i \in Box : mailbox[i].kind = "media" /\ i # 1 =>
                         i - 1 \in Box /\ Follows(mailbox'[i], mailbox'[i - 1])
      BY <2>1 DEF Paired, Follows
    <3>3. mailbox' # << >> /\ mailbox'[1].kind = "media" =>
            sessions'[mailbox'[1].user] = mailbox'[1].age
      BY <1>0, <2>1, <2>2 DEF Paired
    <3> QED
      BY <2>1, <2>2, <3>1, <3>2, <3>3 DEF Paired
<1>3. ASSUME NEW o \in Offer, NEW u \in User, SendLine(o, u) PROVE Paired'
  <2>1. PICK s, m : /\ s = Message("session", o, u) /\ m = Message("media", o, u)
                    /\ s \in Messages /\ m \in Messages /\ Follows(m, s)
    BY NewMessage DEF Kinds, Follows
  <2>2. /\ Box' = 1 .. Len(mailbox) + 2 /\ mailbox' # << >>
        /\ \A i \in Box : mailbox'[i] = mailbox[i]
        /\ mailbox'[Len(mailbox) + 1] = s /\ mailbox'[Len(mailbox) + 2] = m
    <3>1. mailbox' = mailbox \o <<s, m>>
      BY <1>3, <2>1 DEF SendLine
    <3> QED
      BY <2>1, <3>1, AppendTwoOutcome DEF Box
  <2>3. parked' = {} /\ sessions' = sessions
    BY <1>3 DEF SendLine, Paired, recvVars
  <2>4. \A i \in Box' : i \in Box \/ i = Len(mailbox) + 1 \/ i = Len(mailbox) + 2
    BY <1>0, <2>2 DEF Box
  <2>5. Len(mailbox) + 1 \in Box' /\ Len(mailbox) + 2 \in Box' /\ Box \subseteq Box'
    BY <1>0, <2>2 DEF Box
  <2>6. ASSUME NEW i \in Box', mailbox'[i].kind = "session"
        PROVE  i + 1 \in Box' /\ Follows(mailbox'[i + 1], mailbox'[i])
    <3>1. CASE i \in Box
      BY <2>2, <2>5, <2>6, <3>1 DEF Paired
    <3>2. CASE i = Len(mailbox) + 1
      BY <1>0, <2>1, <2>2, <2>5, <3>2
    <3> QED
      BY <2>1, <2>2, <2>4, <2>6, <3>1, <3>2 DEF Follows
  <2>7. ASSUME NEW i \in Box', mailbox'[i].kind = "media", i # 1
        PROVE  i - 1 \in Box' /\ Follows(mailbox'[i], mailbox'[i - 1])
    <3>1. CASE i \in Box
      BY <2>2, <2>5, <2>7, <3>1 DEF Paired
    <3>2. CASE i = Len(mailbox) + 2
      BY <1>0, <2>1, <2>2, <2>5, <3>2
    <3> QED
      BY <2>1, <2>2, <2>4, <2>7, <3>1, <3>2 DEF Follows
  <2>8. mailbox'[1].kind = "media" => 1 \in Box
    BY <1>0, <2>1, <2>2, <2>4 DEF Follows, Box
  <2> QED
    BY <1>0, <2>2, <2>3, <2>6, <2>7, <2>8 DEF Paired
<1>4. ASSUME HandleMessage PROVE Paired'
  <2>1. /\ 1 \in Box /\ Head(mailbox) = mailbox[1]
        /\ Box' = 1 .. Len(mailbox) - 1
        /\ \A i \in Box' : mailbox'[i] = mailbox[i + 1]
        /\ (mailbox' # << >> => 1 \in Box')
    BY <1>0, <1>4, TailOutcome DEF HandleMessage, Box
  <2>2. \A i \in Box' : i \in Nat /\ i + 1 \in Box /\ i + 1 # 1 /\ (i # 1 => i - 1 \in Box')
    BY <1>0, <2>1 DEF Box
  <2>3. \A i \in Box' : i + 2 \in Box => i + 1 \in Box'
    BY <1>0, <2>1 DEF Box
  <2>4. ASSUME NEW i \in Box', mailbox'[i].kind = "session"
        PROVE  i + 1 \in Box' /\ Follows(mailbox'[i + 1], mailbox'[i])
    <3>1. (i + 1) + 1 \in Box /\ Follows(mailbox[(i + 1) + 1], mailbox[i + 1])
      BY <2>1, <2>2, <2>4 DEF Paired
    <3>2. (i + 1) + 1 = i + 2
      BY <2>2
    <3>3. i + 1 \in Box'
      BY <2>3, <3>1, <3>2
    <3> QED
      BY <2>1, <3>1, <3>3
  <2>5. ASSUME NEW i \in Box', mailbox'[i].kind = "media", i # 1
        PROVE  i - 1 \in Box' /\ Follows(mailbox'[i], mailbox'[i - 1])
    <3>1. Follows(mailbox[i + 1], mailbox[(i + 1) - 1])
      BY <2>1, <2>2, <2>5 DEF Paired
    <3>2. (i + 1) - 1 = i /\ (i - 1) + 1 = i
      BY <2>2
    <3> QED
      BY <2>1, <2>2, <2>5, <3>1, <3>2
  <2>6. ASSUME mailbox' # << >>, mailbox'[1].kind = "media"
        PROVE  sessions'[mailbox'[1].user] = mailbox'[1].age
    <3>1. mailbox'[1] = mailbox[2] /\ 2 \in Box /\ 2 # 1
      BY <2>1, <2>2, <2>6
    <3>2. Follows(mailbox[2], mailbox[1])
      BY <2>6, <3>1 DEF Paired
    <3>3. sessions' = [sessions EXCEPT ![mailbox[1].user] = mailbox[1].age]
      BY <1>4, <2>1, <3>2 DEF HandleMessage, Follows
    <3>4. mailbox[1].user \in User /\ mailbox[1].user = mailbox[2].user /\ mailbox[1].age = mailbox[2].age
      BY <1>0, <2>1, <3>2 DEF Follows
    <3> QED
      BY <3>1, <3>3, <3>4 DEF UdpTypeOK
  <2>7. parked' = {}
    BY <1>4 DEF HandleMessage, Paired
  <2> QED
    BY <2>4, <2>5, <2>6, <2>7 DEF Paired
<1>5. ASSUME ClearData PROVE Paired'
  <2>1. mailbox' = mailbox /\ parked' = parked /\ Box' = Box
    BY <1>5 DEF ClearData, queueVars, Box
  <2>2. ASSUME mailbox # << >>, mailbox[1].kind = "media"
        PROVE  sessions'[mailbox[1].user] = mailbox[1].age
    <3>1. PICK u, a : u = mailbox[1].user /\ a = mailbox[1].age
      OBVIOUS
    <3>2. u \in User /\ a \in Nat /\ a <= Minute /\ sessions[u] = a
      BY <1>0, <2>2, <3>1 DEF Paired
    <3>3. ~(sessions[u] > Minute)
      BY <3>2
    <3>4. u \notin ToRemove
      BY <3>3, Zenon DEF ToRemove
    <3> QED
      BY <1>5, <3>1, <3>2, <3>4 DEF ClearData
  <2> QED
    BY <2>1, <2>2 DEF Paired
<1>6. ASSUME Tick PROVE Paired'
  <2>1. /\ Box' = Box /\ (mailbox' # << >> => 1 \in Box)
        /\ \A i \in Box :
              /\ mailbox'[i].kind = mailbox[i].kind /\ mailbox'[i].user = mailbox[i].user
              /\ mailbox'[i].offer = mailbox[i].offer
              /\ mailbox'[i].age = mailbox[i].age + 1 /\ mailbox[i].age < Latency
    BY <1>0, <1>6, TickOutcome DEF Box
  <2>2. parked' = {}
    BY <1>6 DEF Tick, Paired
  <2>3. ASSUME mailbox' # << >>, mailbox'[1].kind = "media"
        PROVE  sessions'[mailbox'[1].user] = mailbox'[1].age
    <3>1. PICK u, a : u = mailbox[1].user /\ a = mailbox[1].age
      OBVIOUS
    <3>2. u \in User /\ a \in Nat /\ a < Latency /\ sessions[u] = a
      BY <1>0, <2>1, <2>3, <3>1 DEF Paired
    <3>3. Older(a) = a + 1
      BY <3>2 DEF Older, Age, Expired
    <3>4. sessions'[u] = a + 1
      BY <1>6, <3>2, <3>3 DEF Tick
    <3> QED
      BY <2>1, <2>3, <3>1, <3>4
  <2>4. \A i \in Box : mailbox[i].kind = "session" =>
                       i + 1 \in Box /\ Follows(mailbox'[i + 1], mailbox'[i])
    BY <2>1 DEF Paired, Follows
  <2>5. \A i \in Box : mailbox[i].kind = "media" /\ i # 1 =>
                       i - 1 \in Box /\ Follows(mailbox'[i], mailbox'[i - 1])
    BY <2>1 DEF Paired, Follows
  <2> QED
    BY <2>1, <2>2, <2>3, <2>4, <2>5 DEF Paired
<1>7. CASE UNCHANGED udpVars
  BY <1>7 DEF Paired, Box, udpVars, recvVars, queueVars
<1>8. ASSUME NEW m \in parked PROVE FALSE
  BY <1>8 DEF Paired
<1> QED
  BY <1>1, <1>2, <1>3, <1>4, <1>5, <1>6, <1>7, <1>8 DEF UdpNext

(* The media message is handled before ClearData can drop the session. *)
LEMMA MediaKeptStep ==
  ASSUME UdpTypeOK, Orderly, Kept, Paired, MediaKept, [UdpNext]_udpVars
  PROVE  MediaKept'
<1> USE UdpRecvAssumption
<1> SUFFICES ASSUME NEW o \in Offer, NEW u \in User, Fresh(o, u)',
                    ~Pending(o, u, "session")', ~Pending(o, u, "media")'
             PROVE  u \in media_sessions'
  BY DEF MediaKept
<1>1. ~SendLine(o, u) /\ ~CloseOffer(o)
  BY SentIsPending, FreshBefore DEF Kinds
<1>2. Fresh(o, u)
  BY <1>1, FreshBefore
<1>3. CASE Pending(o, u, "media")
  <2>1. HandleMessage /\ mailbox[1].user = u /\ mailbox[1].kind = "media"
    BY <1>1, <1>3, PendingStays DEF Kinds
  <2>2. Head(mailbox) = mailbox[1]
    BY <2>1, TailOutcome DEF HandleMessage
  <2> QED
    BY <2>1, <2>2 DEF HandleMessage
<1>4. CASE ~Pending(o, u, "media") /\ Pending(o, u, "session")
  <2>1. PICK i \in Box : mailbox[i].offer = o /\ mailbox[i].user = u /\ mailbox[i].kind = "session"
    BY <1>4 DEF Pending, Paired
  <2>2. i + 1 \in Box /\ Follows(mailbox[i + 1], mailbox[i])
    BY <2>1 DEF Paired
  <2>3. Pending(o, u, "media")
    BY <2>1, <2>2 DEF Pending, Follows
  <2> QED
    BY <1>4, <2>3
<1>5. CASE ~Pending(o, u, "media") /\ ~Pending(o, u, "session")
  <2>1. u \in media_sessions
    BY <1>2, <1>5 DEF MediaKept
  <2>2. sessions[u] \in Age /\ sessions[u] <= registered[o][u] + Latency
    BY <1>2, <1>5 DEF Kept
  <2>3. u \notin ToRemove
    <3>1. sessions[u] \in Nat /\ registered[o][u] \in Nat /\ Latency \in Nat /\ Minute \in Nat
      BY <1>2, <2>2 DEF Fresh, Age, Expired
    <3>2. ~(sessions[u] > Minute)
      BY <1>2, <2>2, <3>1 DEF Fresh
    <3> QED
      BY <3>2, Zenon DEF ToRemove
  <2>4. media_sessions \ ToRemove \subseteq media_sessions'
    BY DEF UdpNext, ReceiveOffer, AnswerOffer, CloseOffer, SendLine, Unpark, HandleMessage,
           ClearData, Tick, recvVars, udpVars
  <2> QED
    BY <2>1, <2>3, <2>4
<1> QED
  BY <1>3, <1>4, <1>5

(* A media list comes after its session, and goes with it. *)
LEMMA OwnedStep ==
  ASSUME UdpTypeOK, Paired, Owned, [UdpNext]_udpVars
  PROVE  Owned'
<1> USE UdpRecvAssumption
<1>0. None \notin Age /\ \A a \in 0 .. Latency : a \in Age
  BY DEF Age, Expired
<1>1. ASSUME HandleMessage PROVE Owned'
  <2>1. PICK m \in Messages : m = Head(mailbox) /\ m = mailbox[1] /\ mailbox # << >>
    BY <1>1, TailOutcome DEF HandleMessage
  <2>2. m.user \in User /\ m.age # None
    BY <1>0, MessageFields
  <2>3. CASE m.kind = "session"
    <3>1. sessions' = [sessions EXCEPT ![m.user] = m.age] /\ media_sessions' = media_sessions
      BY <1>1, <2>1, <2>3 DEF HandleMessage
    <3> QED
      BY <2>2, <3>1 DEF Owned, UdpTypeOK
  <2>4. CASE m.kind # "session"
    <3>1. /\ sessions' = sessions /\ media_sessions' = media_sessions \cup {m.user}
          /\ m.kind = "media"
      BY <1>1, <2>1, <2>4 DEF HandleMessage
    <3>2. sessions[m.user] = m.age
      BY <2>1, <3>1 DEF Paired
    <3> QED
      BY <2>2, <3>1, <3>2 DEF Owned
  <2> QED
    BY <2>3, <2>4
<1>2. ASSUME ClearData PROVE Owned'
  BY <1>2 DEF ClearData, Owned, UdpTypeOK
<1>3. ASSUME Tick PROVE Owned'
  <2>1. ASSUME NEW a \in Age PROVE Older(a) # None
    BY DEF Older, Age, Expired
  <2>2. \A u \in media_sessions : u \in User /\ sessions[u] \in Age
    BY DEF Owned, UdpTypeOK
  <2> QED
    BY <1>3, <2>1, <2>2 DEF Tick, Owned
<1>4. CASE \/ \E o \in Offer : ReceiveOffer(o) \/ AnswerOffer(o) \/ CloseOffer(o)
           \/ \E o \in Offer, w \in User : SendLine(o, w)
           \/ \E m \in parked : Unpark(m)
           \/ UNCHANGED udpVars
  <2>1. sessions' = sessions /\ media_sessions' = media_sessions
    BY <1>4 DEF ReceiveOffer, AnswerOffer, CloseOffer, SendLine, Unpark, recvVars, udpVars
  <2> QED
    BY <2>1 DEF Owned
<1> QED
  BY <1>1, <1>2, <1>3, <1>4 DEF UdpNext

CalmInv == UdpTypeOK /\ Orderly /\ Kept /\ (~crowded => Paired /\ MediaKept /\ Owned)

(* All of it together, for as long as the mailbox has room. *)
LEMMA CalmInvariant == UdpSpec => []CalmInv
<1>1. UdpInit => CalmInv
  <2>1. UdpInit => UdpTypeOK /\ Orderly /\ Kept
    BY TypeInit, OrderlyInit, KeptInit
  <2>2. UdpInit => Paired /\ MediaKept /\ Owned
    BY UdpRecvAssumption DEF UdpInit, Paired, MediaKept, Owned, Fresh, Nobody, Box, Age, Expired
  <2> QED
    BY <2>1, <2>2 DEF CalmInv
<1>2. CalmInv /\ [UdpNext]_udpVars => CalmInv'
  <2> SUFFICES ASSUME CalmInv, [UdpNext]_udpVars PROVE CalmInv'
    OBVIOUS
  <2>1. (UdpTypeOK /\ Orderly /\ Kept)'
    BY TypeStep, OrderlyStep, KeptStep DEF CalmInv
  <2>2. ASSUME ~crowded' PROVE ~crowded
    BY <2>2 DEF UdpNext, ReceiveOffer, AnswerOffer, CloseOffer, SendLine, Unpark, HandleMessage,
                ClearData, Tick, queueVars, udpVars
  <2>3. ASSUME ~crowded' PROVE (Paired /\ MediaKept /\ Owned)'
    BY <2>2, <2>3, PairedStep, MediaKeptStep, OwnedStep DEF CalmInv
  <2> QED
    BY <2>1, <2>3 DEF CalmInv
<1> QED
  BY <1>1, <1>2, PTL DEF UdpSpec

(* While the mailbox never overflows, whoever was answered also finds the  *)
(* media list, whatever ClearData removes (AnsweredHasMedia).              *)
THEOREM AnsweredUsersHaveMedia == UdpSpec => []AnsweredHasMedia
<1>1. CalmInv => AnsweredHasMedia
  <2> SUFFICES ASSUME CalmInv, ~crowded, NEW o \in Offer, NEW u \in User, StillValid(o, u)
               PROVE  u \in media_sessions
    BY DEF AnsweredHasMedia
  <2>1. waits[o] = {}
    BY DEF CalmInv, Orderly, StillValid
  <2>2. ~Pending(o, u, "session") /\ ~Pending(o, u, "media")
    BY <2>1, UdpRecvAssumption DEF CalmInv, Orderly, Pending
  <2> QED
    BY <2>2 DEF CalmInv, MediaKept, Fresh, StillValid
<1> QED
  BY <1>1, CalmInvariant, PTL

(* While the mailbox never overflows, no media list is without a session,  *)
(* so ClearData reaches every list it must remove (NoOrphanMedia).         *)
THEOREM MediaListsHaveSessions == UdpSpec => []NoOrphanMedia
<1>1. CalmInv => NoOrphanMedia
  BY DEF CalmInv, NoOrphanMedia, Owned
<1> QED
  BY <1>1, CalmInvariant, PTL

=============================================================================
