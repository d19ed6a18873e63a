-------------------------- MODULE ClientActor_proofs --------------------------
(***************************************************************************)
(* Proofs about the registry, for any number of addresses, clients, groups *)
(* and clock rates.  ActorInv is inductive for all sessions; MembersInv    *)
(* adds what holds as long as no session declares itself a sender.         *)
(***************************************************************************)
EXTENDS ClientActor, TLAPS

(* The current client of an address is a live Client opened for it. *)
LEMMA CurrentIsLive ==
  ASSUME ActorTypeOK, StorageIsLive, NEW a \in Addr, client_storage[a] # NoClient
  PROVE  /\ client_storage[a] \in Client
         /\ owner[client_storage[a]] = a
         /\ ~is_deleted[client_storage[a]]
<1>1. client_storage[a] \in Client
  BY DEF ActorTypeOK
<1> QED
  BY <1>1 DEF StorageIsLive, Live

(* Handler<GroupId> names a sender that is an address, and its three       *)
(* outcomes are: nothing fed, the actor stuck, or one receiver attached.   *)
LEMMA GroupIdOutcome ==
  ASSUME ActorTypeOK,
         NEW g \in Groups, NEW a \in Addr, NEW is_sender \in Roles,
         GroupId(g, a, is_sender)
  PROVE  /\ LastSender(g, a) \in Addr
         /\ UNCHANGED <<client_storage, mediaVars>>
         /\ \/ UNCHANGED <<feedVars, blocked>>
            \/ /\ Displaces(LastSender(g, a), a, is_sender)
               /\ client_storage[LastSender(g, a)] # NoClient
               /\ Handover(LastSender(g, a))
            \/ /\ ~ReturnsEarly(LastSender(g, a), a, is_sender)
               /\ client_storage[a] # NoClient
               /\ client_storage[LastSender(g, a)] # NoClient
               /\ Attach(LastSender(g, a), a)
<1>1. LastSender(g, a) \in Addr
  BY DEF ActorTypeOK, LastSender
<1> QED
  BY <1>1 DEF GroupId

(* Handler<DeleteMessage> for an address that has a client. *)
LEMMA DeleteOutcome ==
  ASSUME NEW a \in Addr, DeleteMessage(a), client_storage[a] # NoClient
  PROVE  /\ client_storage' = [client_storage EXCEPT ![a] = NoClient]
         /\ groups_storage' = RemoveSender(a)
         /\ is_deleted' = [is_deleted EXCEPT ![client_storage[a]] = TRUE]
         /\ receivers' = [receivers EXCEPT ![client_storage[a]] =
                                            KeepLiveReceivers(client_storage[a])]
         /\ UNCHANGED <<owner, sender_addr, media, rtp_runtime, blocked>>
BY DEF DeleteMessage, MarkDeleted, actorVars, feedVars, mediaVars

(* Every handler keeps the tables well typed. *)
LEMMA TypeStep ==
  ASSUME ActorTypeOK, StorageIsLive, [ActorNext]_actorVars
  PROVE  ActorTypeOK'
<1> USE ClientActorAssumption
<1>1. ASSUME NEW a \in Addr, NEW c \in Client, OpenClient(a, c)
      PROVE  ActorTypeOK'
  BY <1>1 DEF ActorTypeOK, OpenClient, mediaVars
<1>2. ASSUME NEW a \in Addr, DeleteMessage(a)
      PROVE  ActorTypeOK'
  <2>1. CASE client_storage[a] = NoClient
    BY <1>2, <2>1 DEF DeleteMessage, ActorTypeOK, actorVars, feedVars, mediaVars
  <2>2. CASE client_storage[a] # NoClient
    <3>1. client_storage[a] \in Client
      BY <2>2, CurrentIsLive
    <3>2. KeepLiveReceivers(client_storage[a]) \in [Addr -> Client \cup {NoClient}]
      BY <3>1 DEF KeepLiveReceivers, ActorTypeOK
    <3>3. RemoveSender(a) \in [Groups -> Addr \cup {NoAddr}]
      BY DEF RemoveSender, ActorTypeOK
    <3>4. receivers' \in [Client -> [Addr -> Client \cup {NoClient}]]
      BY <1>2, <2>2, <3>1, <3>2, DeleteOutcome DEF ActorTypeOK
    <3>5. is_deleted' \in [Client -> BOOLEAN]
      BY <1>2, <2>2, DeleteOutcome DEF ActorTypeOK
    <3>6. client_storage' \in [Addr -> Client \cup {NoClient}]
      BY <1>2, <2>2, DeleteOutcome DEF ActorTypeOK
    <3> QED
      BY <1>2, <2>2, <3>3, <3>4, <3>5, <3>6, DeleteOutcome DEF ActorTypeOK
  <2> QED
    BY <2>1, <2>2
<1>3. ASSUME NEW g \in Groups, NEW a \in Addr, NEW is_sender \in Roles,
             GroupId(g, a, is_sender)
      PROVE  ActorTypeOK'
  <2> DEFINE last == LastSender(g, a)
  <2>1. groups_storage' \in [Groups -> Addr \cup {NoAddr}]
    BY <1>3 DEF GroupId, InsertSender, ActorTypeOK
  <2>2. CASE UNCHANGED <<feedVars, blocked>>
    BY <1>3, <2>1, <2>2, GroupIdOutcome DEF ActorTypeOK, feedVars, mediaVars
  <2>3. CASE client_storage[last] # NoClient /\ Handover(last)
    BY <1>3, <2>1, <2>3, GroupIdOutcome, CurrentIsLive
    DEF ActorTypeOK, Handover, feedVars, mediaVars
  <2>4. CASE /\ client_storage[a] # NoClient /\ client_storage[last] # NoClient
             /\ Attach(last, a)
    <3>1. client_storage[a] \in Client /\ client_storage[last] \in Client /\ last \in Addr
      BY <1>3, <2>4, GroupIdOutcome, CurrentIsLive
    <3> QED
      BY <1>3, <2>1, <2>4, <3>1, GroupIdOutcome DEF ActorTypeOK, Attach, mediaVars
  <2> QED
    BY <1>3, <2>2, <2>3, <2>4, GroupIdOutcome
<1>4. ASSUME NEW a \in Addr, NEW freqs \in SUBSET Frequency, MediaAddr(a, freqs)
      PROVE  ActorTypeOK'
  <2>1. client_storage[a] \in Client
    BY <1>4, CurrentIsLive DEF MediaAddr
  <2> QED
    BY <1>4, <2>1 DEF MediaAddr, OpenRuntimes, ActorTypeOK, feedVars
<1>5. CASE UNCHANGED actorVars
  BY <1>5 DEF ActorTypeOK, actorVars, feedVars, mediaVars
<1> QED
  BY <1>1, <1>2, <1>3, <1>4, <1>5 DEF ActorNext

-----------------------------------------------------------------------------
(* The part of ActorInv about who is listed and who feeds whom. *)
FeedInv ==
  StorageIsLive /\ UnusedIsFresh /\ ReceiverIsCurrent /\ FeedbackPathListed /\ LeakFree

(* FeedInv speaks of these variables only. *)
LEMMA FeedUnchanged ==
  ASSUME FeedInv, UNCHANGED <<client_storage, feedVars>>
  PROVE  FeedInv'
BY DEF FeedInv, StorageIsLive, UnusedIsFresh, ReceiverIsCurrent, FeedbackPathListed,
       LeakFree, Live, Feeds, feedVars

(* A fresh client has no receivers and is in no table: it disturbs nothing. *)
LEMMA OpenKeepsFeed ==
  ASSUME ActorTypeOK, FeedInv, NEW a \in Addr, NEW c \in Client, OpenClient(a, c)
  PROVE  FeedInv'
<1> USE ClientActorAssumption
<1>1. /\ owner[c] = NoAddr /\ client_storage[a] = NoClient
      /\ owner' = [owner EXCEPT ![c] = a]
      /\ client_storage' = [client_storage EXCEPT ![a] = c]
      /\ UNCHANGED <<receivers, sender_addr, is_deleted>>
  BY DEF OpenClient
<1>2. ~is_deleted[c] /\ sender_addr[c] = NoAddr
  BY <1>1 DEF FeedInv, UnusedIsFresh
<1>3. StorageIsLive'
  BY <1>1, <1>2 DEF FeedInv, StorageIsLive, Live, ActorTypeOK
<1>4. UnusedIsFresh'
  BY <1>1 DEF FeedInv, UnusedIsFresh, ActorTypeOK
<1>5. ReceiverIsCurrent'
  BY <1>1 DEF FeedInv, ReceiverIsCurrent, Feeds, ActorTypeOK
<1>6. FeedbackPathListed'
  <2> SUFFICES ASSUME NEW r \in Client, Live(r)', sender_addr[r] # NoAddr
               PROVE  \E d \in Client : owner'[d] = sender_addr[r] /\ receivers[d][owner'[r]] = r
    BY <1>1, ClientActorAssumption DEF FeedbackPathListed, Feeds
  <2>1. r # c /\ owner'[r] = owner[r] /\ Live(r)
    BY <1>1, <1>2 DEF Live, ActorTypeOK
  <2>2. PICK d \in Client : owner[d] = sender_addr[r] /\ receivers[d][owner[r]] = r
    BY <2>1 DEF FeedInv, FeedbackPathListed, Feeds
  <2>3. d # c
    BY <1>1, <2>2
  <2> QED
    BY <1>1, <2>1, <2>2, <2>3 DEF ActorTypeOK
<1>7. LeakFree'
  BY <1>1 DEF FeedInv, LeakFree
<1> QED
  BY <1>3, <1>4, <1>5, <1>6, <1>7 DEF FeedInv

(* The receivers a deleted client keeps are the ones that still live. *)
LEMMA KeptReceivers ==
  ASSUME ActorTypeOK, NEW c \in Client, NEW a \in Addr
  PROVE  /\ KeepLiveReceivers(c)[a] \in {receivers[c][a], NoClient}
         /\ KeepLiveReceivers(c)[a] # NoClient =>
              KeepLiveReceivers(c)[a] # c /\ ~is_deleted[KeepLiveReceivers(c)[a]]
         /\ receivers[c][a] # NoClient /\ receivers[c][a] # c /\ ~is_deleted[receivers[c][a]]
              => KeepLiveReceivers(c)[a] = receivers[c][a]
<1> QED
  BY ClientActorAssumption DEF KeepLiveReceivers, MarkDeleted, ActorTypeOK

(* Deleting: the entries lost are those of deleted clients, and the newly  *)
(* deleted client points to none, which keeps the pointers acyclic.        *)
LEMMA DeleteKeepsFeed ==
  ASSUME ActorTypeOK, FeedInv, NEW a \in Addr, DeleteMessage(a)
  PROVE  FeedInv'
<1> USE ClientActorAssumption
<1>0. CASE client_storage[a] = NoClient
  BY <1>0, FeedUnchanged DEF DeleteMessage, actorVars
<1> SUFFICES ASSUME client_storage[a] # NoClient
             PROVE  FeedInv'
  BY <1>0
<1> DEFINE c == client_storage[a]
<1>1. c \in Client /\ owner[c] = a /\ ~is_deleted[c]
  BY CurrentIsLive DEF FeedInv
<1> HIDE DEF c
<1>2. /\ client_storage' = [client_storage EXCEPT ![a] = NoClient]
      /\ is_deleted' = [is_deleted EXCEPT ![c] = TRUE]
      /\ receivers' = [receivers EXCEPT ![c] = KeepLiveReceivers(c)]
      /\ UNCHANGED <<owner, sender_addr>>
  BY DeleteOutcome DEF c
<1>3. client_storage[a] = c
  BY DEF c
<1>4. StorageIsLive'
  BY <1>1, <1>2, <1>3 DEF FeedInv, StorageIsLive, Live, ActorTypeOK
<1>5. UnusedIsFresh'
  BY <1>1, <1>2 DEF FeedInv, UnusedIsFresh, ActorTypeOK
<1>6. ASSUME NEW d \in Client, NEW b \in Addr, receivers'[d][b] # NoClient
      PROVE  receivers'[d][b] = receivers[d][b]
  BY <1>1, <1>2, <1>6, KeptReceivers DEF ActorTypeOK
<1>7. ReceiverIsCurrent'
  <2> SUFFICES ASSUME NEW d \in Client, NEW r \in Client, NEW b \in Addr,
                      receivers'[d][b] = r
               PROVE  owner[r] = b /\ (~is_deleted'[r] => client_storage'[b] = r)
    BY <1>2 DEF ReceiverIsCurrent, Feeds
  <2>1. receivers[d][b] = r
    BY <1>6
  <2>2. owner[r] = b /\ (~is_deleted[r] => client_storage[b] = r)
    BY <2>1 DEF FeedInv, ReceiverIsCurrent, Feeds
  <2> QED
    BY <2>2, <1>1, <1>2, <1>3 DEF ActorTypeOK
<1>8. FeedbackPathListed'
  <2> SUFFICES ASSUME NEW r \in Client, Live(r)', sender_addr[r] # NoAddr
               PROVE  \E d \in Client : owner[d] = sender_addr[r] /\ receivers'[d][owner[r]] = r
    BY <1>2 DEF FeedbackPathListed, Feeds
  <2>1. Live(r) /\ r # c /\ owner[r] \in Addr
    BY <1>1, <1>2 DEF Live, ActorTypeOK
  <2>2. PICK d \in Client : owner[d] = sender_addr[r] /\ receivers[d][owner[r]] = r
    BY <2>1 DEF FeedInv, FeedbackPathListed, Feeds
  <2>3. receivers'[d][owner[r]] = r
    BY <1>1, <1>2, <2>1, <2>2, KeptReceivers DEF Live, ActorTypeOK
  <2> QED
    BY <2>2, <2>3
<1>9. LeakFree'
  <2> SUFFICES ASSUME NEW S \in SUBSET {d \in Client : is_deleted'[d]}, S # {}
               PROVE  \E d \in S : \A b \in Addr : receivers'[d][b] \notin S
    BY DEF LeakFree
  <2>1. CASE c \in S
    <3>1. ASSUME NEW b \in Addr PROVE receivers'[c][b] \notin S
      <4>1. receivers'[c][b] = KeepLiveReceivers(c)[b]
        BY <1>1, <1>2 DEF ActorTypeOK
      <4>2. SUFFICES ASSUME receivers'[c][b] \in Client, is_deleted'[receivers'[c][b]]
                     PROVE  FALSE
        OBVIOUS
      <4>3. receivers'[c][b] # c /\ ~is_deleted[receivers'[c][b]]
        BY <4>1, <4>2, <1>1, KeptReceivers
      <4> QED
        BY <4>2, <4>3, <1>2 DEF ActorTypeOK
    <3> QED
      BY <2>1, <3>1
  <2>2. CASE c \notin S
    <3>1. S \in SUBSET {d \in Client : is_deleted[d]}
      BY <1>1, <1>2, <2>2 DEF ActorTypeOK
    <3>2. PICK d \in S : \A b \in Addr : receivers[d][b] \notin S
      BY <3>1 DEF FeedInv, LeakFree
    <3> QED
      BY <1>2, <2>2, <3>1, <3>2 DEF ActorTypeOK
  <2> QED
    BY <2>1, <2>2
<1> QED
  BY <1>4, <1>5, <1>7, <1>8, <1>9 DEF FeedInv

(* Attaching: both ends are current and live, the entry that is replaced   *)
(* belongs to a deleted predecessor, and only a live client gains one.     *)
LEMMA AttachKeepsFeed ==
  ASSUME ActorTypeOK, FeedInv, NEW last \in Addr, NEW a \in Addr,
         client_storage[last] # NoClient, client_storage[a] # NoClient,
         Attach(last, a), UNCHANGED client_storage
  PROVE  FeedInv'
<1> USE ClientActorAssumption
<1> DEFINE s == client_storage[last]
           r == client_storage[a]
<1>1. /\ s \in Client /\ owner[s] = last /\ ~is_deleted[s]
      /\ r \in Client /\ owner[r] = a /\ ~is_deleted[r]
      /\ client_storage[a] = r
  BY CurrentIsLive DEF FeedInv
<1>2. /\ receivers' = [receivers EXCEPT ![s][a] = r]
      /\ sender_addr' = [sender_addr EXCEPT ![r] = last]
      /\ UNCHANGED <<owner, is_deleted, client_storage>>
  BY DEF Attach
<1> HIDE DEF s, r
<1>3. StorageIsLive'
  BY <1>2 DEF FeedInv, StorageIsLive, Live
<1>4. UnusedIsFresh'
  BY <1>1, <1>2 DEF FeedInv, UnusedIsFresh, ActorTypeOK
<1>5. ReceiverIsCurrent'
  BY <1>1, <1>2 DEF FeedInv, ReceiverIsCurrent, Feeds, ActorTypeOK
<1>6. FeedbackPathListed'
  <2> SUFFICES ASSUME NEW q \in Client, Live(q), sender_addr'[q] # NoAddr
               PROVE  \E d \in Client : owner[d] = sender_addr'[q] /\ receivers'[d][owner[q]] = q
    BY <1>2 DEF FeedbackPathListed, Feeds, Live
  <2>1. CASE q = r
    BY <2>1, <1>1, <1>2 DEF ActorTypeOK
  <2>2. CASE q # r
    <3>1. sender_addr'[q] = sender_addr[q]
      BY <2>2, <1>2 DEF ActorTypeOK
    <3>2. PICK d \in Client : owner[d] = sender_addr[q] /\ receivers[d][owner[q]] = q
      BY <3>1 DEF FeedInv, FeedbackPathListed, Feeds
    <3>3. owner[q] # a
      BY <2>2, <1>1 DEF FeedInv, StorageIsLive
    <3>4. receivers'[d][owner[q]] = q
      BY <1>1, <1>2, <3>2, <3>3 DEF ActorTypeOK, Live
    <3> QED
      BY <3>1, <3>2, <3>4
  <2> QED
    BY <2>1, <2>2
<1>7. LeakFree'
  <2> SUFFICES ASSUME NEW S \in SUBSET {d \in Client : is_deleted[d]}, S # {}
               PROVE  \E d \in S : \A b \in Addr : receivers'[d][b] \notin S
    BY <1>2 DEF LeakFree
  <2>1. PICK d \in S : \A b \in Addr : receivers[d][b] \notin S
    BY DEF FeedInv, LeakFree
  <2> QED
    BY <2>1, <1>1, <1>2 DEF ActorTypeOK
<1> QED
  BY <1>3, <1>4, <1>5, <1>6, <1>7 DEF FeedInv

(* A media list opens its runtimes before it is stored (MediaAddrMessage). *)
LEMMA MediaStep ==
  ASSUME ActorTypeOK, StorageIsLive, RuntimeCoversMedia, [ActorNext]_actorVars
  PROVE  RuntimeCoversMedia'
<1>1. ASSUME NEW a \in Addr, NEW freqs \in SUBSET Frequency, MediaAddr(a, freqs)
      PROVE  RuntimeCoversMedia'
  <2>1. client_storage[a] \in Client
    BY <1>1, CurrentIsLive DEF MediaAddr
  <2> QED
    BY <1>1, <2>1 DEF MediaAddr, OpenRuntimes, RuntimeCoversMedia, ActorTypeOK
<1>2. CASE UNCHANGED mediaVars
  BY <1>2 DEF RuntimeCoversMedia, mediaVars
<1> QED
  BY <1>1, <1>2 DEF ActorNext, OpenClient, DeleteMessage, GroupId, actorVars, mediaVars

(* ActorInv is inductive. *)
LEMMA ActorInvStep ==
  ASSUME ActorInv, [ActorNext]_actorVars
  PROVE  ActorInv'
<1> USE DEF ActorInv
<1>1. ActorTypeOK'
  BY TypeStep
<1>2. RuntimeCoversMedia'
  BY MediaStep
<1>3. FeedInv
  BY DEF FeedInv
<1>4. FeedInv'
  <2>1. ASSUME NEW a \in Addr, NEW c \in Client, OpenClient(a, c)
        PROVE  FeedInv'
    BY <1>3, <2>1, OpenKeepsFeed
  <2>2. ASSUME NEW a \in Addr, DeleteMessage(a)
        PROVE  FeedInv'
    BY <1>3, <2>2, DeleteKeepsFeed
  <2>3. ASSUME NEW g \in Groups, NEW a \in Addr, NEW is_sender \in Roles,
               GroupId(g, a, is_sender)
        PROVE  FeedInv'
    <3> DEFINE last == LastSender(g, a)
    <3>1. CASE UNCHANGED feedVars
      BY <1>3, <2>3, <3>1, FeedUnchanged, GroupIdOutcome
    <3>2. CASE /\ client_storage[a] # NoClient /\ client_storage[last] # NoClient
               /\ Attach(last, a)
      BY <1>3, <2>3, <3>2, AttachKeepsFeed, GroupIdOutcome
    <3> QED
      BY <2>3, <3>1, <3>2, GroupIdOutcome DEF Handover
  <2>4. ASSUME NEW a \in Addr, NEW freqs \in SUBSET Frequency, MediaAddr(a, freqs)
        PROVE  FeedInv'
    BY <1>3, <2>4, FeedUnchanged DEF MediaAddr
  <2>5. CASE UNCHANGED actorVars
    BY <1>3, <2>5, FeedUnchanged DEF actorVars
  <2> QED
    BY <2>1, <2>2, <2>3, <2>4, <2>5 DEF ActorNext
<1> QED
  BY <1>1, <1>2, <1>4 DEF FeedInv

(* A Client keeps the address it was opened for. *)
LEMMA OwnersStay ==
  ASSUME ActorTypeOK, [ActorNext]_actorVars
  PROVE  \A c \in Client : owner[c] # NoAddr => owner'[c] = owner[c]
<1>1. ASSUME NEW a \in Addr, NEW c \in Client, OpenClient(a, c)
      PROVE  \A d \in Client : owner[d] # NoAddr => owner'[d] = owner[d]
  BY <1>1 DEF OpenClient, ActorTypeOK
<1>2. CASE UNCHANGED owner
  BY <1>2
<1> QED
  BY <1>1, <1>2 DEF ActorNext, DeleteMessage, GroupId, Handover, Attach, MediaAddr, actorVars,
                    feedVars

(* No client exists at the start, so nothing can be wrong. *)
LEMMA ActorInvInit == ActorInit => ActorInv
<1> SUFFICES ASSUME ActorInit PROVE ActorInv
  OBVIOUS
<1> USE ClientActorAssumption DEF ActorInit, NoReceivers
<1>1. ActorTypeOK
  BY DEF ActorTypeOK
<1>2. StorageIsLive /\ UnusedIsFresh /\ ReceiverIsCurrent
  BY DEF StorageIsLive, UnusedIsFresh, ReceiverIsCurrent, Live, Feeds
<1>3. FeedbackPathListed /\ LeakFree /\ RuntimeCoversMedia
  BY DEF FeedbackPathListed, LeakFree, RuntimeCoversMedia, Live
<1> QED
  BY <1>1, <1>2, <1>3 DEF ActorInv

(* The registry always satisfies ActorInv. *)
THEOREM ActorInvariant == ActorSpec => []ActorInv
BY ActorInvInit, ActorInvStep, PTL DEF ActorSpec

(* The tables are always well typed. *)
THEOREM ActorTypeCorrect == ActorSpec => []ActorTypeOK
<1>1. ActorInv => ActorTypeOK
  BY DEF ActorInv
<1> QED
  BY <1>1, ActorInvariant, PTL

(* The address table lists a client exactly while it lives, across         *)
(* reconnects and deletions (StorageIsLive).                               *)
THEOREM ListedClientsAreLive == ActorSpec => []StorageIsLive
<1>1. ActorInv => StorageIsLive
  BY DEF ActorInv
<1> QED
  BY <1>1, ActorInvariant, PTL

(* However often its media list is replaced, a client has a runtime for    *)
(* every frequency the list names (RuntimeCoversMedia).                    *)
THEOREM MediaHasRuntimes == ActorSpec => []RuntimeCoversMedia
<1>1. ActorInv => RuntimeCoversMedia
  BY DEF ActorInv
<1> QED
  BY <1>1, ActorInvariant, PTL

(* Packets are only ever forwarded with the keys of the current client of  *)
(* the address they are sent to.                                           *)
THEOREM ReceiversAreCurrent == ActorSpec => []ReceiverIsCurrent
<1>1. ActorInv => ReceiverIsCurrent
  BY DEF ActorInv
<1> QED
  BY <1>1, ActorInvariant, PTL

(* The RTCP of a live receiver goes to an address that lists it. *)
THEOREM FeedbackIsListed == ActorSpec => []FeedbackPathListed
<1>1. ActorInv => FeedbackPathListed
  BY DEF ActorInv
<1> QED
  BY <1>1, ActorInvariant, PTL

(* The pointers between deleted clients are acyclic: their memory is freed. *)
THEOREM DeletedClientsAreFreed == ActorSpec => []LeakFree
<1>1. ActorInv => LeakFree
  BY DEF ActorInv
<1> QED
  BY <1>1, ActorInvariant, PTL

-----------------------------------------------------------------------------
(* A deleted client is never put into a table again. *)
THEOREM DeletedClientsStayOut == ActorSpec => DeletedStaysOut
<1> DEFINE StaysOut ==
      \A c \in Client : is_deleted[c] =>
        /\ is_deleted'[c]
        /\ \A a \in Addr : client_storage'[a] # c
        /\ \A s \in Client, a \in Addr : receivers'[s][a] = c => receivers[s][a] = c
<1>1. ASSUME ActorInv, [ActorNext]_actorVars, ActorInv'
      PROVE  StaysOut
  <2> SUFFICES ASSUME NEW c \in Client, is_deleted[c]
               PROVE  /\ is_deleted'[c]
                      /\ \A s \in Client, a \in Addr :
                           receivers'[s][a] = c => receivers[s][a] = c
    BY <1>1 DEF ActorInv, StorageIsLive, Live
  <2> USE <1>1 DEF ActorInv
  <2>1. ASSUME NEW a \in Addr, DeleteMessage(a), client_storage[a] # NoClient
        PROVE  /\ is_deleted'[c]
               /\ \A s \in Client, b \in Addr :
                    receivers'[s][b] = c => receivers[s][b] = c
    <3>1. client_storage[a] \in Client
      BY <2>1, CurrentIsLive
    <3>2. is_deleted'[c]
      BY <2>1, <3>1, DeleteOutcome DEF ActorTypeOK
    <3>3. ASSUME NEW s \in Client, NEW b \in Addr, receivers'[s][b] = c
          PROVE  receivers[s][b] = c
      <4>1. CASE s = client_storage[a]
        <5>1. receivers'[s][b] = KeepLiveReceivers(s)[b]
          BY <2>1, <3>1, <4>1, DeleteOutcome DEF ActorTypeOK
        <5> QED
          BY <3>3, <5>1, KeptReceivers, ClientActorAssumption
      <4>2. CASE s # client_storage[a]
        BY <2>1, <3>1, <3>3, <4>2, DeleteOutcome DEF ActorTypeOK
      <4> QED
        BY <4>1, <4>2
    <3> QED
      BY <3>2, <3>3
  <2>2. ASSUME NEW g \in Groups, NEW a \in Addr, NEW is_sender \in Roles,
               GroupId(g, a, is_sender)
        PROVE  /\ is_deleted'[c]
               /\ \A s \in Client, b \in Addr :
                    receivers'[s][b] = c => receivers[s][b] = c
    <3> DEFINE last == LastSender(g, a)
    <3>1. CASE UNCHANGED feedVars
      BY <3>1 DEF feedVars
    <3>2. CASE /\ client_storage[a] # NoClient /\ client_storage[last] # NoClient
               /\ Attach(last, a)
      <4>1. client_storage[a] # c /\ client_storage[last] \in Client
        BY <2>2, <3>2, CurrentIsLive, GroupIdOutcome
      <4> QED
        BY <3>2, <4>1 DEF Attach, ActorTypeOK
    <3> QED
      BY <2>2, <3>1, <3>2, GroupIdOutcome DEF Handover
  <2>3. CASE UNCHANGED <<receivers, is_deleted>>
    BY <2>3
  <2> QED
    BY <2>1, <2>2, <2>3 DEF ActorNext, OpenClient, DeleteMessage, MediaAddr, actorVars, feedVars
<1>2. ActorInv /\ [ActorNext]_actorVars /\ ActorInv' => [StaysOut]_actorVars
  BY <1>1
<1> QED
  BY <1>2, ActorInvariant, PTL DEF ActorSpec, DeletedStaysOut

-----------------------------------------------------------------------------
(* What holds, besides, while no session declares itself a sender. *)
MembersInv == FeederIsGroupSender /\ NoSelfFeed /\ NeverBlocked

(* The only way to become a sender is then to find the group without one,  *)
(* and the only way to stop is to be deleted.                              *)
LEMMA MembersStep ==
  ASSUME Roles = {FALSE}, ActorInv, MembersInv, [ActorNext]_actorVars
  PROVE  MembersInv'
<1> USE ClientActorAssumption DEF ActorInv, MembersInv
<1>1. ASSUME NEW a \in Addr, NEW c \in Client, OpenClient(a, c)
      PROVE  MembersInv'
  <2>1. /\ owner[c] = NoAddr /\ receivers[c] = NoReceivers
        /\ owner' = [owner EXCEPT ![c] = a]
        /\ UNCHANGED <<groups_storage, receivers, is_deleted, blocked>>
    BY <1>1 DEF OpenClient, UnusedIsFresh
  <2>2. FeederIsGroupSender'
    BY <2>1 DEF FeederIsGroupSender, Feeds, Live, NoReceivers, ActorTypeOK
  <2>3. NoSelfFeed' /\ NeverBlocked'
    BY <2>1 DEF NoSelfFeed, Feeds, NeverBlocked, Running
  <2> QED
    BY <2>2, <2>3
<1>2. ASSUME NEW a \in Addr, DeleteMessage(a), client_storage[a] # NoClient
      PROVE  MembersInv'
  <2> DEFINE c == client_storage[a]
  <2>1. c \in Client /\ owner[c] = a /\ ~is_deleted[c]
    BY <1>2, CurrentIsLive
  <2>2. /\ groups_storage' = RemoveSender(a)
        /\ is_deleted' = [is_deleted EXCEPT ![c] = TRUE]
        /\ receivers' = [receivers EXCEPT ![c] = KeepLiveReceivers(c)]
        /\ UNCHANGED <<owner, blocked>>
    BY <1>2, DeleteOutcome
  <2>3. FeederIsGroupSender'
    <3> SUFFICES ASSUME NEW d \in Client, NEW r \in Client, NEW b \in Addr,
                        Live(d)', receivers'[d][b] = r
                 PROVE  \E g \in Groups : groups_storage'[g] = owner[d]
      BY <2>2 DEF FeederIsGroupSender, Feeds
    <3>1. d # c /\ Live(d)
      BY <2>1, <2>2 DEF Live, ActorTypeOK
    <3>2. receivers[d][b] = r
      BY <2>1, <2>2, <3>1 DEF ActorTypeOK
    <3>3. PICK g \in Groups : groups_storage[g] = owner[d]
      BY <3>1, <3>2 DEF FeederIsGroupSender, Feeds
    <3>4. owner[d] # a
      BY <3>1 DEF StorageIsLive
    <3> QED
      BY <2>2, <3>3, <3>4 DEF RemoveSender
  <2>4. NoSelfFeed'
    <3> SUFFICES ASSUME NEW d \in Client, NEW b \in Addr, receivers'[d][b] = d
                 PROVE  FALSE
      BY DEF NoSelfFeed, Feeds
    <3>1. CASE d = c
      <4>1. receivers'[c][b] = KeepLiveReceivers(c)[b]
        BY <2>1, <2>2 DEF ActorTypeOK
      <4> QED
        BY <2>1, <3>1, <4>1, KeptReceivers
    <3>2. CASE d # c
      BY <2>1, <2>2, <3>2 DEF NoSelfFeed, Feeds, ActorTypeOK
    <3> QED
      BY <3>1, <3>2
  <2>5. NeverBlocked'
    BY <2>2 DEF NeverBlocked, Running
  <2> QED
    BY <2>3, <2>4, <2>5
<1>3. ASSUME NEW g \in Groups, NEW a \in Addr, NEW is_sender \in Roles,
             GroupId(g, a, is_sender)
      PROVE  MembersInv'
  <2> DEFINE last == LastSender(g, a)
  <2>1. is_sender = FALSE /\ ~Displaces(last, a, is_sender)
    BY DEF Displaces
  <2>2. \A h \in Groups : groups_storage[h] # NoAddr => groups_storage'[h] = groups_storage[h]
    BY <1>3, <2>1 DEF GroupId, InsertSender, ActorTypeOK
  <2>3. CASE UNCHANGED <<feedVars, blocked>>
    BY <2>2, <2>3 DEF FeederIsGroupSender, NoSelfFeed, NeverBlocked, Running, Feeds, Live, feedVars
  <2>4. CASE /\ ~ReturnsEarly(last, a, is_sender)
             /\ client_storage[a] # NoClient /\ client_storage[last] # NoClient
             /\ Attach(last, a)
    <3> DEFINE s == client_storage[last]
               r == client_storage[a]
    <3>1. last # a /\ groups_storage[g] = last /\ last \in Addr
      BY <1>3, <2>1, <2>4, GroupIdOutcome DEF ReturnsEarly, LastSender
    <3>2. s \in Client /\ owner[s] = last /\ r \in Client /\ owner[r] = a
      BY <2>4, <3>1, CurrentIsLive
    <3>3. /\ receivers' = [receivers EXCEPT ![s][a] = r]
          /\ UNCHANGED <<owner, is_deleted, blocked>>
      BY <2>4 DEF Attach
    <3> HIDE DEF s, r
    <3>4. FeederIsGroupSender'
      <4> SUFFICES ASSUME NEW d \in Client, NEW q \in Client, NEW b \in Addr,
                          Live(d), receivers'[d][b] = q
                   PROVE  \E h \in Groups : groups_storage'[h] = owner[d]
        BY <3>3 DEF FeederIsGroupSender, Feeds, Live
      <4>1. CASE d = s
        BY <2>2, <3>1, <3>2, <4>1
      <4>2. CASE d # s
        <5>1. receivers[d][b] = q
          BY <3>2, <3>3, <4>2 DEF ActorTypeOK
        <5>2. PICK h \in Groups : groups_storage[h] = owner[d]
          BY <5>1 DEF FeederIsGroupSender, Feeds
        <5> QED
          BY <2>2, <5>2 DEF Live
      <4> QED
        BY <4>1, <4>2
    <3>5. NoSelfFeed'
      BY <3>1, <3>2, <3>3 DEF NoSelfFeed, Feeds, ActorTypeOK
    <3> QED
      BY <3>3, <3>4, <3>5 DEF NeverBlocked, Running
  <2> QED
    BY <1>3, <2>1, <2>3, <2>4, GroupIdOutcome
<1>4. CASE UNCHANGED <<groups_storage, owner, receivers, is_deleted, blocked>>
  BY <1>4 DEF FeederIsGroupSender, NoSelfFeed, NeverBlocked, Running, Feeds, Live
<1> QED
  BY <1>1, <1>2, <1>3, <1>4 DEF ActorNext, DeleteMessage, MediaAddr, actorVars, feedVars

(* At the start nobody feeds anybody. *)
LEMMA MembersInit == ActorInit => MembersInv
BY ClientActorAssumption
DEF ActorInit, NoReceivers, MembersInv, FeederIsGroupSender, NoSelfFeed, NeverBlocked,
    Running, Feeds, Live

(* While every session is a plain member: the actor is never stuck on its  *)
(* own lock, nobody receives its own media, and whoever feeds others is    *)
(* the sender of a group.                                                  *)
THEOREM MembersAreFedBySenders ==
  ASSUME Roles = {FALSE}
  PROVE  ActorSpec => [](FeederIsGroupSender /\ NoSelfFeed /\ NeverBlocked)
<1>1. ActorInv /\ MembersInv /\ [ActorNext]_actorVars => MembersInv'
  BY MembersStep
<1>2. ActorSpec => []MembersInv
  BY <1>1, MembersInit, ActorInvariant, PTL DEF ActorSpec
<1> QED
  BY <1>2, PTL DEF MembersInv

(* While every session is a plain member, no client is in its own          *)
(* receivers table (NoSelfFeed).                                           *)
THEOREM MembersDoNotFeedThemselves ==
  ASSUME Roles = {FALSE}
  PROVE  ActorSpec => []NoSelfFeed
BY MembersAreFedBySenders, PTL

(* While every session is a plain member, Handler<GroupId> never asks for  *)
(* a lock the actor already holds (NeverBlocked).                          *)
THEOREM MembersNeverBlockTheActor ==
  ASSUME Roles = {FALSE}
  PROVE  ActorSpec => []NeverBlocked
BY MembersAreFedBySenders, PTL

=============================================================================
