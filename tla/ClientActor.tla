------------------------------ MODULE ClientActor ------------------------------
(***************************************************************************)
(* The tables kept by the ClientActor (src/src/client/actor.rs): which     *)
(* Client object stands for which socket address, which address is the     *)
(* sender of a group, and who receives whose media.                        *)
(*                                                                         *)
(* The actor runs on one arbiter thread, so each message handler is one    *)
(* action.  A Client object (src/src/client/clients.rs) outlives its entry *)
(* in client_storage: tasks and receiver tables keep reference-counted     *)
(* pointers to it.  An address may therefore have had several Clients, one *)
(* after the other; they are different members of the set Client.          *)
(*                                                                         *)
(* The packet-driven DTLS work, which decides when a client is opened and  *)
(* when a DeleteMessage is sent, is in module DtlsTasks; here a client may *)
(* be opened or deleted at any time.                                       *)
(***************************************************************************)

CONSTANTS
  Addr,        \* socket addresses (SocketAddr)
  Client,      \* Client objects, allocated one after the other
  Groups,      \* group numbers of /parse_sdp/{group_id}/
  Frequency,   \* clock rates a media list can name
  Roles,       \* values of is_sender that sessions carry
  NoAddr,      \* None of Option<SocketAddr>, and the owner of an unused Client
  NoClient     \* a missing entry of a table of clients

ASSUME ClientActorAssumption ==
  /\ NoAddr \notin Addr
  /\ NoClient \notin Client
  /\ Roles \subseteq BOOLEAN

VARIABLES
  client_storage,  \* ClientsRefStorage: the current client of each address
  groups_storage,  \* GroupsStorage: the sender of each group
  owner,           \* the address a Client was opened for (never changes)
  receivers,       \* Client.receivers, one table per Client
  sender_addr,     \* Client.sender_addr
  is_deleted,      \* Client.is_deleted
  media,           \* Client.media: the frequencies of its list, {} for None
  rtp_runtime,     \* Client.rtp_runtime_storage: the frequencies it has an entry for
  blocked          \* the Client whose receivers lock the actor waits for in vain

feedVars  == <<owner, receivers, sender_addr, is_deleted>>
mediaVars == <<media, rtp_runtime>>
actorVars == <<client_storage, groups_storage, feedVars, mediaVars, blocked>>

NoReceivers == [a \in Addr |-> NoClient]

(* The actor still takes messages: it is not stuck inside a handler. *)
Running == blocked = NoClient

(* ClientsRefStorage::default(), Group::default(); no Client exists yet. *)
ActorInit ==
  /\ client_storage = NoReceivers
  /\ groups_storage = [g \in Groups |-> NoAddr]
  /\ owner = [c \in Client |-> NoAddr]
  /\ receivers = [c \in Client |-> NoReceivers]
  /\ sender_addr = [c \in Client |-> NoAddr]
  /\ is_deleted = [c \in Client |-> FALSE]
  /\ media = [c \in Client |-> {}]
  /\ rtp_runtime = [c \in Client |-> {}]
  /\ blocked = NoClient

-----------------------------------------------------------------------------
(***************************************************************************)
(* Group (src/src/client/group.rs).                                        *)
(***************************************************************************)

(* Wrong on purpose, for mutation: a plain member displaces the sender. *)
InsertSenderAlways(g, a, is_sender) == [groups_storage EXCEPT ![g] = a]

(* The table after insert_or_get_sender: a declared sender overwrites the *)
(* entry, anyone else only fills a missing one.                           *)
InsertSender(g, a, is_sender) ==
  IF is_sender \/ groups_storage[g] = NoAddr
    THEN [groups_storage EXCEPT ![g] = a]
    ELSE groups_storage

(* Wrong on purpose, for mutation: the sender of some group, whichever it is. *)
LastSenderAny(g, a) ==
  LET known == {h \in Groups : groups_storage[h] # NoAddr} IN
  IF known = {} THEN a ELSE groups_storage[CHOOSE h \in known : TRUE]

(* What insert_or_get_sender returns: the entry it found, else the address. *)
LastSender(g, a) ==
  IF groups_storage[g] = NoAddr THEN a ELSE groups_storage[g]

(* remove_sender: every group the address was the sender of loses its entry. *)
RemoveSender(a) ==
  [g \in Groups |-> IF groups_storage[g] = a THEN NoAddr ELSE groups_storage[g]]

-----------------------------------------------------------------------------
(***************************************************************************)
(* The handlers.                                                           *)
(***************************************************************************)

(* The first DTLS packet of an address: entry(addr).or_default() allocates *)
(* a fresh Client.  For an address that has one, the handler leaves these  *)
(* tables alone.                                                           *)
OpenClient(a, c) ==
  /\ Running
  /\ client_storage[a] = NoClient
  /\ owner[c] = NoAddr
  /\ owner' = [owner EXCEPT ![c] = a]
  /\ client_storage' = [client_storage EXCEPT ![a] = c]
  /\ UNCHANGED <<groups_storage, receivers, sender_addr, is_deleted, mediaVars, blocked>>

(* Wrong on purpose, for mutation: delete() is never called. *)
MarkDeletedNot(c) == is_deleted

(* Client::delete raises the flag that forwarding looks at. *)
MarkDeleted(c) == [is_deleted EXCEPT ![c] = TRUE]

(* Wrong on purpose, for mutation: the table is filtered before delete(). *)
KeepLiveReceiversEarly(c) ==
  [a \in Addr |->
     IF receivers[c][a] # NoClient /\ is_deleted[receivers[c][a]]
       THEN NoClient ELSE receivers[c][a]]

(* Wrong on purpose, for mutation: a deleted client forgets everyone. *)
KeepNoReceivers(c) == NoReceivers

(* The receivers left in the table of a client that was just deleted. The *)
(* filter runs after client.delete(), so the client drops itself too.     *)
KeepLiveReceivers(c) ==
  [a \in Addr |->
     IF receivers[c][a] # NoClient /\ MarkDeleted(c)[receivers[c][a]]
       THEN NoClient ELSE receivers[c][a]]

(* Wrong on purpose, for mutation: the client is not removed, only marked. *)
DeleteMessageKeepsEntry(a) ==
  LET c == client_storage[a] IN
  /\ Running
  /\ c # NoClient
  /\ groups_storage' = RemoveSender(a)
  /\ is_deleted' = MarkDeleted(c)
  /\ receivers' = [receivers EXCEPT ![c] = KeepLiveReceivers(c)]
  /\ UNCHANGED <<client_storage, owner, sender_addr, mediaVars, blocked>>

(* Handler<DeleteMessage>: by address, whoever the current client is.  It *)
(* answers true whether or not there was one.                             *)
DeleteMessage(a) ==
  LET c == client_storage[a] IN
  /\ Running
  /\ \/ /\ c = NoClient
        /\ UNCHANGED actorVars
     \/ /\ c # NoClient
        /\ client_storage' = [client_storage EXCEPT ![a] = NoClient]
        /\ groups_storage' = RemoveSender(a)
        /\ is_deleted' = MarkDeleted(c)
        /\ receivers' = [receivers EXCEPT ![c] = KeepLiveReceivers(c)]
        /\ UNCHANGED <<owner, sender_addr, mediaVars, blocked>>

(* Handler<GroupId>, once the sender is looked up and both clients exist. *)
(* A declared sender that displaces another one takes the old sender's    *)
(* receivers write lock (line 200) and then asks for its read lock (line  *)
(* 204).  The lock is not reentrant: the thread waits for itself, and the *)
(* code below that line is never reached.                                 *)
Handover(last) ==
  /\ blocked' = client_storage[last]
  /\ UNCHANGED feedVars

(* Otherwise the client is added to the sender's receivers; a declared    *)
(* sender that is already the sender of the group is added to its own.    *)
Attach(last, a) ==
  LET s == client_storage[last]
      r == client_storage[a] IN
  /\ receivers' = [receivers EXCEPT ![s][a] = r]
  /\ sender_addr' = [sender_addr EXCEPT ![r] = last]
  /\ UNCHANGED <<owner, is_deleted, blocked>>

(* Wrong on purpose, for mutation: the early return is gone. *)
ReturnsEarlyNot(last, a, is_sender) == FALSE

(* The early return: a member that has just become, or already is, the *)
(* sender of its group has nobody to receive from.                     *)
ReturnsEarly(last, a, is_sender) == last = a /\ ~is_sender

(* Wrong on purpose, for mutation: every member displaces the sender. *)
DisplacesAlways(last, a, is_sender) == last # a

Displaces(last, a, is_sender) == last # a /\ is_sender

(* Handler<GroupId>: a binding request of a known session arrived from a. *)
GroupId(g, a, is_sender) ==
  LET last == LastSender(g, a)
      both == client_storage[a] # NoClient /\ client_storage[last] # NoClient IN
  /\ Running
  /\ groups_storage' = InsertSender(g, a, is_sender)
  /\ \/ /\ ReturnsEarly(last, a, is_sender) \/ ~both
        /\ UNCHANGED <<feedVars, blocked>>
     \/ /\ ~ReturnsEarly(last, a, is_sender) /\ both
        /\ Displaces(last, a, is_sender)
        /\ Handover(last)
     \/ /\ ~ReturnsEarly(last, a, is_sender) /\ both
        /\ ~Displaces(last, a, is_sender)
        /\ Attach(last, a)
  /\ UNCHANGED <<client_storage, mediaVars>>

(* Every frequency of the list gets an entry; the existing ones stay. *)
OpenRuntimes(c, freqs) == rtp_runtime[c] \cup freqs

(* Handler<MediaAddrMessage>: dropped when the address has no client yet. *)
MediaAddr(a, freqs) ==
  LET c == client_storage[a] IN
  /\ Running
  /\ c # NoClient
  /\ rtp_runtime' = [rtp_runtime EXCEPT ![c] = OpenRuntimes(c, freqs)]
  /\ media' = [media EXCEPT ![c] = freqs]
  /\ UNCHANGED <<client_storage, groups_storage, feedVars, blocked>>

ActorNext ==
  \/ \E a \in Addr, c \in Client : OpenClient(a, c)
  \/ \E a \in Addr : DeleteMessage(a)
  \/ \E g \in Groups, a \in Addr, is_sender \in Roles : GroupId(g, a, is_sender)
  \/ \E a \in Addr, freqs \in SUBSET Frequency : MediaAddr(a, freqs)

ActorSpec == ActorInit /\ [][ActorNext]_actorVars

-----------------------------------------------------------------------------
(***************************************************************************)
(* Properties.                                                             *)
(***************************************************************************)

(* Type invariant of the registry and of every Client object: each table *)
(* of actor.rs and clients.rs keeps its keys, and holds what it may hold. *)
ActorTypeOK ==
  /\ client_storage \in [Addr -> Client \cup {NoClient}]
  /\ groups_storage \in [Groups -> Addr \cup {NoAddr}]
  /\ owner \in [Client -> Addr \cup {NoAddr}]
  /\ receivers \in [Client -> [Addr -> Client \cup {NoClient}]]
  /\ sender_addr \in [Client -> Addr \cup {NoAddr}]
  /\ is_deleted \in [Client -> BOOLEAN]
  /\ media \in [Client -> SUBSET Frequency]
  /\ rtp_runtime \in [Client -> SUBSET Frequency]
  /\ blocked \in Client \cup {NoClient}

(* A Client that was opened and not deleted. *)
Live(c) == owner[c] # NoAddr /\ ~is_deleted[c]

(* c forwards its media to r, which it looks up under the address a. *)
Feeds(c, a, r) == receivers[c][a] = r /\ r # NoClient

(* The address table and the deleted flags agree: a Client is the current *)
(* client of the address it was opened for exactly as long as it lives.   *)
StorageIsLive ==
  \A c \in Client, a \in Addr : client_storage[a] = c <=> (owner[c] = a /\ Live(c))

(* A Client that was never opened is as Client::default() makes it. *)
UnusedIsFresh ==
  \A c \in Client :
    owner[c] = NoAddr =>
      receivers[c] = NoReceivers /\ sender_addr[c] = NoAddr /\ ~is_deleted[c]

(* Forwarding (rtc_actor.rs:181-184) skips a receiver by its deleted flag *)
(* alone and sends to the address it is filed under.  So every entry must *)
(* be filed under the address of its Client, and one that is not deleted  *)
(* must still be that address's current client: packets are never         *)
(* encrypted with the keys of a connection that was replaced.             *)
ReceiverIsCurrent ==
  \A c, r \in Client, a \in Addr :
    Feeds(c, a, r) => owner[r] = a /\ (~is_deleted[r] => client_storage[a] = r)

(* RTCP of a live client goes to sender_addr (rtc_actor.rs:162): that     *)
(* address was, at some time, the address of a client that lists it among *)
(* its receivers, and the listing is never lost while it lives.           *)
FeedbackPathListed ==
  \A r \in Client :
    Live(r) /\ sender_addr[r] # NoAddr =>
      \E c \in Client : owner[c] = sender_addr[r] /\ Feeds(c, owner[r], r)

(* The receiver tables hold reference-counted pointers.  Deleted clients  *)
(* never keep one another alive: in every set of deleted clients one has  *)
(* no pointer into the set, so no cycle of pointers survives deletion.    *)
LeakFree ==
  \A S \in SUBSET {c \in Client : is_deleted[c]} :
    S # {} => \E c \in S : \A a \in Addr : receivers[c][a] \notin S

(* The RTP path (rtc_actor.rs:101-107) needs a runtime for the frequency  *)
(* of every payload type the media list names; later lists keep them all. *)
RuntimeCoversMedia == \A c \in Client : media[c] \subseteq rtp_runtime[c]

(* What the proofs carry from step to step, whatever roles sessions have. *)
ActorInv ==
  /\ ActorTypeOK
  /\ StorageIsLive
  /\ UnusedIsFresh
  /\ ReceiverIsCurrent
  /\ FeedbackPathListed
  /\ LeakFree
  /\ RuntimeCoversMedia

(* When no session declares itself a sender: whoever forwards media is    *)
(* the sender of a group, so a replaced or departed sender feeds nobody.  *)
FeederIsGroupSender ==
  \A c, r \in Client, a \in Addr :
    Live(c) /\ Feeds(c, a, r) => \E g \in Groups : groups_storage[g] = owner[c]

(* When no session declares itself a sender: nobody is its own receiver.  *)
NoSelfFeed == \A c \in Client, a \in Addr : ~Feeds(c, a, c)

(* When no session declares itself a sender: the actor never waits for a  *)
(* lock it holds itself.                                                  *)
NeverBlocked == Running

(* A deleted client never comes back: it is not put into any table again. *)
DeletedStaysOut ==
  [][\A c \in Client : is_deleted[c] =>
       /\ is_deleted'[c]
       /\ \A a \in Addr : client_storage'[a] # c
       /\ \A s \in Client, a \in Addr : receivers'[s][a] = c => receivers[s][a] = c]_actorVars

=============================================================================
