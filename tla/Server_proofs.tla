----------------------------- MODULE Server_proofs -----------------------------
(***************************************************************************)
(* Proofs about module Server, for any number of users, addresses, groups  *)
(* and clients, and for sessions of either role. A step of Server is a     *)
(* step of ClientActor or leaves its tables alone, so ActorInv holds; to   *)
(* it is added where group numbers come from: messages and entries of      *)
(* groups_storage only name addresses that users of the group sent from.   *)
(***************************************************************************)
EXTENDS Server, ClientActor_proofs

ServerTypeOK ==
  /\ sessions \in [User -> SUBSET (Groups \X Roles)]
  /\ media_sessions \in [User -> SUBSET Frequency]
  /\ messages \subseteq AllMessages

(* Requests, and the entries they lead to, are of users of the group. *)
GroupsAreJoined ==
  /\ \A m \in messages : m.kind = "group" => <<m.group, m.addr>> \in joined
  /\ \A g \in Groups : groups_storage[g] # NoAddr => <<g, groups_storage[g]>> \in joined

ServerInv == ServerTypeOK /\ GroupsAreJoined /\ MediaStaysInGroup

(* What the messages of a binding request carry. *)
LEMMA MessageFields ==
  ASSUME NEW m \in AllMessages
  PROVE  /\ m.kind \in {"group", "media"} /\ m.addr \in Addr
         /\ m.kind = "group" => m.group \in Groups /\ m.is_sender \in Roles
         /\ m.kind = "media" => m.freqs \in SUBSET Frequency
BY DEF AllMessages, GroupMessage, MediaMessage

(* A step of Server is a step of ClientActor, or leaves the registry       *)
(* alone.                                                                  *)
LEMMA StepActor ==
  ASSUME ServerTypeOK, [ServerNext]_serverVars
  PROVE  [ActorNext]_actorVars
<1>1. ASSUME NEW m \in messages, Handle(m) PROVE [ActorNext]_actorVars
  <2>1. m \in AllMessages
    BY DEF ServerTypeOK
  <2> QED
    BY <1>1, <2>1, MessageFields DEF Handle, ActorNext
<1>2. CASE Dtls
  BY <1>2 DEF Dtls, ActorNext
<1> QED
  BY <1>1, <1>2 DEF ServerNext, Register, RegisterMedia, Expire, Stun, serverVars

(* Registrations, requests and expiries keep the tables' types. *)
LEMMA ServerTypeStep ==
  ASSUME ServerTypeOK, [ServerNext]_serverVars
  PROVE  ServerTypeOK'
<1> USE DEF ServerTypeOK
<1>1. ASSUME NEW u \in User, NEW a \in Addr, Stun(u, a) PROVE ServerTypeOK'
  <2>1. Requests(u, a) \subseteq AllMessages
    <3>1. \A s \in sessions[u] : s[1] \in Groups /\ s[2] \in Roles
      OBVIOUS
    <3>2. media_sessions[u] \in SUBSET Frequency
      OBVIOUS
    <3>3. {GroupMessage(s[1], a, s[2]) : s \in sessions[u]} \subseteq AllMessages
      BY <3>1 DEF AllMessages
    <3>4. ASSUME NEW f \in {media_sessions[u]} \ {{}} PROVE MediaMessage(a, f) \in AllMessages
      <4>1. f = media_sessions[u] /\ f # {}
        BY <3>4
      <4>2. f \in (SUBSET Frequency) \ {{}}
        BY <3>2, <4>1
      <4> QED
        BY <4>2 DEF AllMessages
    <3> QED
      BY <3>3, <3>4 DEF Requests
  <2> QED
    BY <1>1, <2>1 DEF Stun, userVars
<1>2. ASSUME NEW m \in messages, Handle(m) PROVE ServerTypeOK'
  BY <1>2 DEF Handle, userVars
<1>3. ASSUME NEW u \in User, NEW g \in Groups, NEW is_sender \in Roles,
             Register(u, g, is_sender)
      PROVE  ServerTypeOK'
  BY <1>3 DEF Register
<1>4. ASSUME NEW u \in User, NEW freqs \in SUBSET Frequency, RegisterMedia(u, freqs)
      PROVE  ServerTypeOK'
  BY <1>4 DEF RegisterMedia
<1>5. ASSUME NEW old \in SUBSET User, Expire(old) PROVE ServerTypeOK'
  BY <1>5 DEF Expire
<1>6. CASE Dtls \/ UNCHANGED serverVars
  BY <1>6 DEF Dtls, serverVars, userVars
<1> QED
  BY <1>1, <1>2, <1>3, <1>4, <1>5, <1>6 DEF ServerNext

(* A step that adds no pointer keeps media in its group, whoever joins. *)
LEMMA NoNewPointer ==
  ASSUME ActorTypeOK, MediaStaysInGroup, joined \subseteq joined',
         \A c \in Client : sender_addr'[c] = sender_addr[c],
         \A c \in Client, a \in Addr : receivers'[c][a] \in {receivers[c][a], NoClient},
         \A c \in Client : owner'[c] = owner[c]
                           \/ (receivers[c] = NoReceivers /\ sender_addr[c] = NoAddr)
  PROVE  MediaStaysInGroup'
<1> SUFFICES ASSUME NEW c \in Client
             PROVE  /\ \A a \in Addr, r \in Client :
                         Feeds(c, a, r)' => Together(owner[c], a)'
                    /\ sender_addr'[c] # NoAddr => Together(owner[c], sender_addr[c])'
  BY DEF MediaStaysInGroup
<1>1. \A a, b : Together(a, b) => \E g \in Groups : <<g, a>> \in joined' /\ <<g, b>> \in joined'
  BY DEF Together
<1>2. ASSUME NEW a \in Addr, NEW r \in Client, Feeds(c, a, r)'
      PROVE  Together(owner[c], a)'
  <2>1. Feeds(c, a, r)
    BY <1>2 DEF Feeds
  <2>2. Together(owner[c], a) /\ owner'[c] = owner[c]
    BY <2>1, ClientActorAssumption DEF MediaStaysInGroup, Feeds, NoReceivers
  <2> QED
    BY <1>1, <2>2 DEF Together
<1>3. ASSUME sender_addr'[c] # NoAddr PROVE Together(owner[c], sender_addr[c])'
  <2>1. Together(owner[c], sender_addr[c]) /\ owner'[c] = owner[c]
    BY <1>3 DEF MediaStaysInGroup
  <2> QED
    BY <1>1, <2>1 DEF Together
<1> QED
  BY <1>2, <1>3

(* Handler<GroupId>: both ends of a new pointer are in the group. *)
LEMMA GroupStep ==
  ASSUME ActorInv, ServerInv, NEW m \in messages, m.kind = "group",
         GroupId(m.group, m.addr, m.is_sender), joined' = joined, messages' \subseteq messages
  PROVE  GroupsAreJoined' /\ MediaStaysInGroup'
<1>1. PICK g \in Groups, a \in Addr, i \in Roles :
         g = m.group /\ a = m.addr /\ i = m.is_sender /\ <<g, a>> \in joined
  BY MessageFields DEF ServerInv, ServerTypeOK, GroupsAreJoined
<1>2. GroupId(g, a, i)
  BY <1>1
<1>3. PICK last \in Addr : last = LastSender(g, a) /\ <<g, last>> \in joined
  BY <1>1 DEF LastSender, ServerInv, GroupsAreJoined, ActorInv, ActorTypeOK
<1>4. GroupsAreJoined'
  <2>1. groups_storage' \in {groups_storage, [groups_storage EXCEPT ![g] = a]}
    BY <1>2 DEF GroupId, InsertSender
  <2> QED
    BY <1>1, <2>1 DEF ServerInv, GroupsAreJoined, ActorInv, ActorTypeOK
<1>5. CASE UNCHANGED feedVars
  <2>1. MediaStaysInGroup'
    BY <1>5 DEF ServerInv, MediaStaysInGroup, Feeds, Together, feedVars
  <2> QED
    BY <1>4, <2>1
<1>6. CASE /\ client_storage[a] # NoClient /\ client_storage[last] # NoClient
           /\ Attach(last, a)
  <2>1. PICK s \in Client, r \in Client :
          /\ s = client_storage[last] /\ r = client_storage[a]
          /\ owner[s] = last /\ owner[r] = a
    BY <1>6, CurrentIsLive DEF ActorInv
  <2>2. /\ receivers' = [receivers EXCEPT ![s] = [receivers[s] EXCEPT ![a] = r]]
        /\ sender_addr' = [sender_addr EXCEPT ![r] = last]
        /\ owner' = owner
    BY <1>6, <2>1 DEF Attach
  <2>3. \A x, y : Together(x, y)' <=> Together(x, y)
    BY DEF Together
  <2>4. Together(last, a) /\ Together(a, last)
    BY <1>1, <1>3 DEF Together
  <2>5. ASSUME NEW c \in Client, NEW b \in Addr, NEW q \in Client, receivers'[c][b] = q,
               q # NoClient
        PROVE  Together(owner[c], b)
    <3>1. CASE c = s /\ b = a
      BY <2>1, <2>4, <3>1
    <3>2. CASE ~(c = s /\ b = a)
      BY <2>2, <2>5, <3>2 DEF ServerInv, MediaStaysInGroup, Feeds, ActorInv, ActorTypeOK
    <3> QED
      BY <3>1, <3>2
  <2>6. ASSUME NEW c \in Client, sender_addr'[c] # NoAddr
        PROVE  Together(owner[c], sender_addr'[c])
    <3>1. CASE c = r
      BY <2>1, <2>2, <2>4, <3>1 DEF ActorInv, ActorTypeOK
    <3>2. CASE c # r
      BY <2>2, <2>6, <3>2 DEF ServerInv, MediaStaysInGroup, ActorInv, ActorTypeOK
    <3> QED
      BY <3>1, <3>2
  <2>7. MediaStaysInGroup'
    BY <2>2, <2>5, <2>6 DEF MediaStaysInGroup, Feeds, Together
  <2> QED
    BY <1>4, <2>7
<1> QED
  BY <1>2, <1>3, <1>4, <1>5, <1>6, GroupIdOutcome DEF ActorInv, Handover

(* Users stay joined, so what was said of their groups stays true. *)
LEMMA ServerInvStep ==
  ASSUME ActorInv, ServerInv, [ServerNext]_serverVars
  PROVE  ServerInv'
<1>1. ServerTypeOK'
  BY ServerTypeStep DEF ServerInv
<1>2. ASSUME NEW u \in User, NEW a \in Addr, Stun(u, a)
      PROVE  GroupsAreJoined' /\ MediaStaysInGroup'
  <2>1. joined' = joined \cup {<<s[1], a>> : s \in sessions[u]}
    BY <1>2 DEF Stun
  <2>2. ASSUME NEW m \in messages', m.kind = "group" PROVE <<m.group, m.addr>> \in joined'
    <3>1. CASE m \in messages
      BY <2>1, <2>2, <3>1 DEF ServerInv, GroupsAreJoined
    <3>2. CASE m \in Requests(u, a)
      <4>1. PICK s \in sessions[u] : m = GroupMessage(s[1], a, s[2])
        BY <2>2, <3>2 DEF Requests, MediaMessage
      <4> QED
        BY <2>1, <4>1 DEF GroupMessage
    <3> QED
      BY <1>2, <3>1, <3>2 DEF Stun
  <2>3. UNCHANGED <<groups_storage, owner, receivers, sender_addr>>
    BY <1>2 DEF Stun, actorVars, feedVars
  <2>4. GroupsAreJoined'
    BY <2>1, <2>2, <2>3 DEF ServerInv, GroupsAreJoined
  <2> QED
    BY <2>1, <2>3, <2>4, NoNewPointer DEF ServerInv, ActorInv
<1>3. ASSUME NEW m \in messages, Handle(m)
      PROVE  GroupsAreJoined' /\ MediaStaysInGroup'
  <2>1. joined' = joined /\ messages' \subseteq messages
    BY <1>3 DEF Handle
  <2>2. CASE m.kind = "group" /\ GroupId(m.group, m.addr, m.is_sender)
    BY <2>1, <2>2, GroupStep
  <2>3. CASE UNCHANGED <<groups_storage, owner, receivers, sender_addr>>
    BY <2>1, <2>3 DEF ServerInv, GroupsAreJoined, MediaStaysInGroup, Feeds, Together
  <2> QED
    BY <1>3, <2>2, <2>3 DEF Handle, MediaAddr, actorVars, feedVars
<1>4. ASSUME joined' = joined, messages' = messages, NEW a \in Addr, NEW c \in Client,
             OpenClient(a, c)
      PROVE  GroupsAreJoined' /\ MediaStaysInGroup'
  <2>1. GroupsAreJoined'
    BY <1>4 DEF OpenClient, ServerInv, GroupsAreJoined
  <2>2. receivers[c] = NoReceivers /\ sender_addr[c] = NoAddr
    BY <1>4 DEF OpenClient, ActorInv, UnusedIsFresh
  <2> QED
    BY <1>4, <2>1, <2>2, NoNewPointer DEF OpenClient, ServerInv, ActorInv, ActorTypeOK
<1>5. ASSUME joined' = joined, messages' = messages, NEW a \in Addr, DeleteMessage(a),
             client_storage[a] # NoClient
      PROVE  GroupsAreJoined' /\ MediaStaysInGroup'
  <2>1. PICK c \in Client : c = client_storage[a]
    BY <1>5, CurrentIsLive DEF ActorInv
  <2>2. /\ groups_storage' = RemoveSender(a)
        /\ receivers' = [receivers EXCEPT ![c] = KeepLiveReceivers(c)]
        /\ UNCHANGED <<owner, sender_addr>>
    BY <1>5, <2>1, DeleteOutcome
  <2>3. GroupsAreJoined'
    BY <1>5, <2>2 DEF RemoveSender, ServerInv, GroupsAreJoined
  <2>4. ASSUME NEW d \in Client, NEW b \in Addr
        PROVE  receivers'[d][b] \in {receivers[d][b], NoClient}
    BY <2>1, <2>2 DEF KeepLiveReceivers, ActorInv, ActorTypeOK
  <2> QED
    BY <1>5, <2>2, <2>3, <2>4, NoNewPointer DEF ServerInv, ActorInv
<1>6. ASSUME UNCHANGED <<groups_storage, owner, receivers, sender_addr, messages, joined>>
      PROVE  GroupsAreJoined' /\ MediaStaysInGroup'
  BY <1>6 DEF ServerInv, GroupsAreJoined, MediaStaysInGroup, Feeds, Together
<1>7. CASE Dtls
  BY <1>4, <1>5, <1>6, <1>7, <1>1 DEF Dtls, DeleteMessage, actorVars, feedVars, ServerInv
<1> QED
  BY <1>1, <1>2, <1>3, <1>6, <1>7
  DEF ServerInv, ServerNext, Register, RegisterMedia, Expire, serverVars, actorVars, feedVars

(* Nobody is registered at the start. *)
LEMMA ServerInvInit == ServerInit => ActorInv /\ ServerInv
<1> SUFFICES ASSUME ServerInit PROVE ActorInv /\ ServerInv
  OBVIOUS
<1>1. ActorInv
  BY ActorInvInit DEF ServerInit
<1>2. ServerTypeOK /\ GroupsAreJoined
  BY DEF ServerInit, ActorInit, ServerTypeOK, GroupsAreJoined
<1>3. MediaStaysInGroup
  BY ClientActorAssumption DEF ServerInit, ActorInit, MediaStaysInGroup, Feeds, NoReceivers
<1> QED
  BY <1>1, <1>2, <1>3 DEF ServerInv

(* Both invariants are inductive together. *)
LEMMA ServerInvariant == ServerSpec => [](ActorInv /\ ServerInv)
<1>1. ActorInv /\ ServerInv /\ [ServerNext]_serverVars => (ActorInv /\ ServerInv)'
  BY ServerInvStep, StepActor, ActorInvStep DEF ServerInv
<1> QED
  BY <1>1, ServerInvInit, PTL DEF ServerSpec

(* Media and feedback never leave the group, for every number of users,    *)
(* groups and addresses and for both roles of sessions.                    *)
THEOREM MediaNeverCrossesGroups == ServerSpec => []MediaStaysInGroup
<1>1. ServerInv => MediaStaysInGroup
  BY DEF ServerInv
<1> QED
  BY <1>1, ServerInvariant, PTL

(* Binding requests, however late or repeated their messages are, reach    *)
(* the registry only as the steps ClientActor allows: its theorems hold    *)
(* here.                                                                   *)
THEOREM ServerImplementsActor == ServerSpec => ActorSpec
<1>1. ServerInit => ActorInit
  BY DEF ServerInit
<1>2. ServerInv /\ [ServerNext]_serverVars => [ActorNext]_actorVars
  BY StepActor DEF ServerInv
<1> QED
  BY <1>1, <1>2, ServerInvariant, PTL DEF ServerSpec, ActorSpec

=============================================================================
