--------------------------------- MODULE Server ---------------------------------
(***************************************************************************)
(* Binding requests, which join what UdpRecv knows of a user with what     *)
(* ClientActor knows of an address (src/src/server/udp.rs:101-149): a STUN *)
(* request of a registered user makes UdpRecv send the user's media list   *)
(* and group to ClientActor, for the address the request came from.        *)
(*                                                                         *)
(* How sessions come and go is in module UdpRecv; here they may do so at   *)
(* any time. ClientActor's mailbox takes 16 messages, and senders retry in *)
(* any order when it is full, so messages on their way have no order.      *)
(***************************************************************************)
EXTENDS ClientActor, Naturals, FiniteSets

CONSTANTS
  User,          \* ice-ufrag names of clients
  MaxMessages    \* bound on the different messages on their way

VARIABLES
  sessions,        \* group and role of each registered user, a set of at most one
  media_sessions,  \* the media list of each user, {} for none
  messages,        \* sent to ClientActor and not handled
  joined           \* groups, and the addresses their users have sent requests from

userVars   == <<sessions, media_sessions>>
serverVars == <<actorVars, userVars, messages, joined>>

GroupMessage(g, a, is_sender) ==
  [kind |-> "group", addr |-> a, group |-> g, is_sender |-> is_sender]

MediaMessage(a, freqs) == [kind |-> "media", addr |-> a, freqs |-> freqs]

ServerInit ==
  /\ ActorInit
  /\ sessions = [u \in User |-> {}]
  /\ media_sessions = [u \in User |-> {}]
  /\ messages = {}
  /\ joined = {}

(* Handler<SessionMessage> and Handler<MediaUserMessage> *)
Register(u, g, is_sender) ==
  /\ sessions' = [sessions EXCEPT ![u] = {<<g, is_sender>>}]
  /\ UNCHANGED <<actorVars, media_sessions, messages, joined>>

RegisterMedia(u, freqs) ==
  /\ media_sessions' = [media_sessions EXCEPT ![u] = freqs]
  /\ UNCHANGED <<actorVars, sessions, messages, joined>>

(* ClearData drops the sessions of users, together with their media lists. *)
Expire(old) ==
  /\ \A u \in old : sessions[u] # {}
  /\ sessions' = [u \in User |-> IF u \in old THEN {} ELSE sessions[u]]
  /\ media_sessions' = [u \in User |-> IF u \in old THEN {} ELSE media_sessions[u]]
  /\ UNCHANGED <<actorVars, messages, joined>>

(* Wrong on purpose, for mutation: the group is sent to those without a list. *)
RequestsEither(u, a) ==
  IF media_sessions[u] # {} THEN {MediaMessage(a, media_sessions[u])}
  ELSE {GroupMessage(s[1], a, s[2]) : s \in sessions[u]}

(* Wrong on purpose, for mutation: the list is left to the first packet. *)
RequestsGroupOnly(u, a) == {GroupMessage(s[1], a, s[2]) : s \in sessions[u]}

(* The messages a request of u from a makes UdpRecv send. *)
Requests(u, a) ==
  {MediaMessage(a, f) : f \in {media_sessions[u]} \ {{}}}
  \cup {GroupMessage(s[1], a, s[2]) : s \in sessions[u]}

(* The Stun arm of Handler<WebRtcRequest>: only for a known session. *)
Stun(u, a) ==
  /\ sessions[u] # {}
  /\ messages' = messages \cup Requests(u, a)
  /\ Cardinality(messages') <= MaxMessages
  /\ joined' = joined \cup {<<s[1], a>> : s \in sessions[u]}
  /\ UNCHANGED <<actorVars, userVars>>

(* ClientActor handles a message; the same one may have been sent again.   *)
Handle(m) ==
  /\ \/ m.kind = "group" /\ GroupId(m.group, m.addr, m.is_sender)
     \/ m.kind = "media" /\ MediaAddr(m.addr, m.freqs)
     \/ /\ m.kind = "media" /\ client_storage[m.addr] = NoClient
        /\ Running /\ UNCHANGED actorVars
  /\ messages' \in {messages \ {m}, messages}
  /\ UNCHANGED <<userVars, joined>>

(* The Dtls arm passes the packet on; see module DtlsTasks. *)
Dtls ==
  /\ \/ \E a \in Addr, c \in Client : OpenClient(a, c)
     \/ \E a \in Addr : DeleteMessage(a)
  /\ UNCHANGED <<userVars, messages, joined>>

ServerNext ==
  \/ \E u \in User, g \in Groups, is_sender \in Roles : Register(u, g, is_sender)
  \/ \E u \in User, freqs \in (SUBSET Frequency) \ {{}} : RegisterMedia(u, freqs)
  \/ \E old \in SUBSET User : Expire(old)
  \/ \E u \in User, a \in Addr : Stun(u, a)
  \/ \E m \in messages : Handle(m)
  \/ Dtls

ServerSpec == ServerInit /\ [][ServerNext]_serverVars

(* ClientActor handles every message that is sent to it. *)
AllMessages ==
  {GroupMessage(g, a, s) : g \in Groups, a \in Addr, s \in Roles}
  \cup {MediaMessage(a, f) : a \in Addr, f \in (SUBSET Frequency) \ {{}}}

ServerFairSpec ==
  ServerSpec /\ \A m \in AllMessages : WF_serverVars(m \in messages /\ Handle(m))

-----------------------------------------------------------------------------
(***************************************************************************)
(* Properties.                                                             *)
(***************************************************************************)

Together(a, b) == \E g \in Groups : <<g, a>> \in joined /\ <<g, b>> \in joined

(* Media and feedback never cross groups: a client forwards its packets to *)
(* another, or sends it feedback, only if users of one and the same group  *)
(* have sent requests from the addresses of both, whatever registrations,  *)
(* expiries, reconnects and delayed messages come in between.              *)
MediaStaysInGroup ==
  \A c \in Client :
    /\ \A a \in Addr, r \in Client : Feeds(c, a, r) => Together(owner[c], a)
    /\ sender_addr[c] # NoAddr => Together(owner[c], sender_addr[c])

(* The requests of u from a keep coming, and the client at a stays. *)
Steady(u, a, c) == []<><<Stun(u, a)>>_serverVars /\ <>[](client_storage[a] = c)

(* Requests are repeated, and that is what makes joining a group work: the *)
(* first ones come before the client exists and are dropped. A member that *)
(* keeps sending requests is fed by the sender of its group, provided that *)
(* the sender has a client (group.rs:21 lets an address that has none be   *)
(* the sender).                                                            *)
MemberFed ==
  \A u \in User, g \in Groups, a \in Addr, r \in Client :
    \A b \in Addr \ {a}, s \in Client \ {r} :
      Steady(u, a, r) /\ <>[](/\ sessions[u] = {<<g, FALSE>>}
                              /\ groups_storage[g] = b /\ client_storage[b] = s)
        => <>[]Feeds(s, a, r)

(* The media list of a user who keeps sending requests reaches the client  *)
(* at its address, however many MediaAddrMessages came before there was    *)
(* one and were dropped.                                                   *)
MediaArrives ==
  \A u \in User, a \in Addr, r \in Client, f \in (SUBSET Frequency) \ {{}} :
    Steady(u, a, r) /\ <>[](media_sessions[u] = f) => []<>(media[r] = f)

=============================================================================
