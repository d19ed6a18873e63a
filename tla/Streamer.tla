-------------------------------- MODULE Streamer --------------------------------
(***************************************************************************)
(* The whole server: the actors of the other modules, put together as      *)
(* src/src/main.rs starts them. Every module on its own lets its           *)
(* neighbours do as they like (ClientActor: clients come and go at any     *)
(* time; Server: so do sessions; DtlsTasks: binding requests arrive;       *)
(* RtcActor: keys are installed). Here they are the neighbours they have:  *)
(*                                                                         *)
(*   - one arbiter runs the handlers of ClientActor and of UdpRecv, and    *)
(*     the DTLS tasks; all of them stand still while a handler waits for a *)
(*     receivers lock;                                                     *)
(*   - UdpRecv registers the users of SDP offers, drops old sessions and   *)
(*     sends the messages of binding requests;                             *)
(*   - RtcActor's threads forward packets.                                 *)
(*                                                                         *)
(* UdpRecv's variables sessions and media_sessions are ages and users,     *)
(* module Server's are groups, roles and media lists: here the latter are  *)
(* known and lists.                                                        *)
(***************************************************************************)
EXTENDS ClientActor, UdpRecv

CONSTANTS Task, Worker, MaxMessages

VARIABLES
  place, ref, state,       \* DtlsTasks: pc, ref, state
  srtp,                    \* DtlsTasks and RtcActor: Client.srtp
  table, writing,          \* RtcActor: the locks and what they protect
  pc, from, is_rtcp, todo, sent, failed, hindered,   \* RtcActor's threads
  known, lists,            \* Server: sessions, media_sessions
  messages, joined         \* Server: on their way to ClientActor, and sent so far

Tasks  == INSTANCE DtlsTasks WITH pc <- place
Rtc    == INSTANCE RtcActor
Server == INSTANCE Server WITH sessions <- known, media_sessions <- lists

dtlsVars    == <<place, ref, state>>
threadVars  == <<pc, from, is_rtcp, todo, sent, failed, hindered>>
bindingVars == <<known, lists, messages, joined>>
streamerVars ==
  <<actorVars, dtlsVars, srtp, table, writing, threadVars, bindingVars, udpVars>>

StreamerInit == Tasks!Init /\ Rtc!RtcInit /\ Server!ServerInit /\ UdpInit

-----------------------------------------------------------------------------
(***************************************************************************)
(* The arbiter: what ClientActor does.                                     *)
(***************************************************************************)

(* No handler waits for a receivers lock. *)
ArbiterFree == Running /\ writing = NoClient

(* A datagram of DTLS arrives. *)
ReceiveDtls(t, a) == Tasks!Dtls(t, a) /\ UNCHANGED writing

(* A task goes on, without a message to its actor. *)
WorkAlone(t) ==
  /\ \/ Tasks!Push(t) \/ Tasks!Status(t) \/ Tasks!Connect(t)
     \/ Tasks!Accept(t) \/ Tasks!Extract(t) \/ Tasks!ReadDtls(t)
  /\ UNCHANGED writing

(* The DeleteMessage of a task, whose handler writes the client's table.   *)
HaveDeleted(t) ==
  /\ Tasks!PushDelete(t) \/ Tasks!Delete(t)
  /\ writing' = client_storage[owner[ref[t]]]

TaskWork ==
  /\ ArbiterFree
  /\ \/ \E t \in Task, a \in Addr : ReceiveDtls(t, a)
     \/ \E t \in Task : WorkAlone(t) \/ HaveDeleted(t)
  /\ UNCHANGED <<table, threadVars, bindingVars, udpVars>>

(* A message of a binding request. *)
HandleBinding(m) ==
  /\ ArbiterFree
  /\ Server!Handle(m)
  /\ \/ m.kind = "group" /\ Rtc!Group(m.group, m.addr, m.is_sender)
     \/ m.kind = "media" /\ UNCHANGED writing
  /\ UNCHANGED <<dtlsVars, srtp, table, threadVars, udpVars>>

-----------------------------------------------------------------------------
(***************************************************************************)
(* UdpRecv, and the HTTP handlers that register users with it.             *)
(***************************************************************************)

Elsewhere == <<dtlsVars, srtp, table, writing, threadVars>>

(* An offer goes on, or time does. *)
HttpWork ==
  /\ \/ \E o \in Offer : ReceiveOffer(o) \/ AnswerOffer(o) \/ CloseOffer(o)
     \/ \E o \in Offer, u \in User : SendLine(o, u)
     \/ \E m \in parked : Unpark(m)
     \/ Tick
  /\ UNCHANGED <<Elsewhere, actorVars, bindingVars>>

(* Handler<SessionMessage>, Handler<MediaUserMessage>: with the group of   *)
(* the URL, the role of the offer, and the rates of its rtpmap lines.      *)
RegisterUser ==
  /\ ArbiterFree
  /\ HandleMessage
  /\ \/ /\ Head(mailbox).kind = "session"
        /\ \E g \in Groups, is_sender \in Roles :
             Server!Register(Head(mailbox).user, g, is_sender)
     \/ /\ Head(mailbox).kind = "media"
        /\ \E freqs \in (SUBSET Frequency) \ {{}} :
             Server!RegisterMedia(Head(mailbox).user, freqs)
  /\ UNCHANGED Elsewhere

DropOldUsers ==
  /\ ArbiterFree
  /\ ClearData
  /\ Server!Expire(ToRemove)
  /\ UNCHANGED Elsewhere

(* A binding request of u comes from a. *)
Request(u, a) ==
  /\ ArbiterFree
  /\ Server!Stun(u, a)
  /\ UNCHANGED <<Elsewhere, udpVars>>

-----------------------------------------------------------------------------
(***************************************************************************)
(* RtcActor's threads, and the handler that waits for them.                *)
(***************************************************************************)

ForwardWork ==
  /\ \/ Rtc!Write
     \/ \E w \in Worker, a \in Addr, rtcp \in BOOLEAN : Rtc!Take(w, a, rtcp)
     \/ \E w \in Worker : Rtc!WorkerStep(w)
  /\ UNCHANGED <<dtlsVars, bindingVars, udpVars>>

StreamerNext ==
  \/ TaskWork
  \/ \E m \in messages : HandleBinding(m)
  \/ HttpWork
  \/ RegisterUser
  \/ DropOldUsers
  \/ \E u \in User, a \in Addr : Request(u, a)
  \/ ForwardWork

StreamerSpec == StreamerInit /\ [][StreamerNext]_streamerVars

-----------------------------------------------------------------------------
(***************************************************************************)
(* Properties.                                                             *)
(***************************************************************************)

(* From the offer to the packet: whatever address a thread has sent a      *)
(* packet to (rtc_actor.rs:176 and 219), users of one and the same group   *)
(* have bound from there and from the address the packet came from.        *)
SentInGroup ==
  \A w \in Worker : \A a \in sent[w] : Server!Together(owner[from[w]], a)

(* From the offer to the binding request: a user who has its SDP answer,   *)
(* and whose session has not run out, is known when its requests come      *)
(* (udp.rs:113), and so is its media list, unless the mailbox overflowed.  *)
AnsweredIsKnown ==
  \A o \in Offer, u \in User :
    StillValid(o, u) => known[u] # {} /\ (~crowded => lists[u] # {})

(* From the handshake to the packet: wherever a thread sends a packet, the *)
(* address has a client now, and that client has shaken hands.             *)
SentAfterHandshake ==
  [][\A w \in Worker : \A a \in sent'[w] \ sent[w] :
       /\ client_storage[a] # NoClient
       /\ state[client_storage[a]] # "New" /\ srtp[client_storage[a]]]_streamerVars

=============================================================================
