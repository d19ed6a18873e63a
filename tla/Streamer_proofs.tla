---------------------------- MODULE Streamer_proofs ----------------------------
(***************************************************************************)
(* Proofs about the whole server, for any number of addresses, clients,    *)
(* tasks, threads, users and offers. Its steps are shown to be steps of    *)
(* every part, which takes the invariants of all of them at once: a task   *)
(* deletes by the address of a client that was opened (DtlsTasks), keys    *)
(* are installed once (DtlsTasks, for RtcActor), messages name groups and  *)
(* users that exist (Server and UdpRecv, for ClientActor). After that, the *)
(* theorems of the parts are theorems of the whole, and three more follow  *)
(* that take several parts to state.                                       *)
(*                                                                         *)
(* TP, RP and SP are the parts together with what is proved of them.       *)
(***************************************************************************)
EXTENDS Streamer, UdpRecv_proofs

TP == INSTANCE DtlsTasks_proofs WITH pc <- place
RP == INSTANCE RtcActor_proofs
SP == INSTANCE Server_proofs WITH sessions <- known, media_sessions <- lists

(* Tasks and TP are one specification: they start alike *)
LEMMA SameTasksInit == Tasks!Init <=> TP!Init
BY DEF Tasks!Init, TP!Init, Tasks!ActorInit, TP!ActorInit, Tasks!TasksInit, TP!TasksInit,
       Tasks!NoReceivers, TP!NoReceivers

(* and take the same steps; *)
LEMMA SameTasksNext == [Tasks!Next]_(Tasks!vars) <=> [TP!Next]_(TP!vars)
BY DEF Tasks!Next, TP!Next, Tasks!Dtls, TP!Dtls, Tasks!TaskStep, TP!TaskStep, Tasks!Binding,
       TP!Binding, Tasks!Push, TP!Push, Tasks!PushDelete, TP!PushDelete, Tasks!Status,
       TP!Status, Tasks!Connect, TP!Connect, Tasks!Accept, TP!Accept, Tasks!Extract, TP!Extract,
       Tasks!ReadDtls, TP!ReadDtls, Tasks!Delete, TP!Delete, Tasks!At, TP!At, Tasks!Goto,
       TP!Goto, Tasks!Finish, TP!Finish, Tasks!StateFree, TP!StateFree, Tasks!HoldsState,
       TP!HoldsState, Tasks!WriterFree, TP!WriterFree, Tasks!ChannelOpen, TP!ChannelOpen,
       Tasks!taskVars, TP!taskVars, Tasks!connVars, TP!connVars, Tasks!vars, TP!vars,
       Tasks!OpenClient, TP!OpenClient, Tasks!DeleteMessage, TP!DeleteMessage, Tasks!GroupId,
       TP!GroupId, Tasks!MediaAddr, TP!MediaAddr, Tasks!Running, TP!Running, Tasks!LastSender,
       TP!LastSender, Tasks!InsertSender, TP!InsertSender, Tasks!Handover, TP!Handover,
       Tasks!Attach, TP!Attach, Tasks!ReturnsEarly, TP!ReturnsEarly, Tasks!Displaces,
       TP!Displaces, Tasks!OpenRuntimes, TP!OpenRuntimes, Tasks!RemoveSender, TP!RemoveSender,
       Tasks!MarkDeleted, TP!MarkDeleted, Tasks!KeepLiveReceivers, TP!KeepLiveReceivers,
       Tasks!actorVars, TP!actorVars, Tasks!feedVars, TP!feedVars, Tasks!mediaVars, TP!mediaVars

(* so do Rtc and RP, *)
LEMMA SameRtcInit == Rtc!RtcInit <=> RP!RtcInit
BY DEF Rtc!RtcInit, RP!RtcInit, Rtc!ActorInit, RP!ActorInit, Rtc!NoReceivers, RP!NoReceivers

(* in every step, *)
LEMMA SameRtcNext == [Rtc!RtcNext]_(Rtc!rtcVars) <=> [RP!RtcNext]_(RP!rtcVars)
BY DEF Rtc!RtcNext, RP!RtcNext, Rtc!Handler, RP!Handler, Rtc!Open, RP!Open, Rtc!Delete,
       RP!Delete, Rtc!Group, RP!Group, Rtc!Media, RP!Media, Rtc!InstallKeys, RP!InstallKeys,
       Rtc!Write, RP!Write, Rtc!Reads, RP!Reads, Rtc!Take, RP!Take, Rtc!Goto, RP!Goto,
       Rtc!WorkerStep, RP!WorkerStep, Rtc!Refuse, RP!Refuse, Rtc!Done, RP!Done, Rtc!Decrypt,
       RP!Decrypt, Rtc!Lock, RP!Lock, Rtc!Filed, RP!Filed, Rtc!FreeToRead, RP!FreeToRead,
       Rtc!Forward, RP!Forward, Rtc!ForwardBeside, RP!ForwardBeside, Rtc!Unprotected,
       RP!Unprotected, Rtc!Skipped, RP!Skipped, Rtc!EndForward, RP!EndForward, Rtc!Feedback,
       RP!Feedback, Rtc!FeedbackTo, RP!FeedbackTo, Rtc!rtcVars, RP!rtcVars, Rtc!lockVars,
       RP!lockVars, Rtc!jobVars, RP!jobVars, Rtc!OpenClient, RP!OpenClient, Rtc!DeleteMessage,
       RP!DeleteMessage, Rtc!GroupId, RP!GroupId, Rtc!MediaAddr, RP!MediaAddr, Rtc!Running,
       RP!Running, Rtc!LastSender, RP!LastSender, Rtc!InsertSender, RP!InsertSender,
       Rtc!Handover, RP!Handover, Rtc!Attach, RP!Attach, Rtc!ReturnsEarly, RP!ReturnsEarly,
       Rtc!Displaces, RP!Displaces, Rtc!OpenRuntimes, RP!OpenRuntimes, Rtc!RemoveSender,
       RP!RemoveSender, Rtc!MarkDeleted, RP!MarkDeleted, Rtc!KeepLiveReceivers,
       RP!KeepLiveReceivers, Rtc!actorVars, RP!actorVars, Rtc!feedVars, RP!feedVars,
       Rtc!mediaVars, RP!mediaVars

(* and Server and SP, *)
LEMMA SameServerInit == Server!ServerInit <=> SP!ServerInit
BY DEF Server!ServerInit, SP!ServerInit, Server!ActorInit, SP!ActorInit, Server!NoReceivers,
       SP!NoReceivers

(* in every step. *)
LEMMA SameServerNext == [Server!ServerNext]_(Server!serverVars) <=> [SP!ServerNext]_(SP!serverVars)
BY DEF Server!ServerNext, SP!ServerNext, Server!Cardinality, SP!Cardinality, Server!Register,
       SP!Register, Server!RegisterMedia, SP!RegisterMedia, Server!Expire, SP!Expire,
       Server!Requests, SP!Requests, Server!GroupMessage, SP!GroupMessage, Server!MediaMessage,
       SP!MediaMessage, Server!Stun, SP!Stun, Server!Handle, SP!Handle, Server!Dtls, SP!Dtls,
       Server!serverVars, SP!serverVars, Server!userVars, SP!userVars, Server!OpenClient,
       SP!OpenClient, Server!DeleteMessage, SP!DeleteMessage, Server!GroupId, SP!GroupId,
       Server!MediaAddr, SP!MediaAddr, Server!Running, SP!Running, Server!LastSender,
       SP!LastSender, Server!InsertSender, SP!InsertSender, Server!Handover, SP!Handover,
       Server!Attach, SP!Attach, Server!ReturnsEarly, SP!ReturnsEarly, Server!Displaces,
       SP!Displaces, Server!OpenRuntimes, SP!OpenRuntimes, Server!RemoveSender, SP!RemoveSender,
       Server!MarkDeleted, SP!MarkDeleted, Server!KeepLiveReceivers, SP!KeepLiveReceivers,
       Server!actorVars, SP!actorVars, Server!feedVars, SP!feedVars, Server!mediaVars,
       SP!mediaVars

(* What is invariant of the registry is the same for all of them, *)
LEMMA SameActorInv == (TP!ActorInv <=> SP!ActorInv) /\ (TP!ActorInv <=> RP!ActorInv)
BY DEF TP!ActorInv, SP!ActorInv, RP!ActorInv, TP!ActorTypeOK, SP!ActorTypeOK, RP!ActorTypeOK,
       TP!StorageIsLive, SP!StorageIsLive, RP!StorageIsLive, TP!UnusedIsFresh, SP!UnusedIsFresh,
       RP!UnusedIsFresh, TP!NoReceivers, SP!NoReceivers, RP!NoReceivers, TP!ReceiverIsCurrent,
       SP!ReceiverIsCurrent, RP!ReceiverIsCurrent, TP!FeedbackPathListed, SP!FeedbackPathListed,
       RP!FeedbackPathListed, TP!LeakFree, SP!LeakFree, RP!LeakFree, TP!RuntimeCoversMedia,
       SP!RuntimeCoversMedia, RP!RuntimeCoversMedia, TP!Live, SP!Live, RP!Live, TP!Feeds,
       SP!Feeds, RP!Feeds

(* and so are its handlers. *)
LEMMA SameActorSteps ==
  ASSUME NEW a, NEW c, NEW g, NEW i, NEW f
  PROVE  /\ Tasks!OpenClient(a, c) <=> Server!OpenClient(a, c)
         /\ Tasks!OpenClient(a, c) <=> Rtc!OpenClient(a, c)
         /\ Tasks!DeleteMessage(a) <=> Server!DeleteMessage(a)
         /\ Tasks!DeleteMessage(a) <=> Rtc!DeleteMessage(a)
         /\ Server!GroupId(g, a, i) <=> Tasks!GroupId(g, a, i)
         /\ Server!MediaAddr(a, f) <=> Tasks!MediaAddr(a, f)
         /\ Server!MediaAddr(a, f) <=> Rtc!MediaAddr(a, f)
BY DEF Tasks!OpenClient, Server!OpenClient, Rtc!OpenClient, Tasks!DeleteMessage,
       Server!DeleteMessage, Rtc!DeleteMessage, Tasks!GroupId, Server!GroupId, Rtc!GroupId,
       Tasks!MediaAddr, Server!MediaAddr, Rtc!MediaAddr, Tasks!Running, Server!Running,
       Rtc!Running, Tasks!LastSender, Server!LastSender, Rtc!LastSender, Tasks!InsertSender,
       Server!InsertSender, Rtc!InsertSender, Tasks!Handover, Server!Handover, Rtc!Handover,
       Tasks!Attach, Server!Attach, Rtc!Attach, Tasks!ReturnsEarly, Server!ReturnsEarly,
       Rtc!ReturnsEarly, Tasks!Displaces, Server!Displaces, Rtc!Displaces, Tasks!OpenRuntimes,
       Server!OpenRuntimes, Rtc!OpenRuntimes, Tasks!RemoveSender, Server!RemoveSender,
       Rtc!RemoveSender, Tasks!MarkDeleted, Server!MarkDeleted, Rtc!MarkDeleted,
       Tasks!KeepLiveReceivers, Server!KeepLiveReceivers, Rtc!KeepLiveReceivers,
       Tasks!actorVars, Server!actorVars, Rtc!actorVars, Tasks!feedVars, Server!feedVars,
       Rtc!feedVars, Tasks!mediaVars, Server!mediaVars, Rtc!mediaVars

-----------------------------------------------------------------------------
(***************************************************************************)
(* Every step of the whole is a step, or none, of each part.               *)
(***************************************************************************)

(* What RtcActor's threads and their locks do, nobody else sees. *)
LEMMA ThreadsLeave ==
  ASSUME ForwardWork
  PROVE  UNCHANGED <<actorVars, dtlsVars, srtp, bindingVars, udpVars>>
<1>1. UNCHANGED <<dtlsVars, bindingVars, udpVars>>
  BY DEF ForwardWork
<1>2. CASE Rtc!Write
  BY <1>1, <1>2 DEF Rtc!Write, Rtc!actorVars, Rtc!feedVars, Rtc!mediaVars,
     actorVars, feedVars, mediaVars
<1>3. ASSUME NEW w \in Worker, NEW a \in Addr, NEW rtcp \in BOOLEAN, Rtc!Take(w, a, rtcp)
      PROVE  UNCHANGED <<actorVars, srtp>>
  BY <1>3 DEF Rtc!Take, Rtc!lockVars, Rtc!actorVars, Rtc!feedVars, Rtc!mediaVars,
     actorVars, feedVars, mediaVars
<1>4. ASSUME NEW w \in Worker, Rtc!WorkerStep(w)
      PROVE  UNCHANGED <<actorVars, srtp>>
  BY <1>4 DEF Rtc!WorkerStep, Rtc!Refuse, Rtc!Done, Rtc!Decrypt, Rtc!Lock, Rtc!EndForward,
     Rtc!Feedback, Rtc!Forward, Rtc!ForwardBeside, Rtc!Unprotected,
     Rtc!lockVars, Rtc!actorVars, Rtc!feedVars, Rtc!mediaVars, actorVars, feedVars, mediaVars
<1> QED BY <1>1, <1>2, <1>3, <1>4 DEF ForwardWork

(* Neither do HTTP handlers and UdpRecv touch ClientActor's side. *)
LEMMA UdpLeaves ==
  ASSUME \/ HttpWork \/ RegisterUser \/ DropOldUsers
         \/ \E u \in User, a \in Addr : Request(u, a)
  PROVE  UNCHANGED <<actorVars, Elsewhere>>
BY DEF HttpWork, RegisterUser, DropOldUsers, Request, Server!Register, Server!RegisterMedia,
   Server!Expire, Server!Stun, Server!actorVars, Server!feedVars, Server!mediaVars,
   actorVars, feedVars, mediaVars

(* A binding request is what one of the handlers of ClientActor takes. *)
LEMMA BindingOutcome ==
  ASSUME SP!ServerTypeOK, NEW m \in messages, HandleBinding(m)
  PROVE  /\ m.addr \in Addr
         /\ \/ /\ m.kind = "group" /\ m.group \in Groups /\ m.is_sender \in Roles
               /\ Rtc!Group(m.group, m.addr, m.is_sender)
               /\ Tasks!GroupId(m.group, m.addr, m.is_sender)
            \/ /\ m.kind = "media" /\ m.freqs \in SUBSET Frequency
               /\ UNCHANGED writing
               /\ Tasks!MediaAddr(m.addr, m.freqs) \/ UNCHANGED actorVars
         /\ writing = NoClient
         /\ UNCHANGED <<dtlsVars, srtp, table, threadVars, udpVars>>
<1>1. /\ m.kind \in {"group", "media"} /\ m.addr \in Addr
      /\ m.kind = "group" => m.group \in Groups /\ m.is_sender \in Roles
      /\ m.kind = "media" => m.freqs \in SUBSET Frequency
  <2>1. m \in SP!AllMessages
    BY DEF SP!ServerTypeOK
  <2> QED BY <2>1, SP!MessageFields, ClientActorAssumption
<1>2. CASE m.kind = "group"
  <2>1. Rtc!Group(m.group, m.addr, m.is_sender) /\ Server!GroupId(m.group, m.addr, m.is_sender)
    BY <1>2 DEF HandleBinding, Server!Handle
  <2> QED BY <1>1, <1>2, <2>1, SameActorSteps DEF HandleBinding, ArbiterFree
<1>3. CASE m.kind = "media"
  <2>1. Server!MediaAddr(m.addr, m.freqs) \/ UNCHANGED actorVars
    BY <1>3 DEF HandleBinding, Server!Handle, Server!actorVars, Server!feedVars,
       Server!mediaVars, actorVars, feedVars, mediaVars
  <2> QED BY <1>1, <1>3, <2>1, SameActorSteps DEF HandleBinding, ArbiterFree
<1> QED BY <1>1, <1>2, <1>3

(* What ClientActor's arbiter does for a DTLS task. *)
LEMMA TaskOutcome ==
  ASSUME TP!ActorInv, TP!TasksInv, TaskWork
  PROVE  \/ /\ UNCHANGED <<actorVars, writing>>
            /\ \/ UNCHANGED srtp
               \/ \E c \in Client :
                    /\ Tasks!Running /\ owner[c] # NoAddr /\ ~srtp[c]
                    /\ srtp' = [srtp EXCEPT ![c] = TRUE]
         \/ \E a \in Addr, c \in Client : Tasks!OpenClient(a, c) /\ UNCHANGED <<writing, srtp>>
         \/ \E a \in Addr :
              Tasks!DeleteMessage(a) /\ writing' = client_storage[a] /\ UNCHANGED srtp
<1>1. ASSUME NEW t \in Task, NEW a \in Addr, ReceiveDtls(t, a)
      PROVE  \/ UNCHANGED <<actorVars, writing, srtp>>
             \/ \E c \in Client : Tasks!OpenClient(a, c) /\ UNCHANGED <<writing, srtp>>
  BY <1>1 DEF ReceiveDtls, Tasks!Dtls, Tasks!connVars, Tasks!actorVars, Tasks!feedVars,
     Tasks!mediaVars, actorVars, feedVars, mediaVars
<1>2. ASSUME NEW t \in Task, WorkAlone(t)
      PROVE  /\ UNCHANGED <<actorVars, writing>>
             /\ \/ UNCHANGED srtp
                \/ \E c \in Client :
                     /\ Tasks!Running /\ owner[c] # NoAddr /\ ~srtp[c]
                     /\ srtp' = [srtp EXCEPT ![c] = TRUE]
  <2>1. UNCHANGED <<actorVars, writing>>
    BY <1>2 DEF WorkAlone, Tasks!Push, Tasks!Status, Tasks!Connect, Tasks!Accept,
       Tasks!Extract, Tasks!ReadDtls, Tasks!actorVars, Tasks!feedVars, Tasks!mediaVars,
       actorVars, feedVars, mediaVars
  <2>2. UNCHANGED srtp \/ Tasks!Accept(t)
    BY <1>2 DEF WorkAlone, Tasks!Push, Tasks!Status, Tasks!Connect,
       Tasks!Extract, Tasks!ReadDtls, Tasks!connVars
  <2>3. CASE Tasks!Accept(t)
    <3>1. Tasks!Running /\ place[t] = "shake"
      BY <2>3 DEF Tasks!Accept, Tasks!At
    <3>2. UNCHANGED srtp \/ srtp' = [srtp EXCEPT ![ref[t]] = TRUE]
      BY <2>3 DEF Tasks!Accept, Tasks!connVars
    <3>3. ref[t] \in Client /\ owner[ref[t]] \in Addr
      BY <3>1, TP!TaskClient, ClientActorAssumption DEF TP!ActorInv, TP!TasksInv
    <3>4. ~srtp[ref[t]]
      BY <3>1, <3>3 DEF TP!TasksInv, TP!KeysFollowHandshake, TP!Attended
    <3>5. owner[ref[t]] # NoAddr
      BY <3>3, ClientActorAssumption
    <3> QED BY <2>1, <3>1, <3>2, <3>3, <3>4, <3>5
  <2> QED BY <2>1, <2>2, <2>3
<1>3. ASSUME NEW t \in Task, HaveDeleted(t)
      PROVE  \E a \in Addr :
               Tasks!DeleteMessage(a) /\ writing' = client_storage[a] /\ UNCHANGED srtp
  <2>1. place[t] # "idle"
    BY <1>3 DEF HaveDeleted, Tasks!PushDelete, Tasks!Delete, Tasks!At
  <2>2. owner[ref[t]] \in Addr
    BY <2>1, TP!TaskClient, ClientActorAssumption DEF TP!ActorInv, TP!TasksInv
  <2>3. Tasks!DeleteMessage(owner[ref[t]]) /\ UNCHANGED srtp
    BY <1>3 DEF HaveDeleted, Tasks!PushDelete, Tasks!Delete, Tasks!connVars
  <2> QED BY <1>3, <2>2, <2>3 DEF HaveDeleted
<1> QED BY <1>1, <1>2, <1>3 DEF TaskWork

(* DtlsTasks: binding requests of any group, role and media list may come. *)
LEMMA StepTasks ==
  ASSUME SP!ServerTypeOK, [StreamerNext]_streamerVars
  PROVE  [Tasks!Next]_(Tasks!vars)
<1> USE DEF dtlsVars, actorVars, feedVars, mediaVars, Tasks!vars, Tasks!actorVars,
        Tasks!feedVars, Tasks!mediaVars, Tasks!taskVars, Tasks!connVars
<1>1. CASE TaskWork
  BY <1>1 DEF TaskWork, ReceiveDtls, WorkAlone, HaveDeleted, Tasks!Next, Tasks!TaskStep
<1>2. ASSUME NEW m \in messages, HandleBinding(m)
      PROVE  [Tasks!Next]_(Tasks!vars)
  BY <1>2, BindingOutcome DEF Tasks!Next, Tasks!Binding
<1>3. CASE \/ HttpWork \/ RegisterUser \/ DropOldUsers
           \/ \E u \in User, a \in Addr : Request(u, a)
  BY <1>3, UdpLeaves DEF Elsewhere
<1>4. CASE ForwardWork
  BY <1>4, ThreadsLeave
<1>5. CASE UNCHANGED streamerVars
  BY <1>5 DEF streamerVars
<1> QED BY <1>1, <1>2, <1>3, <1>4, <1>5 DEF StreamerNext

(* RtcActor: keys are installed at the end of handshakes. *)
LEMMA StepRtc ==
  ASSUME TP!ActorInv, TP!TasksInv, SP!ServerTypeOK, [StreamerNext]_streamerVars
  PROVE  [Rtc!RtcNext]_(Rtc!rtcVars)
<1> USE DEF actorVars, feedVars, mediaVars, threadVars, Rtc!rtcVars, Rtc!actorVars,
        Rtc!feedVars, Rtc!mediaVars, Rtc!lockVars, Rtc!jobVars
<1>1. CASE TaskWork
  <2>1. writing = NoClient /\ UNCHANGED <<table, threadVars>>
    BY <1>1 DEF TaskWork, ArbiterFree
  <2>2. ASSUME NEW c \in Client, UNCHANGED <<actorVars, writing>>, Tasks!Running,
               owner[c] # NoAddr, ~srtp[c], srtp' = [srtp EXCEPT ![c] = TRUE]
        PROVE  Rtc!InstallKeys(c)
    BY <2>1, <2>2 DEF Rtc!InstallKeys, Rtc!Running, Tasks!Running
  <2>3. ASSUME NEW a \in Addr, NEW c \in Client, Tasks!OpenClient(a, c),
               UNCHANGED <<writing, srtp>>
        PROVE  Rtc!Handler
    <3>1. Rtc!Open(a, c)
      BY <2>3, SameActorSteps DEF Rtc!Open
    <3> QED BY <2>1, <2>3, <3>1 DEF Rtc!Handler
  <2>4. ASSUME NEW a \in Addr, Tasks!DeleteMessage(a), writing' = client_storage[a],
               UNCHANGED srtp
        PROVE  Rtc!Handler
    <3>1. Rtc!Delete(a)
      BY <2>4, SameActorSteps DEF Rtc!Delete
    <3> QED BY <2>1, <2>4, <3>1 DEF Rtc!Handler
  <2>5. CASE UNCHANGED <<actorVars, writing, srtp>>
    BY <2>1, <2>5
  <2> QED BY <1>1, <2>2, <2>3, <2>4, <2>5, TaskOutcome DEF Rtc!RtcNext
<1>2. ASSUME NEW m \in messages, HandleBinding(m)
      PROVE  [Rtc!RtcNext]_(Rtc!rtcVars)
  <2>1. /\ m.addr \in Addr /\ writing = NoClient
        /\ UNCHANGED <<srtp, table, threadVars>>
    BY <1>2, BindingOutcome
  <2>2. CASE /\ m.group \in Groups /\ m.is_sender \in Roles
             /\ Rtc!Group(m.group, m.addr, m.is_sender)
    BY <2>1, <2>2 DEF Rtc!Handler, Rtc!RtcNext
  <2>3. CASE /\ m.freqs \in SUBSET Frequency /\ UNCHANGED writing
             /\ Tasks!MediaAddr(m.addr, m.freqs)
    <3>1. Rtc!Media(m.addr, m.freqs)
      BY <2>3, SameActorSteps DEF Rtc!Media
    <3> QED BY <2>1, <2>3, <3>1 DEF Rtc!Handler, Rtc!RtcNext
  <2>4. CASE UNCHANGED <<actorVars, writing>>
    BY <2>1, <2>4
  <2> QED BY <1>2, <2>2, <2>3, <2>4, BindingOutcome
<1>3. CASE \/ HttpWork \/ RegisterUser \/ DropOldUsers
           \/ \E u \in User, a \in Addr : Request(u, a)
  BY <1>3, UdpLeaves DEF Elsewhere
<1>4. CASE ForwardWork
  BY <1>4 DEF ForwardWork, Rtc!RtcNext
<1>5. CASE UNCHANGED streamerVars
  BY <1>5 DEF streamerVars
<1> QED BY <1>1, <1>2, <1>3, <1>4, <1>5 DEF StreamerNext

(* Server: users are registered and dropped, clients opened and deleted. *)
LEMMA StepServer ==
  ASSUME TP!ActorInv, TP!TasksInv, UdpTypeOK, [StreamerNext]_streamerVars
  PROVE  [Server!ServerNext]_(Server!serverVars)
<1> USE DEF actorVars, feedVars, mediaVars, bindingVars, Server!serverVars, Server!actorVars,
        Server!feedVars, Server!mediaVars, Server!userVars
<1>1. CASE TaskWork
  <2>1. UNCHANGED bindingVars
    BY <1>1 DEF TaskWork
  <2>2. ASSUME NEW a \in Addr, NEW c \in Client, Tasks!OpenClient(a, c)
        PROVE  Server!Dtls
    BY <2>1, <2>2, SameActorSteps DEF Server!Dtls
  <2>3. ASSUME NEW a \in Addr, Tasks!DeleteMessage(a)
        PROVE  Server!Dtls
    BY <2>1, <2>3, SameActorSteps DEF Server!Dtls
  <2>4. CASE UNCHANGED actorVars
    BY <2>1, <2>4
  <2> QED BY <1>1, <2>2, <2>3, <2>4, TaskOutcome DEF Server!ServerNext
<1>2. ASSUME NEW m \in messages, HandleBinding(m)
      PROVE  Server!ServerNext
  BY <1>2 DEF HandleBinding, Server!ServerNext
<1>3. CASE HttpWork
  BY <1>3 DEF HttpWork
<1>4. CASE RegisterUser
  <2>1. Head(mailbox).user \in User
    BY <1>4, TailOutcome, MessageFields, UdpRecvAssumption DEF RegisterUser, HandleMessage
  <2> QED BY <1>4, <2>1 DEF RegisterUser, Server!ServerNext
<1>5. CASE DropOldUsers
  <2>1. ToRemove \in SUBSET User
    BY DEF ToRemove
  <2> QED BY <1>5, <2>1 DEF DropOldUsers, Server!ServerNext
<1>6. ASSUME NEW u \in User, NEW a \in Addr, Request(u, a)
      PROVE  Server!ServerNext
  BY <1>6 DEF Request, Server!ServerNext
<1>7. CASE ForwardWork
  BY <1>7, ThreadsLeave
<1>8. CASE UNCHANGED streamerVars
  BY <1>8 DEF streamerVars
<1> QED BY <1>1, <1>2, <1>3, <1>4, <1>5, <1>6, <1>7, <1>8 DEF StreamerNext

(* UdpRecv. *)
LEMMA StepUdp ==
  ASSUME [StreamerNext]_streamerVars
  PROVE  [UdpNext]_udpVars
<1>1. CASE TaskWork \/ (\E m \in messages : HandleBinding(m)) \/ ForwardWork
           \/ \E u \in User, a \in Addr : Request(u, a)
  BY <1>1 DEF TaskWork, HandleBinding, ForwardWork, Request
<1>2. CASE HttpWork
  BY <1>2 DEF HttpWork, UdpNext
<1>3. CASE RegisterUser \/ DropOldUsers
  BY <1>3 DEF RegisterUser, DropOldUsers, UdpNext
<1>4. CASE UNCHANGED streamerVars
  BY <1>4 DEF streamerVars
<1> QED BY <1>1, <1>2, <1>3, <1>4 DEF StreamerNext

-----------------------------------------------------------------------------
(***************************************************************************)
(* The invariant of the whole.                                             *)
(***************************************************************************)

(* UdpRecv's two views of its tables agree on who is in them: a user whose *)
(* session has an age has a group and a role, and one with a media list    *)
(* has a list.                                                             *)
Coupled ==
  \A u \in User : /\ known[u] # {} <=> sessions[u] # None
                  /\ lists[u] # {} <=> u \in media_sessions

(* What each part needs of itself, and of the others to be a part. *)
PartsInv ==
  TP!ActorInv /\ TP!TasksInv /\ RP!RtcInv /\ SP!ServerInv /\ UdpTypeOK

(* Every part goes its own way, as far as the others let it. *)
LEMMA PartsStep ==
  ASSUME PartsInv, [StreamerNext]_streamerVars
  PROVE  /\ PartsInv'
         /\ [TP!Next]_(TP!vars) /\ [RP!RtcNext]_(RP!rtcVars)
         /\ [SP!ServerNext]_(SP!serverVars) /\ [UdpNext]_udpVars
<1>1. SP!ServerTypeOK /\ SP!ActorInv /\ RP!ActorInv
  BY SameActorInv DEF PartsInv, SP!ServerInv
<1>2. [TP!Next]_(TP!vars)
  BY <1>1, StepTasks, SameTasksNext
<1>3. [RP!RtcNext]_(RP!rtcVars)
  BY <1>1, StepRtc, SameRtcNext DEF PartsInv
<1>4. [SP!ServerNext]_(SP!serverVars)
  BY StepServer, SameServerNext DEF PartsInv
<1>5. [UdpNext]_udpVars
  BY StepUdp
<1>6. TP!ActorInv' /\ TP!TasksInv'
  BY <1>2, TP!TasksInvStep, ClientActorAssumption DEF PartsInv
<1>7. RP!RtcInv'
  BY <1>1, <1>3, RP!RtcStep, ClientActorAssumption DEF PartsInv
<1>8. SP!ServerInv'
  BY <1>1, <1>4, SP!ServerInvStep, ClientActorAssumption DEF PartsInv
<1>9. UdpTypeOK'
  BY <1>5, TypeStep, UdpRecvAssumption DEF PartsInv
<1> QED BY <1>2, <1>3, <1>4, <1>5, <1>6, <1>7, <1>8, <1>9 DEF PartsInv

(* It holds at the start. *)
LEMMA PartsInit == StreamerInit => PartsInv
<1> SUFFICES ASSUME StreamerInit PROVE PartsInv
  OBVIOUS
<1>1. TP!Init /\ RP!RtcInit /\ SP!ServerInit /\ UdpInit
  BY SameTasksInit, SameRtcInit, SameServerInit DEF StreamerInit
<1>2. TP!ActorInv /\ TP!TasksInv
  BY <1>1, TP!TasksInvInit, ClientActorAssumption
<1>3. RP!RtcInv
  BY <1>1, RP!RtcInvInit, ClientActorAssumption
<1>4. SP!ServerInv
  BY <1>1, SP!ServerInvInit, ClientActorAssumption
<1> QED BY <1>1, <1>2, <1>3, <1>4, TypeInit, UdpRecvAssumption DEF PartsInv

(* The parts' invariants hold, and all of their steps are their own. *)
LEMMA PartsInvariant == StreamerSpec => []PartsInv
<1>1. PartsInv /\ [StreamerNext]_streamerVars => PartsInv'
  BY PartsStep
<1> QED BY <1>1, PartsInit, PTL DEF StreamerSpec

(* The two views start alike and stay so: a message registers in both, and *)
(* ClearData drops from both.                                              *)
LEMMA CoupledStep ==
  ASSUME PartsInv, Coupled, [StreamerNext]_streamerVars
  PROVE  Coupled'
<1>0. /\ sessions \in [User -> Age \cup {None}] /\ media_sessions \subseteq User
      /\ known \in [User -> SUBSET (Groups \X Roles)] /\ lists \in [User -> SUBSET Frequency]
  BY DEF PartsInv, UdpTypeOK, SP!ServerInv, SP!ServerTypeOK
<1>1. CASE UNCHANGED <<known, lists, sessions, media_sessions>>
  BY <1>1 DEF Coupled
<1>2. CASE TaskWork \/ (\E m \in messages : HandleBinding(m)) \/ ForwardWork
           \/ (\E u \in User, a \in Addr : Request(u, a)) \/ UNCHANGED streamerVars
  <2>1. UNCHANGED <<known, lists, sessions, media_sessions>>
    BY <1>2 DEF TaskWork, HandleBinding, ForwardWork, Request, Server!Handle, Server!Stun,
       Server!userVars, bindingVars, udpVars, recvVars, streamerVars
  <2> QED BY <1>1, <2>1
<1>3. CASE HttpWork
  <2>1. known' = known /\ lists' = lists /\ media_sessions' = media_sessions
    BY <1>3 DEF HttpWork, bindingVars, ReceiveOffer, AnswerOffer, CloseOffer, SendLine, Unpark,
       Tick, recvVars
  <2>2. sessions' = sessions \/ sessions' = [u \in User |-> Older(sessions[u])]
    BY <1>3 DEF HttpWork, ReceiveOffer, AnswerOffer, CloseOffer, SendLine, Unpark,
       Tick, recvVars
  <2>3. \A age \in Age \cup {None} : Older(age) # None <=> age # None
    BY UdpRecvAssumption DEF Older, Age, Expired
  <2> QED BY <1>0, <2>1, <2>2, <2>3 DEF Coupled
<1>4. CASE RegisterUser
  <2>0. PICK m \in Messages : m = Head(mailbox)
    BY <1>4, TailOutcome, UdpRecvAssumption DEF RegisterUser, HandleMessage, PartsInv
  <2>1. PICK u \in User : u = Head(mailbox).user
    BY <2>0, MessageFields, UdpRecvAssumption
  <2>2. Head(mailbox).age # None
    <3>1. m.age \in 0 .. Latency
      BY MessageFields, UdpRecvAssumption
    <3> QED BY <2>0, <3>1, UdpRecvAssumption
  <2>3. CASE Head(mailbox).kind = "session"
    <3>1. /\ sessions' = [sessions EXCEPT ![u] = Head(mailbox).age]
          /\ media_sessions' = media_sessions
      BY <1>4, <2>1, <2>3 DEF RegisterUser, HandleMessage
    <3>2. lists' = lists /\ \E g \in Groups, i \in Roles : known' = [known EXCEPT ![u] = {<<g, i>>}]
      BY <1>4, <2>1, <2>3 DEF RegisterUser, Server!Register
    <3> QED BY <1>0, <2>2, <3>1, <3>2 DEF Coupled
  <2>4. CASE Head(mailbox).kind = "media"
    <3>1. sessions' = sessions /\ media_sessions' = media_sessions \cup {u}
      BY <1>4, <2>1, <2>4 DEF RegisterUser, HandleMessage
    <3>2. /\ known' = known
          /\ \E f \in (SUBSET Frequency) \ {{}} : lists' = [lists EXCEPT ![u] = f]
      BY <1>4, <2>1, <2>4 DEF RegisterUser, Server!RegisterMedia
    <3> QED BY <1>0, <3>1, <3>2 DEF Coupled
  <2> QED BY <1>4, <2>3, <2>4 DEF RegisterUser
<1>5. CASE DropOldUsers
  <2>1. /\ sessions' = [u \in User |-> IF u \in ToRemove THEN None ELSE sessions[u]]
        /\ media_sessions' = media_sessions \ ToRemove
        /\ known' = [u \in User |-> IF u \in ToRemove THEN {} ELSE known[u]]
        /\ lists' = [u \in User |-> IF u \in ToRemove THEN {} ELSE lists[u]]
    BY <1>5 DEF DropOldUsers, ClearData, Server!Expire
  <2> QED BY <2>1 DEF Coupled
<1> QED BY <1>2, <1>3, <1>4, <1>5 DEF StreamerNext

(* So the two views agree always. *)
LEMMA TablesAgree == StreamerSpec => []Coupled
<1>1. StreamerInit => Coupled
  BY DEF StreamerInit, Server!ServerInit, UdpInit, Nobody, Coupled
<1>2. PartsInv /\ Coupled /\ [StreamerNext]_streamerVars => Coupled'
  BY CoupledStep
<1> QED BY <1>1, <1>2, PartsInvariant, PTL DEF StreamerSpec

-----------------------------------------------------------------------------
(***************************************************************************)
(* The whole implements every part.                                        *)
(***************************************************************************)

(* The DTLS side: the arbiter stands still while a handler waits for a     *)
(* lock, and binding requests name registered groups only; what is proved  *)
(* of DtlsTasks holds in the server.                                       *)
THEOREM StreamerImplementsTasks == StreamerSpec => Tasks!Spec
<1>1. StreamerInit => Tasks!Init
  BY DEF StreamerInit
<1>2. PartsInv /\ [StreamerNext]_streamerVars => [Tasks!Next]_(Tasks!vars)
  BY StepTasks DEF PartsInv, SP!ServerInv
<1> QED BY <1>1, <1>2, PartsInvariant, PTL DEF StreamerSpec, Tasks!Spec

(* Forwarding: keys are installed once, by the handshake of the client.    *)
THEOREM StreamerImplementsRtc == StreamerSpec => Rtc!RtcSpec
<1>1. StreamerInit => Rtc!RtcInit
  BY DEF StreamerInit
<1>2. PartsInv /\ [StreamerNext]_streamerVars => [Rtc!RtcNext]_(Rtc!rtcVars)
  BY StepRtc DEF PartsInv, SP!ServerInv
<1> QED BY <1>1, <1>2, PartsInvariant, PTL DEF StreamerSpec, Rtc!RtcSpec

(* Binding requests: clients are opened and deleted by DTLS tasks, sessions *)
(* come from offers and go with ClearData.                                 *)
THEOREM StreamerImplementsServer == StreamerSpec => Server!ServerSpec
<1>1. StreamerInit => Server!ServerInit
  BY DEF StreamerInit
<1>2. PartsInv /\ [StreamerNext]_streamerVars => [Server!ServerNext]_(Server!serverVars)
  BY StepServer DEF PartsInv
<1> QED BY <1>1, <1>2, PartsInvariant, PTL DEF StreamerSpec, Server!ServerSpec

(* Sessions: nothing else of the server touches UdpRecv's tables.          *)
THEOREM StreamerImplementsUdp == StreamerSpec => UdpSpec
<1>1. StreamerInit => UdpInit
  BY DEF StreamerInit
<1> QED BY <1>1, StepUdp, PTL DEF StreamerSpec, UdpSpec

-----------------------------------------------------------------------------
(***************************************************************************)
(* What the whole promises.                                                *)
(***************************************************************************)

(* Nothing keeps ClearData from running in the composition: the sessions   *)
(* it drops are known ones.                                                *)
LEMMA DroppedAreKnown == ASSUME Coupled PROVE \A u \in ToRemove : known[u] # {}
BY UdpRecvAssumption DEF Coupled, ToRemove, Age

(* A user that has its SDP answer is known to the handler of its binding   *)
(* requests until its registration runs out.                               *)
THEOREM AnsweredUsersAreKnown == StreamerSpec => []AnsweredIsKnown
<1>1. Coupled /\ AnsweredHasSession /\ AnsweredHasMedia => AnsweredIsKnown
  BY DEF Coupled, AnsweredHasSession, AnsweredHasMedia, AnsweredIsKnown
<1> QED BY <1>1, TablesAgree, StreamerImplementsUdp, AnsweredUsersHaveSessions,
           AnsweredUsersHaveMedia, UdpRecvAssumption, PTL

(* Packets stay in the group: behind the locks, on their way, and when     *)
(* they have been sent.                                                    *)
Grouped ==
  /\ \A c \in Client, a \in Addr :
       table[c][a] # NoClient => owner[c] # NoAddr /\ Server!Together(owner[c], a)
  /\ \A w \in Worker : from[w] # NoClient => owner[from[w]] # NoAddr
  /\ SentInGroup

(* Users stay joined, clients keep their addresses, and what a thread goes *)
(* by was decided by ClientActor for clients of one group.                 *)
LEMMA GroupedStep ==
  ASSUME PartsInv, Grouped, [StreamerNext]_streamerVars
  PROVE  Grouped'
<1> DEFINE After(a, b) == \E g \in Groups : <<g, a>> \in joined' /\ <<g, b>> \in joined'
<1>1. /\ [RP!RtcNext]_(RP!rtcVars) /\ [SP!ServerNext]_(SP!serverVars)
      /\ RP!RtcInv /\ RP!ActorInv
  BY PartsStep, SameActorInv DEF PartsInv
<1>2. joined \subseteq joined'
  BY <1>1 DEF SP!ServerNext, SP!Register, SP!RegisterMedia, SP!Expire, SP!Stun, SP!Handle,
     SP!Dtls, SP!serverVars
<1>3. \A a, b : Server!Together(a, b) => After(a, b)
  BY <1>2 DEF Server!Together
<1> HIDE DEF After
<1>4. \A c \in Client : owner[c] # NoAddr => owner'[c] = owner[c]
  <2>1. [RP!ActorNext]_(RP!actorVars) /\ RP!ActorTypeOK
    BY <1>1, RP!RtcStepActor, ClientActorAssumption DEF RP!ActorInv
  <2> QED BY <2>1, RP!OwnersStay, ClientActorAssumption
<1>5. /\ \A c \in Client, a \in Addr :
           receivers[c][a] # NoClient => owner[c] # NoAddr /\ Server!Together(owner[c], a)
      /\ \A c \in Client :
           sender_addr[c] # NoAddr => owner[c] # NoAddr /\ Server!Together(owner[c], sender_addr[c])
  <2>1. SP!MediaStaysInGroup
    BY DEF PartsInv, SP!ServerInv
  <2>2. RP!ActorTypeOK /\ RP!UnusedIsFresh
    BY <1>1 DEF RP!ActorInv
  <2>3. \A a, b : SP!Together(a, b) <=> Server!Together(a, b)
    BY DEF SP!Together, Server!Together
  <2>4. \A c \in Client, a \in Addr :
          receivers[c][a] # NoClient => Server!Together(owner[c], a)
    BY <2>1, <2>2, <2>3 DEF SP!MediaStaysInGroup, SP!Feeds, RP!ActorTypeOK
  <2>5. \A c \in Client : sender_addr[c] # NoAddr => Server!Together(owner[c], sender_addr[c])
    BY <2>1, <2>3 DEF SP!MediaStaysInGroup
  <2>6. \A c \in Client : owner[c] = NoAddr =>
          sender_addr[c] = NoAddr /\ \A a \in Addr : receivers[c][a] = NoClient
    BY <2>2 DEF RP!UnusedIsFresh, RP!NoReceivers
  <2> QED BY <2>4, <2>5, <2>6
<1>6. /\ \A c \in Client : table'[c] \in {table[c], receivers[c]}
      /\ \A w \in Worker : \/ from'[w] \in {from[w], NoClient}
                           \/ \E a \in Addr : from'[w] = client_storage[a]
  BY <1>1, RP!PacketOrigin, ClientActorAssumption
<1>7. \A c \in Client, a \in Addr :
        table'[c][a] # NoClient => owner'[c] # NoAddr /\ After(owner'[c], a)
  BY <1>3, <1>4, <1>5, <1>6 DEF Grouped
<1>8. ASSUME NEW w \in Worker, from'[w] # NoClient
      PROVE  owner'[from'[w]] # NoAddr
  <2>1. from[w] \in Client \cup {NoClient}
    BY <1>1 DEF RP!RtcInv, RP!RtcTypeOK
  <2>2. \A a \in Addr : client_storage[a] # NoClient =>
          client_storage[a] \in Client /\ owner[client_storage[a]] # NoAddr
    BY <1>1 DEF RP!ActorInv, RP!ActorTypeOK, RP!StorageIsLive, RP!Live
  <2>3. PICK c \in Client : c = from'[w] /\ owner[c] # NoAddr
    <3>1. CASE from'[w] = from[w]
      BY <1>8, <2>1, <3>1 DEF Grouped
    <3>2. CASE \E a \in Addr : from'[w] = client_storage[a]
      BY <1>8, <2>2, <3>2
    <3> QED BY <1>6, <1>8, <3>1, <3>2
  <2> QED BY <1>4, <2>3
<1>9. ASSUME NEW w \in Worker, NEW a \in sent'[w]
      PROVE  After(owner'[from'[w]], a)
  <2>1. /\ from'[w] = from[w] /\ from[w] \in Client
        /\ \/ a \in sent[w]
           \/ a \in Addr /\ table[from[w]][a] # NoClient
           \/ a = sender_addr[from[w]] /\ a # NoAddr
    BY <1>1, RP!SentWhereto, ClientActorAssumption
  <2>2. owner[from[w]] # NoAddr
    BY <2>1, ClientActorAssumption DEF Grouped
  <2>3. Server!Together(owner[from[w]], a)
    BY <1>5, <2>1 DEF Grouped, SentInGroup
  <2> QED BY <1>3, <1>4, <2>1, <2>2, <2>3
<1> QED BY <1>7, <1>8, <1>9 DEF After, Grouped, SentInGroup, Server!Together

(* No packet leaves the group of the one who sent it, from the offer that  *)
(* named the group to the socket.                                          *)
THEOREM PacketsStayInGroup == StreamerSpec => []SentInGroup
<1>1. StreamerInit => Grouped
  BY DEF StreamerInit, Rtc!RtcInit, Rtc!ActorInit, Rtc!NoReceivers, Grouped, SentInGroup
<1>2. PartsInv /\ Grouped /\ [StreamerNext]_streamerVars => Grouped'
  BY GroupedStep
<1>3. Grouped => SentInGroup
  BY DEF Grouped
<1> QED BY <1>1, <1>2, <1>3, PartsInvariant, PTL DEF StreamerSpec

(* No packet is sent to an address whose present client has not shaken     *)
(* hands.                                                                  *)
THEOREM PacketsFollowHandshakes == StreamerSpec => SentAfterHandshake
<1> DEFINE Sends == \A w \in Worker : \A a \in sent'[w] \ sent[w] :
             /\ client_storage[a] # NoClient /\ srtp[client_storage[a]]
             /\ pc[w] = "forward" => table[from[w]][a] = client_storage[a]
           Shaken == \A w \in Worker : \A a \in sent'[w] \ sent[w] :
             /\ client_storage[a] # NoClient
             /\ state[client_storage[a]] # "New" /\ srtp[client_storage[a]]
<1>1. StreamerSpec => [][Sends]_(RP!rtcVars)
  <2>1. StreamerSpec => RP!RtcSpec
    <3>1. StreamerInit => RP!RtcInit
      BY SameRtcInit DEF StreamerInit
    <3>2. PartsInv /\ [StreamerNext]_streamerVars => [RP!RtcNext]_(RP!rtcVars)
      BY PartsStep
    <3> QED BY <3>1, <3>2, PartsInvariant, PTL DEF StreamerSpec, RP!RtcSpec
  <2> QED BY <2>1, RP!PacketsGoToCurrentClients, ClientActorAssumption, PTL DEF RP!SentToCurrent
<1>2. PartsInv /\ PartsInv' /\ [Sends]_(RP!rtcVars) => [Shaken]_streamerVars
  <2> SUFFICES ASSUME PartsInv, PartsInv', [Sends]_(RP!rtcVars), NEW w \in Worker,
                      NEW a \in sent'[w] \ sent[w]
               PROVE  /\ client_storage[a] # NoClient
                      /\ state[client_storage[a]] # "New" /\ srtp[client_storage[a]]
    OBVIOUS
  <2>1. Sends
    BY DEF RP!rtcVars, RP!jobVars
  <2>2. a \in Addr
    BY DEF PartsInv, RP!RtcInv, RP!RtcTypeOK
  <2>3. client_storage[a] # NoClient /\ srtp[client_storage[a]] /\ client_storage[a] \in Client
    BY <2>1, <2>2 DEF PartsInv, TP!ActorInv, TP!ActorTypeOK
  <2> QED BY <2>3 DEF PartsInv, TP!TasksInv, TP!KeysFollowHandshake
<1> QED BY <1>1, <1>2, PartsInvariant, PTL DEF SentAfterHandshake

=============================================================================
