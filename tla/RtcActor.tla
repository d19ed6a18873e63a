-------------------------------- MODULE RtcActor --------------------------------
(***************************************************************************)
(* Forwarding (src/src/client/rtc_actor.rs). RtcActor's threads read the   *)
(* tables of ClientActor while ClientActor changes them on its own thread, *)
(* under the receivers lock of each Client:                                *)
(*                                                                         *)
(*   - a handler of ClientActor decides, and then waits for the receivers  *)
(*     lock of one Client; receivers is what it has decided, table is what *)
(*     the lock protects and the threads see;                              *)
(*   - a thread holds the lock of its packet's Client from line 159 until  *)
(*     the packet is sent to all receivers, which it serves in any order;  *)
(*   - a waiting writer keeps new readers out (parking_lot).               *)
(*                                                                         *)
(* The other locks (client_storage, srtp, media, sender_addr, statistics)  *)
(* are held for steps that wait for nothing but each other in one order;   *)
(* such a step is one action. What a packet's numbers become is in module  *)
(* Renumber, its payload type in module MediaList.                         *)
(***************************************************************************)
EXTENDS ClientActor

CONSTANT Worker   \* RtcActor's threads

VARIABLES
  table,     \* Client.receivers, behind its lock
  writing,   \* the Client whose receivers lock ClientActor waits for
  srtp,      \* Client.srtp: whether its keys are installed
  pc,        \* where each thread is
  from,      \* the Client whose packet it handles
  is_rtcp,   \* whether the packet is RTCP
  todo,      \* receivers it has not come to
  sent,      \* addresses it has sent the packet to
  failed,    \* a receiver's error has ended try_for_each
  hindered   \* a live receiver had no keys at the lock, or its encryption failed

lockVars == <<table, writing, srtp>>
jobVars  == <<from, is_rtcp, todo, sent, failed, hindered>>
rtcVars  == <<actorVars, lockVars, pc, jobVars>>

RtcInit ==
  /\ ActorInit
  /\ table = receivers
  /\ writing = NoClient
  /\ srtp = [c \in Client |-> FALSE]
  /\ pc = [w \in Worker |-> "idle"]
  /\ from = [w \in Worker |-> NoClient]
  /\ is_rtcp = [w \in Worker |-> FALSE]
  /\ todo = [w \in Worker |-> {}]
  /\ sent = [w \in Worker |-> {}]
  /\ failed = [w \in Worker |-> FALSE]
  /\ hindered = [w \in Worker |-> FALSE]

-----------------------------------------------------------------------------
(***************************************************************************)
(* ClientActor's thread.                                                   *)
(***************************************************************************)

Open(a, c) == OpenClient(a, c) /\ UNCHANGED writing

Delete(a) == DeleteMessage(a) /\ writing' = client_storage[a]

(* A handover waits for ever, and is in blocked. *)
Group(g, a, is_sender) ==
  LET last == LastSender(g, a) IN
  /\ GroupId(g, a, is_sender)
  /\ writing' =
       IF \/ ReturnsEarly(last, a, is_sender) \/ Displaces(last, a, is_sender)
          \/ client_storage[a] = NoClient
       THEN NoClient ELSE client_storage[last]

Media(a, freqs) == MediaAddr(a, freqs) /\ UNCHANGED writing

Handler ==
  /\ writing = NoClient
  /\ \/ \E a \in Addr, c \in Client : Open(a, c)
     \/ \E a \in Addr : Delete(a)
     \/ \E g \in Groups, a \in Addr, is_sender \in Roles : Group(g, a, is_sender)
     \/ \E a \in Addr, freqs \in SUBSET Frequency : Media(a, freqs)
  /\ UNCHANGED <<table, srtp, pc, jobVars>>

(* A DTLS task has finished its handshake. *)
InstallKeys(c) ==
  /\ Running /\ writing = NoClient
  /\ owner[c] # NoAddr /\ ~srtp[c]
  /\ srtp' = [srtp EXCEPT ![c] = TRUE]
  /\ UNCHANGED <<actorVars, table, writing, pc, jobVars>>

Reads(w, c) == pc[w] \in {"forward", "feedback"} /\ from[w] = c

(* The handler has the lock, writes and ends. *)
Write ==
  /\ writing # NoClient
  /\ \A w \in Worker : ~Reads(w, writing)
  /\ table' = [table EXCEPT ![writing] = receivers[writing]]
  /\ writing' = NoClient
  /\ UNCHANGED <<actorVars, srtp, pc, jobVars>>

-----------------------------------------------------------------------------
(***************************************************************************)
(* RtcActor's threads.                                                     *)
(***************************************************************************)

Goto(w, here, there) == pc[w] = here /\ pc' = [pc EXCEPT ![w] = there]

(* A packet comes from a; without a client it is dropped. *)
Take(w, a, rtcp) ==
  /\ client_storage[a] # NoClient
  /\ Goto(w, "idle", "decrypt")
  /\ from' = [from EXCEPT ![w] = client_storage[a]]
  /\ is_rtcp' = [is_rtcp EXCEPT ![w] = rtcp]
  /\ UNCHANGED <<actorVars, lockVars, todo, sent, failed, hindered>>

(* The packet is done with, and its locks are released. *)
Done(w, here) ==
  /\ Goto(w, here, "idle")
  /\ from' = [from EXCEPT ![w] = NoClient]
  /\ is_rtcp' = [is_rtcp EXCEPT ![w] = FALSE]
  /\ todo' = [todo EXCEPT ![w] = {}]
  /\ sent' = [sent EXCEPT ![w] = {}]
  /\ failed' = [failed EXCEPT ![w] = FALSE]
  /\ hindered' = [hindered EXCEPT ![w] = FALSE]
  /\ UNCHANGED <<actorVars, lockVars>>

(* ClientNotReady, or one of the errors of a packet. *)
Refuse(w) == Done(w, "decrypt")

Decrypt(w) ==
  /\ Goto(w, "decrypt", "lock")
  /\ srtp[from[w]]
  /\ UNCHANGED <<actorVars, lockVars, jobVars>>

Filed(c) == {a \in Addr : table[c][a] # NoClient}

(* Wrong on purpose, for mutation: readers pass a waiting writer. *)
FreeToReadBeside(c) == c # blocked

FreeToRead(c) == c \notin {writing, blocked}

(* The thread gets the receivers lock. *)
Lock(w) ==
  LET c == from[w] IN
  /\ pc[w] = "lock" /\ FreeToRead(c)
  /\ pc' = [pc EXCEPT ![w] =
       IF is_rtcp[w] /\ Filed(c) = {} THEN "feedback" ELSE "forward"]
  /\ todo' = [todo EXCEPT ![w] = Filed(c)]
  /\ hindered' = [hindered EXCEPT ![w] =
       \E a \in Filed(c) : ~is_deleted[table[c][a]] /\ ~srtp[table[c][a]]]
  /\ UNCHANGED <<actorVars, lockVars, from, is_rtcp, sent, failed>>

(* Wrong on purpose, for mutation: the filter is left out. *)
SkippedNone(r) == FALSE

Skipped(r) == is_deleted[r]

(* One receiver: skipped, served, or the end of try_for_each. *)
Forward(w, a) ==
  LET r == table[from[w]][a] IN
  /\ pc[w] = "forward" /\ ~failed[w] /\ a \in todo[w]
  /\ todo' = [todo EXCEPT ![w] = @ \ {a}]
  /\ sent' = IF ~Skipped(r) /\ srtp[r] THEN [sent EXCEPT ![w] = @ \cup {a}] ELSE sent
  /\ failed' = [failed EXCEPT ![w] = ~Skipped(r) /\ ~srtp[r]]
  /\ UNCHANGED <<actorVars, lockVars, pc, from, is_rtcp, hindered>>

(* protect or protect_rtcp returns an error: the end of try_for_each, too. *)
Unprotected(w, a) ==
  LET r == table[from[w]][a] IN
  /\ pc[w] = "forward" /\ a \in todo[w] /\ ~Skipped(r) /\ srtp[r]
  /\ todo' = [todo EXCEPT ![w] = @ \ {a}]
  /\ failed' = [failed EXCEPT ![w] = TRUE]
  /\ hindered' = [hindered EXCEPT ![w] = TRUE]
  /\ UNCHANGED <<actorVars, lockVars, pc, from, is_rtcp, sent>>

(* Receivers that other threads of rayon have come to meanwhile are served *)
(* before the packet is done.                                              *)
ForwardBeside(w, a) ==
  LET r == table[from[w]][a] IN
  /\ pc[w] = "forward" /\ failed[w] /\ a \in todo[w]
  /\ ~Skipped(r) /\ srtp[r]
  /\ todo' = [todo EXCEPT ![w] = @ \ {a}]
  /\ sent' = [sent EXCEPT ![w] = @ \cup {a}]
  /\ UNCHANGED <<actorVars, lockVars, pc, from, is_rtcp, failed, hindered>>

EndForward(w) == (todo[w] = {} \/ failed[w]) /\ Done(w, "forward")

(* Where the RTCP of a client without receivers goes: to the present       *)
(* client of sender_addr, if it has keys and protect_rtcp succeeds.        *)
FeedbackTo(c) ==
  {a \in {sender_addr[c]} \ {NoAddr} :
     client_storage[a] # NoClient /\ srtp[client_storage[a]]}

(* Wrong on purpose, for mutation: the lock is taken again while it is held. *)
FeedbackReadsAgain(w) ==
  /\ FreeToRead(from[w])
  /\ Goto(w, "feedback", "forward")
  /\ \E to \in {FeedbackTo(from[w]), {}} : sent' = [sent EXCEPT ![w] = to]
  /\ UNCHANGED <<actorVars, lockVars, from, is_rtcp, todo, failed, hindered>>

Feedback(w) ==
  /\ Goto(w, "feedback", "forward")
  /\ \E to \in {FeedbackTo(from[w]), {}} : sent' = [sent EXCEPT ![w] = to]
  /\ UNCHANGED <<actorVars, lockVars, from, is_rtcp, todo, failed, hindered>>

WorkerStep(w) ==
  \/ Refuse(w) \/ Decrypt(w) \/ Lock(w) \/ EndForward(w) \/ Feedback(w)
  \/ \E a \in Addr : Forward(w, a) \/ ForwardBeside(w, a) \/ Unprotected(w, a)

RtcNext ==
  \/ Handler
  \/ \E c \in Client : InstallKeys(c)
  \/ Write
  \/ \E w \in Worker, a \in Addr, rtcp \in BOOLEAN : Take(w, a, rtcp)
  \/ \E w \in Worker : WorkerStep(w)

RtcSpec == RtcInit /\ [][RtcNext]_rtcVars

(* Threads go on when they can, and so does the handler that waits for a   *)
(* lock. A thread that waits for a lock that is free again and again gets  *)
(* it: parking_lot hands locks over fairly now and then.                   *)
RtcFairSpec ==
  /\ RtcSpec
  /\ WF_rtcVars(Write)
  /\ \A w \in Worker : SF_rtcVars(WorkerStep(w))

-----------------------------------------------------------------------------
(***************************************************************************)
(* Properties.                                                             *)
(***************************************************************************)

Busy(w) == pc[w] # "idle"

(* Type invariant of the threads; only the table that is being written     *)
(* lags behind what ClientActor has decided.                               *)
RtcTypeOK ==
  /\ table \in [Client -> [Addr -> Client \cup {NoClient}]]
  /\ writing \in Client \cup {NoClient}
  /\ srtp \in [Client -> BOOLEAN]
  /\ pc \in [Worker -> {"idle", "decrypt", "lock", "forward", "feedback"}]
  /\ from \in [Worker -> Client \cup {NoClient}]
  /\ todo \in [Worker -> SUBSET Addr] /\ sent \in [Worker -> SUBSET Addr]
  /\ \A c \in Client \ {writing} : table[c] = receivers[c]

(* A receiver whose handshake is not over, or whose encryption fails,      *)
(* makes a packet miss others, since its error ends the loop over the      *)
(* receivers; nothing else does: when every live receiver had its keys as  *)
(* the thread took the lock, the packet is sent to all of them that are    *)
(* live at the end, whoever is deleted, attached or connected meanwhile.   *)
NobodyMissed ==
  [][\A w \in Worker :
       pc[w] = "forward" /\ pc'[w] = "idle" /\ ~hindered[w] =>
         \A a \in Filed(from[w]) : is_deleted[table[from[w]][a]] \/ a \in sent[w]]_rtcVars

(* When no session declares itself a sender: no client gets its own        *)
(* packets back, neither as a receiver of its own media nor as the target  *)
(* of its own feedback.                                                    *)
NoEcho ==
  \A w \in Worker : from[w] # NoClient => owner[from[w]] \notin sent[w]

(* Wherever a thread sends a packet, that address has a client now, with   *)
(* keys, and a packet for a receiver is encrypted with the keys of that    *)
(* client: never with those of a connection that was replaced, although    *)
(* the thread goes by the table behind the lock (line 181), which lags     *)
(* behind what ClientActor has decided.                                    *)
SentToCurrent ==
  [][\A w \in Worker : \A a \in sent'[w] \ sent[w] :
       /\ client_storage[a] # NoClient /\ srtp[client_storage[a]]
       /\ pc[w] = "forward" => table[from[w]][a] = client_storage[a]]_rtcVars

(* Every thread finishes its packet, though it waits for handlers that     *)
(* wait for other threads. Only a packet of the Client whose lock          *)
(* ClientActor waits for itself (actor.rs:204) stays where it is.          *)
PacketsEnd == \A w \in Worker : Busy(w) ~> (~Busy(w) \/ from[w] = blocked)

(* A handler of ClientActor that waits for a receivers lock gets it, though *)
(* threads forward packets under the same lock all the time: a writer that *)
(* waits keeps new readers out.                                            *)
HandlersEnd == writing # NoClient ~> writing = NoClient

=============================================================================
