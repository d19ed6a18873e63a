------------------------------- MODULE DtlsTasks -------------------------------
(***************************************************************************)
(* The DTLS side of a client: every datagram of DTLS makes the ClientActor *)
(* spawn a task (src/src/client/actor.rs:72-125) that pushes the datagram  *)
(* to the connection, looks at the connection's state and then connects,   *)
(* reads or gives up, asking the actor to delete the client on failure.    *)
(*                                                                         *)
(* Tasks and handlers share one thread: a step runs from one await point   *)
(* to the next.  Several tasks of one client interleave at the awaits, and *)
(* a task keeps a pointer to a Client that may be deleted meanwhile.       *)
(*                                                                         *)
(*   push     waits for the incoming_writer lock, then pushes              *)
(*   pushDel  holds that lock and waits for its DeleteMessage              *)
(*   status   waits for the state lock to read the status                  *)
(*   connect  saw New, waits for the state lock                            *)
(*   shake    holds the state lock and accepts the handshake               *)
(*   extract  saw Connected, waits for the state lock, for 10 ms           *)
(*   read     holds the state lock and reads, for the rest of the 10 ms    *)
(*   del      waits for its DeleteMessage, the last thing it does          *)
(*                                                                         *)
(* The locks are fair queues; here any waiter may be next, and strong      *)
(* fairness says that none waits forever.  A lock await may also yield     *)
(* when the lock is free (the runtime's cooperative budget), which is why  *)
(* "connect" and "extract" are control points of their own.                *)
(***************************************************************************)
EXTENDS ClientActor

CONSTANTS Task  \* task slots: datagrams being worked on at the same time

VARIABLES
  pc,     \* where the task of a slot is, "idle" for a free slot
  ref,    \* client_ref of the task
  state,  \* Client.state: "New", "Connected" or "Shutdown"
  srtp    \* Client.srtp is Some

taskVars == <<pc, ref>>
connVars == <<state, srtp>>
vars     == <<actorVars, taskVars, connVars>>

TasksInit ==
  /\ pc = [t \in Task |-> "idle"]
  /\ ref = [t \in Task |-> NoClient]
  /\ state = [c \in Client |-> "New"]
  /\ srtp = [c \in Client |-> FALSE]

Init == ActorInit /\ TasksInit

-----------------------------------------------------------------------------

At(t, place) == Running /\ pc[t] = place

Goto(t, place) == pc' = [pc EXCEPT ![t] = place] /\ UNCHANGED ref

(* The task ends: its slot and its pointer are free. *)
Finish(t) ==
  /\ pc' = [pc EXCEPT ![t] = "idle"]
  /\ ref' = [ref EXCEPT ![t] = NoClient]

(* Wrong on purpose, for mutation: the status guard is not dropped. *)
HoldsStateFromStatus(t) == pc[t] \in {"connect", "shake", "read"}

(* The guard of Client.state lives across these awaits only. *)
HoldsState(t) == pc[t] \in {"shake", "read"}

StateFree(c) == \A t \in Task : ref[t] = c => ~HoldsState(t)

WriterFree(c) == \A t \in Task : ref[t] = c => pc[t] # "pushDel"

(* The reading end of the incoming channel lives in the stream of a New or *)
(* Connected state, or in the handshake that took the stream out of it.    *)
ChannelOpen(c) ==
  state[c] # "Shutdown" \/ \E t \in Task : ref[t] = c /\ pc[t] = "shake"

(* Handler<WebRtcRequest>, the Dtls arm: the client of the address, or a   *)
(* new one, and a new task.  The outgoing stream is attached when the      *)
(* client is new, since nothing but this handler sets dtls_connected.      *)
Dtls(t, a) ==
  /\ At(t, "idle")
  /\ pc' = [pc EXCEPT ![t] = "push"]
  /\ \/ /\ client_storage[a] # NoClient
        /\ ref' = [ref EXCEPT ![t] = client_storage[a]]
        /\ UNCHANGED actorVars
     \/ \E c \in Client :
          /\ OpenClient(a, c)
          /\ ref' = [ref EXCEPT ![t] = c]
  /\ UNCHANGED connVars

(* push_dtls fails when the reading end is gone; the writer lock is then   *)
(* held until the actor has answered the DeleteMessage.                    *)
Push(t) ==
  /\ At(t, "push")
  /\ WriterFree(ref[t])
  /\ Goto(t, IF ChannelOpen(ref[t]) THEN "status" ELSE "pushDel")
  /\ UNCHANGED <<actorVars, connVars>>

(* The DeleteMessage of a failed push; the task goes on all the same. *)
PushDelete(t) ==
  /\ At(t, "pushDel")
  /\ DeleteMessage(owner[ref[t]])
  /\ Goto(t, "status")
  /\ UNCHANGED connVars

(* Wrong on purpose, for mutation: the Shutdown arm deletes as well. *)
StatusDeletes(t) ==
  /\ At(t, "status")
  /\ StateFree(ref[t])
  /\ \/ state[ref[t]] = "New" /\ Goto(t, "connect") /\ UNCHANGED actorVars
     \/ state[ref[t]] = "Connected" /\ Goto(t, "extract") /\ UNCHANGED actorVars
     \/ state[ref[t]] = "Shutdown" /\ Finish(t) /\ DeleteMessage(owner[ref[t]])
  /\ UNCHANGED connVars

(* The status is read under the lock, and used after it is dropped. *)
Status(t) ==
  /\ At(t, "status")
  /\ StateFree(ref[t])
  /\ \/ state[ref[t]] = "New" /\ Goto(t, "connect")
     \/ state[ref[t]] = "Connected" /\ Goto(t, "extract")
     \/ state[ref[t]] = "Shutdown" /\ Finish(t)
  /\ UNCHANGED <<actorVars, connVars>>

(* Wrong on purpose, for mutation: a late connect handshakes once more. *)
ConnectAgain(t) ==
  /\ At(t, "connect")
  /\ StateFree(ref[t])
  /\ state' = [state EXCEPT ![ref[t]] = "Shutdown"]
  /\ Goto(t, "shake")
  /\ UNCHANGED <<actorVars, srtp>>

(* connect, up to the handshake.  Ssl::new may fail before the state is    *)
(* touched; after that Shutdown replaces whatever the state was, and only  *)
(* a New stream goes on to the handshake (unless SslStream::new fails).    *)
Connect(t) ==
  /\ At(t, "connect")
  /\ StateFree(ref[t])
  /\ \/ Goto(t, "del") /\ UNCHANGED state
     \/ /\ state' = [state EXCEPT ![ref[t]] = "Shutdown"]
        /\ Goto(t, "del")
     \/ /\ state[ref[t]] = "New"
        /\ state' = [state EXCEPT ![ref[t]] = "Shutdown"]
        /\ Goto(t, "shake")
  /\ UNCHANGED <<actorVars, srtp>>

(* Wrong on purpose, for mutation: a failed handshake is only logged. *)
AcceptForgetful(t) ==
  /\ At(t, "shake")
  /\ Finish(t)
  /\ \/ /\ state' = [state EXCEPT ![ref[t]] = "Connected"]
        /\ srtp' = [srtp EXCEPT ![ref[t]] = TRUE]
     \/ UNCHANGED connVars
  /\ UNCHANGED actorVars

(* The handshake ends: Connected with keys, or failed (by the peer, by the *)
(* 10 s timeout, or in SrtpTransport::new) with the state left Shutdown.   *)
Accept(t) ==
  /\ At(t, "shake")
  /\ \/ /\ state' = [state EXCEPT ![ref[t]] = "Connected"]
        /\ srtp' = [srtp EXCEPT ![ref[t]] = TRUE]
        /\ Finish(t)
     \/ /\ Goto(t, "del")
        /\ UNCHANGED connVars
  /\ UNCHANGED actorVars

(* extract_dtls, up to the read; the timeout may come first. *)
Extract(t) ==
  /\ At(t, "extract")
  /\ \/ Finish(t)
     \/ /\ StateFree(ref[t])
        /\ IF state[ref[t]] = "Connected" THEN Goto(t, "read") ELSE Finish(t)
  /\ UNCHANGED <<actorVars, connVars>>

(* Wrong on purpose, for mutation: a failed read shuts the state down. *)
ReadShutsDown(t) ==
  /\ At(t, "read")
  /\ \/ Goto(t, "del") /\ UNCHANGED state
     \/ Finish(t) /\ state' = [state EXCEPT ![ref[t]] = "Shutdown"]
  /\ UNCHANGED <<actorVars, srtp>>

(* The read: Ok(0), the peer closed the connection; or data, an error or   *)
(* the timeout, which are ignored.                                         *)
ReadDtls(t) ==
  /\ At(t, "read")
  /\ Goto(t, "del") \/ Finish(t)
  /\ UNCHANGED <<actorVars, connVars>>

(* The last DeleteMessage of a task, and its answer. *)
Delete(t) ==
  /\ At(t, "del")
  /\ DeleteMessage(owner[ref[t]])
  /\ Finish(t)
  /\ UNCHANGED connVars

(* What a task does by itself once its packet has arrived. *)
TaskStep(t) ==
  \/ Push(t) \/ PushDelete(t) \/ Status(t) \/ Connect(t)
  \/ Accept(t) \/ Extract(t) \/ ReadDtls(t) \/ Delete(t)

(* Binding requests, which the UdpRecv actor forwards. *)
Binding ==
  /\ \/ \E g \in Groups, a \in Addr, is_sender \in Roles : GroupId(g, a, is_sender)
     \/ \E a \in Addr, freqs \in SUBSET Frequency : MediaAddr(a, freqs)
  /\ UNCHANGED <<taskVars, connVars>>

Next ==
  \/ \E t \in Task, a \in Addr : Dtls(t, a)
  \/ \E t \in Task : TaskStep(t)
  \/ Binding

(* The runtime polls every ready task, and its locks are first-in-first-   *)
(* out queues: a waiter whose lock is released again and again gets it.    *)
(* The handshake and the read end because of their timeouts.  A task has   *)
(* one step enabled at a time, so one strong fairness condition does.      *)
TaskFairness == \A t \in Task : SF_vars(TaskStep(t))

Spec == Init /\ [][Next]_vars

FairSpec == Spec /\ TaskFairness

-----------------------------------------------------------------------------
(***************************************************************************)
(* Properties.                                                             *)
(***************************************************************************)

Places == {"idle", "push", "pushDel", "status", "connect", "shake",
           "extract", "read", "del"}

(* Type invariant of the tasks and connections; a task has a client_ref   *)
(* from the packet that spawned it (actor.rs:72) until it ends.           *)
TasksTypeOK ==
  /\ pc \in [Task -> Places]
  /\ ref \in [Task -> Client \cup {NoClient}]
  /\ state \in [Client -> {"New", "Connected", "Shutdown"}]
  /\ srtp \in [Client -> BOOLEAN]
  /\ \A t \in Task : pc[t] = "idle" <=> ref[t] = NoClient

(* Some task of c is at one of the places. *)
Attended(c, places) == \E t \in Task : ref[t] = c /\ pc[t] \in places

(* No client is forgotten: while it is listed, it is connected, or a task  *)
(* is on its way to connect it, or to have it deleted.  A listed client    *)
(* that is neither would swallow every later packet of its address (the    *)
(* Shutdown arm, actor.rs:121, does nothing) and block its reconnection.   *)
NoOrphan ==
  \A a \in Addr :
    LET c == client_storage[a] IN
    c # NoClient =>
      \/ state[c] = "Connected"
      \/ state[c] = "New" /\ Attended(c, {"push", "status", "connect", "del"})
      \/ state[c] = "Shutdown" /\ Attended(c, {"shake", "del"})

(* The keys belong to the connection: a Connected client has its SRTP      *)
(* transport, and none is installed before or during the handshake.        *)
KeysFollowHandshake ==
  \A c \in Client :
    /\ state[c] = "Connected" => srtp[c]
    /\ srtp[c] => state[c] # "New" /\ ~Attended(c, {"shake"})

(* A task points to a Client that was opened; an unopened one is New. *)
RefsAreOpened ==
  /\ \A t \in Task : ref[t] # NoClient => owner[ref[t]] # NoAddr
  /\ \A c \in Client : owner[c] = NoAddr => state[c] = "New" /\ ~srtp[c]

(* The state lock has one holder, and a handshake has taken the stream. *)
StateLocked ==
  /\ \A t, u \in Task : ref[t] = ref[u] /\ HoldsState(t) /\ HoldsState(u) => t = u
  /\ \A t \in Task : pc[t] = "shake" => state[ref[t]] = "Shutdown"

(* What the proofs carry from step to step, together with ActorInv. *)
TasksInv ==
  TasksTypeOK /\ RefsAreOpened /\ StateLocked /\ KeysFollowHandshake /\ NoOrphan

(* An established connection is only torn down (connector.rs:34) by a task *)
(* that read the status before the handshake started: whoever has seen the *)
(* connection up never shuts it down.                                      *)
OnlyLateConnectShutsDown ==
  [][\A c \in Client :
       state[c] = "Connected" /\ state'[c] # "Connected" =>
         \E t \in Task : ref[t] = c /\ pc[t] = "connect" /\ pc'[t] = "del"]_vars

(* A DeleteMessage names an address, not a client.  It removes a client    *)
(* the asking task does not point to only when the task's own client is    *)
(* deleted already: the late message of a predecessor.                     *)
DeletedByOwnOrPredecessor ==
  [][\A c \in Client :
       ~is_deleted[c] /\ is_deleted'[c] =>
         \E t \in Task :
           /\ pc[t] \in {"del", "pushDel"}
           /\ owner[ref[t]] = owner[c]
           /\ ref[t] = c \/ is_deleted[ref[t]]]_vars

(* Every packet's task ends: no task waits forever for a lock, an answer   *)
(* or the peer, unless the actor itself is stuck.                          *)
TasksEnd == \A t \in Task : pc[t] # "idle" ~> (pc[t] = "idle" \/ ~Running)

(* A listed client whose connection is gone is deleted in the end, so that *)
(* its address can connect again.                                          *)
DownIsDeleted ==
  \A c \in Client :
    (owner[c] # NoAddr /\ state[c] = "Shutdown" /\ ~Attended(c, {"shake"}))
      ~> (is_deleted[c] \/ ~Running)

(* The abstract life of a Client that this specification implements. *)
Phase(c) ==
  CASE state[c] = "New"       -> "new"
    [] state[c] = "Connected" -> "up"
    [] state[c] = "Shutdown"  -> IF Attended(c, {"shake"}) THEN "shaking" ELSE "down"

Listed(c) == \E a \in Addr : client_storage[a] = c

Life == INSTANCE ClientLifecycle WITH
          phase  <- [c \in Client |-> Phase(c)],
          listed <- [c \in Client |-> Listed(c)],
          keyed  <- srtp

(* Tasks, locks and messages together keep the promise of ClientLifecycle: *)
(* one handshake per Client, phases in order, keys with the connection,    *)
(* one listed Client per address.                                          *)
ImplementsLifecycle == Life!LifeSpec

=============================================================================
