-------------------------------- MODULE Outgoing --------------------------------
(***************************************************************************)
(* The way of a DTLS record from the SSL state machine to the socket:      *)
(* AsyncWrite puts it into an unbounded channel (src/src/client/stream.rs: *)
(* 111-154), a stream that ClientActor polls takes it out (41-61), the     *)
(* handler of DtlsMessage spawns a task that sends it to UdpSend (src/src/ *)
(* client/actor.rs:136-155), which spawns the datagram's transmission      *)
(* (src/src/server/udp.rs:292-299, 382-390). Tasks run in any order, so    *)
(* only the channel keeps the order of records.                            *)
(*                                                                         *)
(* The channel is closed when the SSL stream is dropped: after a failed    *)
(* handshake, or with the last reference to its Client (ClientActor,       *)
(* LeakFree).                                                              *)
(***************************************************************************)
EXTENDS Naturals

CONSTANTS
  Client,     \* Client objects
  MaxRecords  \* bound on the records a client writes

ASSUME OutgoingAssumption == MaxRecords \in Nat

Record == 1 .. MaxRecords

VARIABLES
  at,      \* where each record of each client is
  open,    \* the SSL stream of the client exists, and with it the writer
  stream   \* the message stream of ClientActor: "none", "running", "ended"

outgoingVars == <<at, open, stream>>

OutgoingInit ==
  /\ at = [c \in Client |-> [n \in Record |-> "unwritten"]]
  /\ open = [c \in Client |-> TRUE]
  /\ stream = [c \in Client |-> "none"]

Move(c, n, from, to) ==
  /\ at[c][n] = from
  /\ at' = [at EXCEPT ![c][n] = to]

(* The oldest record in the channel, or the next one to write. *)
Oldest(c, n, place) == \A m \in Record : at[c][m] = place => n <= m

(* dtls_connected and make_connected: the first packet adds the stream. *)
Start(c) ==
  /\ stream[c] = "none"
  /\ stream' = [stream EXCEPT ![c] = "running"]
  /\ UNCHANGED <<at, open>>

(* poll_write: only tasks that a packet has spawned drive the SSL stream. *)
Write(c, n) ==
  /\ open[c] /\ stream[c] # "none"
  /\ Oldest(c, n, "unwritten")
  /\ Move(c, n, "unwritten", "channel")
  /\ UNCHANGED <<open, stream>>

(* The SSL stream is dropped. *)
Close(c) ==
  /\ open[c] /\ stream[c] # "none"
  /\ open' = [open EXCEPT ![c] = FALSE]
  /\ UNCHANGED <<at, stream>>

(* outgoing_stream yields a record, and the handler spawns its task. *)
Yield(c, n) ==
  /\ stream[c] = "running"
  /\ Oldest(c, n, "channel")
  /\ Move(c, n, "channel", "task")
  /\ UNCHANGED <<open, stream>>

(* Wrong on purpose, for mutation: what a closed channel holds is dropped. *)
TerminatedAtClose(c) == ~open[c]

(* Wrong on purpose, for mutation: closing is not noticed. *)
TerminatedNever(c) == FALSE

(* next() returns None: the channel is closed and empty. *)
Terminated(c) == ~open[c] /\ \A n \in Record : at[c][n] # "channel"

EndStream(c) ==
  /\ stream[c] = "running" /\ Terminated(c)
  /\ stream' = [stream EXCEPT ![c] = "ended"]
  /\ UNCHANGED <<at, open>>

(* The task's send puts the record into the mailbox of UdpSend. *)
Post(c, n) == Move(c, n, "task", "mailbox") /\ UNCHANGED <<open, stream>>

(* UdpSend, Dtls arm: the transmission is spawned. *)
Transmit(c, n) == Move(c, n, "mailbox", "socket") /\ UNCHANGED <<open, stream>>

(* UdpMassSender: the socket took the datagram, or the error is logged. *)
Finish(c, n) ==
  /\ \/ Move(c, n, "socket", "sent")
     \/ Move(c, n, "socket", "failed")
  /\ UNCHANGED <<open, stream>>

TaskStep(c, n) == Post(c, n) \/ Transmit(c, n) \/ Finish(c, n)

StreamStep(c) == EndStream(c) \/ \E n \in Record : Yield(c, n)

OutgoingNext ==
  \E c \in Client :
    \/ Start(c)
    \/ Close(c)
    \/ StreamStep(c)
    \/ \E n \in Record : Write(c, n) \/ TaskStep(c, n)

OutgoingSpec == OutgoingInit /\ [][OutgoingNext]_outgoingVars

(* ClientActor polls its streams, and both actors their tasks. *)
OutgoingFairSpec ==
  /\ OutgoingSpec
  /\ \A c \in Client : WF_outgoingVars(StreamStep(c))
  /\ \A c \in Client, n \in Record : WF_outgoingVars(TaskStep(c, n))

-----------------------------------------------------------------------------
(***************************************************************************)
(* Properties.                                                             *)
(***************************************************************************)

(* Every record that the SSL state machine writes reaches the socket. *)
WrittenLeaves ==
  \A c \in Client, n \in Record : at[c][n] = "channel" ~> at[c][n] \in {"sent", "failed"}

(* ClientActor does not collect streams of closed connections. *)
StreamEnds == \A c \in Client : ~open[c] ~> stream[c] = "ended"

=============================================================================
