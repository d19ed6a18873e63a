# r-streamer in TLA+

A verification development for r-streamer, a WebRTC selective forwarding server:
TLA+ modules translated from `src/src/`, TLC configurations for small
instances, and TLAPS proofs for every instance.

## The system

| part | state | operations | where |
|---|---|---|---|
| HTTP server, SDP answer | none | register the users of an offer with UdpRecv, then answer | `main.rs`, `sdp/mod.rs` |
| MediaList | payload type ↔ codec, clock rates | built once per offer line | `sdp/media.rs` |
| UdpRecv | `sessions`, `media_sessions` | SessionMessage, MediaUserMessage, ClearData; dispatch of datagrams | `server/udp.rs` |
| packet classification | none | STUN, DTLS, RTP/RTCP or unknown | `server/udp.rs`, `dtls/mod.rs`, `rtp/core.rs` |
| STUN | none | parse a binding request, lay out the response | `stun/mod.rs` |
| ClientActor | `client_storage`, `groups` | Dtls packets, DeleteMessage, GroupId, MediaAddrMessage, outgoing DtlsMessage | `client/actor.rs`, `client/group.rs` |
| Client | DTLS state, channels, media, SRTP keys, RTP runtimes, jitter estimate, receivers, sender address, flags | shared by tasks and threads | `client/clients.rs`, `client/stream.rs` |
| DTLS tasks | one future per datagram | push, read the status, connect or read, delete | `client/actor.rs:72-125`, `client/dtls.rs`, `dtls/connector.rs` |
| RtcActor | none of its own, works on Client | decrypt, renumber, estimate jitter, forward | `client/rtc_actor.rs` |
| JitterControlActor | a buffer and a delay per address | store or flush, increase, decrease | `rtp/jitter.rs` |
| SRTP | libsrtp contexts | protect, unprotect | `rtp/srtp.rs` |
| UdpSend, crypto, meta | constants | send a datagram | `server/` |

UdpRecv, UdpSend, ClientActor and JitterControlActor share one arbiter thread:
their handlers run to completion one at a time, and the futures they spawn
interleave at their await points. RtcActor is a pool of threads, and HTTP
requests run on workers of their own. The hard behaviours follow from that:
tasks that act on a status read earlier, messages that name an address whose
client has been replaced, a mailbox that overflows, locks that are not
reentrant, timers that compete with slow requests. `PROJECT.json` lists them as
hazards, each at its line with the properties about it.

## Modules

| module | models |
|---|---|
| `ClientActor` | the registry: address → client, group → sender, receiver tables, media; one action per handler |
| `DtlsTasks` | extends it with the packet tasks, the DTLS state and its locks; decides when clients are opened and deleted |
| `ClientLifecycle` | abstract: what registry and tasks promise about one client |
| `UdpRecv` | sessions and media lists, their registration over HTTP, their expiry |
| `Server` | extends the registry with UdpRecv's tables: binding requests become messages to it |
| `RtcActor` | extends the registry with the threads that forward packets under the receivers locks |
| `Renumber` | sequence numbers and timestamps of forwarded packets |
| `Jitter` | JitterControlActor's buffer, its flushes, and the estimate in RtcActor |
| `MediaList` | the codec tables of an offer, the answer's codec filter, the payload type of a forwarded packet |
| `Stun` | what a datagram is taken for, the scan of a binding request, the layout of its response |
| `Outgoing` | DTLS records from OpenSSL to the socket |
| `Streamer` | the whole server: registry, tasks, UdpRecv, binding requests and forwarding threads together |
| `*_proofs` | theorems about `ClientActor`, `DtlsTasks`, `UdpRecv`, `Server`, `RtcActor`, `Jitter` and `Streamer`; `Packets_proofs` about `Renumber`, `MediaList` and `Stun` |
| `MC*` | model values, bounds and symmetry for TLC |

**ClientActor.** `Client` is the set of Client *objects*. An address that
reconnects gets another one, while tasks and receiver tables keep pointers to
the old one, so object and address are told apart throughout. `owner` is the
address an object was created for; no field stores it, but every message about
it names it. `DeleteMessage`, `GroupId` and `MediaAddr` are the handlers of those
names. `OpenClient` is the `entry().or_default()` of the DTLS handler. A media
list is abstracted to the clock rates it names. `blocked` records the client
whose receivers lock the actor waits for while holding it; nothing happens
afterwards.

**DtlsTasks.** A task has a control point per await (the list is at the head of
the module). A lock await may yield even if the lock is free, because of the
runtime's cooperative budget, hence the points `connect` and `extract` between
reading the status and locking again. OpenSSL is external: a handshake or a
read has any of its outcomes. `Binding` lets the messages of binding requests
arrive at any time and in any order, which allows more than UdpRecv does.

**UdpRecv.** Time is in ticks and table entries carry ages, so that the state
space is finite. The ttl is taken when the message is built and its age travels
with it. actix's mailbox is external: it takes messages in order while there is
room, and a refused send waits and is retried in any order (`parked`). `crowded`
is a history variable: some send was refused so far. The identity of a session is the
client's ufrag alone, since the server's never changes.

**Server.** `Register`, `RegisterMedia` and `Expire` are what `UdpRecv` shows
happening to its tables, at any time. `Stun` is the Stun arm of UdpRecv's
handler: it turns the session and the list of a user into a `GroupId` and a
`MediaAddrMessage` for the address the request came from. The messages are handled
in any order (`Handle`), since parked sends overtake each other. `joined` is a
history variable: which addresses have sent requests for which group.

**RtcActor.** ClientActor's handlers decide (`receivers`) and then wait for the
write lock of one client's table (`writing`, `Write`); `table` is what the lock
protects and the threads read. A thread finds the packet's client (`Take`),
decrypts, takes the read lock (`Lock`), serves the receivers in any order, and
ends at the first error (`Unprotected`), though rayon may finish receivers already
begun (`ForwardBeside`). RTCP of a client without receivers goes to its
`sender_addr` (`Feedback`). libsrtp is external: it succeeds or fails, and `srtp`
says whether there are keys.

**Renumber.** Sequence number and timestamp are treated alike and differ in
width, `Word`. `travelled` and `shown` are history: how far a stream and its
runtime have advanced, not wrapped. The arithmetic is that of the release build.

**Jitter.** One address; addresses share only the mailbox. `flushes` are the
futures of UdpRecv's Rtc arm, each sending its buffer's packets one by one and
waiting for each answer, without waiting for each other. Time is in steps of 10
ms, and `Volatile` is JITTER_BUFFER_VOLATILE converted to them. `net` is the
estimate as an integer beside the machine word. `drain` says how long RtcActor may
take for a flushed buffer. Packets are taken in the order in
which JitterControlActor gets them.

**MediaList.** A list is built line by line (`Insert`) into a bijection and a
table of rates; `Forward` is what RtcActor makes of a payload type with the lists of
sender and receiver.

**Stun.** Of the bytes only the first one and the length fields have values.
Everything else is by position: what has been read (`reach`), written, signed and
summed. A test of other bytes is a free choice (`ok`).

**Outgoing.** A record's place on its way is its state; only the channel keeps the
order. That the SSL stream is dropped is external.

**Streamer.** The modules above let their neighbours do as they like: sessions
come and go in `Server`, keys are installed at any time in `RtcActor`. `Streamer`
puts the real neighbours in their place, and every step is a conjunction of steps
of the parts it concerns. A binding request reads the tables that UdpRecv's mailbox
fills and its timer empties; UdpRecv's and Server's views of one table (ages here,
groups and roles there) change together. A DeleteMessage comes from a task only,
and its handler waits for the table's lock. The handlers of UdpRecv and ClientActor
and the DTLS tasks share one arbiter, so none of them goes on while a handler waits
for a lock (`ArbiterFree`); threads and HTTP requests do.

Definitions marked "Wrong on purpose, for mutation" are not used by the
specifications: each is a plausible bug, put in place of the definition below it
to see that a property notices.

## Runs

| run | instance | distinct states | shows |
|---|---|---|---|
| `registry` | 3 addresses, 4 clients, 1 group, any role | 250,741 | the RTCP path is listed; no pointer cycle among deleted clients; deleted stays out |
| `rtc_members` | 3 addresses, 3 clients, 2 groups, 1 thread, nobody declares `sendonly` | 402,188 | only group senders feed; the actor never blocks itself; no receiver is missed without cause; no packet comes back; packets go to the present client of an address, with its keys |
| `rtc_liveness` | 2 addresses, 2 clients, 1 group, 2 threads, the same | 94,083 | handlers and threads that wait for each other's locks all go on |
| `dtls` | 1 address, 2 clients, 3 tasks, 1 group | 78,822 | no forgotten client; who may shut down or delete; refinement of `ClientLifecycle`; tasks end; a client whose connection is gone is deleted |
| `udp` | 2 offers, 1 user, 2 lines, minute 2, latency 1, capacity 3 | 612,212 | an answered offer has its session until it is due; silent users are forgotten; until the mailbox overflows, media lists go with their sessions and every offer is answered |
| `server` | 1 user, 2 groups, 2 addresses, 2 clients, 1 rate, 2 messages | 496,242 | media stays in the group; a member that keeps binding is fed and gets its media list |
| `jitter` | 3 packets, start 2, delay up to 3, prompt and slow threads | 235,432 | packets are kept and in order; the delay covers the estimate; the threshold survives the wrap; packets keep flowing |
| `renumber` | 2 streams, 2 rates, numbers of 2 bits | 1,245,456 | the distance between the client's and the server's numbers is kept; the server is never ahead |
| `media_list` | 1 peer, 3 lines, 3 payload types, 2 codecs, 2 rates | 18,679 | later lines win; what the answer accepts is forwarded, with the two exceptions |
| `media_prepared` | 2 peers, 1 line each | violation | the payload type of a forwarded packet is not the receiver's |
| `stun` | datagrams of up to 72 bytes, 5 buffer sizes | 126,591 | the scan stays inside; only the tail is lost; DTLS is recognised; the response is written, signed and summed |
| `outgoing` | 2 clients, 2 records each | 11,664 | every record leaves; the stream of a dropped connection ends |

`media_prepared` is expected to fail: it states what the comment at
`rtc_actor.rs:202` says the block below it is for. The block is guarded by
`is_rtcp`, for which there is no codec, so it does nothing.

**Bounds.** One client more than there are addresses allows a reconnection while
the others stay (`registry`, `dtls`); three addresses give a sender and two
receivers, so that the failure of one can cost the other a packet. Three tasks
give a lock holder, a waiter and a late arrival. Addresses interact only through
groups, hence one address for the tasks. Two threads share a lock; with one, a
writer would wait for one reader only. Two offers of one user are what it takes
for an old ttl to overwrite a new one. Users share nothing but the mailbox, and
two offers already compete for it. A minute of two ticks separates "at the limit"
from "just beyond". The margin `Latency` in `StillValid` is needed: without it
`AnsweredHasSession` is violated by exactly that overwrite. In `server`, two
messages are the group and the list of one request, or two requests that overtake
each other. In `jitter`, `drain` is drawn once: with 1 a flushed buffer is handled
before the next flush is due, with 9 flushes overlap. `Word` = 8 and
`MaxDeficit` = 2 let the estimate go below zero by more than `Volatile`. In
`renumber`, `MaxTravel` exceeds `Word`, so numbers wrap. The sizes of `stun`
surround the 20-byte header and leave room for several attributes; buffers are
one byte short, exact, and the 1200 of the code, for both address families.

**Symmetry** is used in the two safety runs, `registry` and `rtc_members`.

**Deadlock** is checked in `udp`, `jitter` and `media_list`. Elsewhere the model may stop
where the program does not: the registry blocks itself (`registry`), the finite
supply of clients, tasks or records runs out (`rtc_members`, `rtc_liveness`,
`dtls`, `server`, `outgoing`), a stream reaches `MaxTravel` (`renumber`), or the
one datagram is done with (`stun`).

**Fairness.** Nothing is assumed of the peer: datagrams, offers, binding requests
and disconnections may or may not come, and properties that need them name them
as premises (`Steady`). Two exceptions are marked in the modules: `Tick` is the
clock, and `KeepsFlowing` assumes packets go on arriving, because the code
flushes a buffer on arrival only.

- `TaskFairness`: strong fairness of each task's steps. The runtime polls every
  woken task, tokio's mutex is a first-in-first-out queue (a waiter whose lock is
  freed again and again gets it), and handshake and read have timeouts of 10 s
  and 10 ms.
- `UdpFairness`: weak fairness of the actor's mailbox and timer, of a parked send
  when there is room, of the clock, and of answering an offer whose lines are
  registered.
- `RtcFairSpec`: weak fairness of the handler that waits for a write lock, strong
  fairness of each thread. parking_lot keeps new readers out while a writer waits
  and hands a lock over fairly from time to time, so a thread that finds its lock
  free again and again gets it. Packets are not fair.
- `ServerFairSpec`: ClientActor handles each message that was sent to it.
- `JitterFairSpec`: each future goes on, the clock ticks, packets arrive.
- `OutgoingFairSpec`: ClientActor polls its streams, and sends complete.

## Proofs

For all values of the constants, under the `ASSUME` of the component's module (the
null values are not members; roles are Booleans; widths and limits are positive; a
word holds the largest threshold).
Each invariant below is inductive. Type correctness of the modules with proofs is
proved and not a property of a run.

`ClientActor_proofs`: `ActorInv`. `ReceiverIsCurrent` needs `StorageIsLive`, so
that a live receiver is still its address's client, and `UnusedIsFresh`, so that
opening a client changes no table. `LeakFree` is carried as it stands: deleting c
filters its table after its flag is set, so c points at no deleted client, and c
itself is the witness for every set it belongs to. From `ActorInv` follow
`ReceiverIsCurrent`, `FeedbackPathListed`, `LeakFree`, `StorageIsLive`,
`RuntimeCoversMedia` and the action property `DeletedStaysOut`. With
`Roles = {FALSE}` a second invariant gives `FeederIsGroupSender`, `NoSelfFeed` and
`NeverBlocked`.

`DtlsTasks_proofs`: `ActorInv /\ TasksInv`. `StateLocked` (one holder of the state
lock; a handshake has taken the stream) is what makes `KeysFollowHandshake` and
the refinement go through; `RefsAreOpened` ties the DeleteMessage of a task to an
address. From it follow `NoOrphan`, the two action properties and
`ImplementsLifecycle`, step by step: `Dtls` maps to `Open` or a stutter, `Connect`
to `StartHandshake`, `ShutDown` or a stutter, `Accept` to `Establish` or
`ShutDown`, the deletes to `Unlist` or a stutter, all else to stutters.

`TasksImplementActor`, `ServerImplementsActor` and `RtcImplementsActor` show that
the three modules that extend the registry use it only as `ActorSpec` allows, so
every theorem about the registry holds in them as well.

`UdpRecv_proofs`: `Orderly` says which messages can be on their way: an offer has
at most one of each kind, and waits for it. `Kept` says that a registration whose
session message was handled left a session at most `Latency` older than itself,
which is why ClearData cannot take it early. `AnsweredHasSession` follows for any
load. Until the mailbox overflows (`crowded`), `Paired` holds too: a media message
follows its session message directly, so no ClearData that removes the session
comes in between. With `MediaKept` it gives `AnsweredHasMedia` and `NoOrphanMedia`.

`RtcActor_proofs`: `ActorInv /\ RtcInv`. A step of RtcActor is a step of
ClientActor or leaves its tables alone. Only the table that is being written
differs from what the handler decided, and no thread reads it then. `Covered`
says what a thread in its loop has done and has still to do; at the end it is
`NobodyMissed`. With `Roles = {FALSE}`, `EchoInv` gives `NoEcho`. `SentToCurrent`
is about the table behind the lock, while `ReceiverIsCurrent` is about the one
ClientActor decides on: `TablesAreFiled` says that an entry of the former is a
client of the address it is filed under, whatever has been decided since. An entry
that is not deleted when the thread looks (`rtc_actor.rs:183`) is then the present
client of that address.

`Server_proofs`: `ServerInv` adds to `ActorInv` that messages and the entries of
`groups_storage` only name addresses from which users of the group sent requests;
`Attach` then joins two addresses of one group (`MediaStaysInGroup`).

`Packets_proofs` has three parts. Renumbering: `RtpInv`. `Follows` says that the
runtime of a stream that has its rate to itself stands where the stream does. While
the stream is in order and has not wrapped, the distance between its numbers and the
server's is constant, for every width; after a wrap the server has advanced at most
as far. Media lists: `ListInv` relates each list to the lines inserted so far: pairs
come from lines, and a line's payload type is missing only if a later line pushed it
out. STUN: `ScanInv` places the scan relative to the length field, `ClassInv` keeps
the first byte of what is taken for STUN, `ResponseInv` says what is written, signed
and summed at each stage.

`Jitter_proofs`: `JitterInv`. `LineKept` concatenates the flushes on their way and
the buffer, so the proof first establishes what `FlattenSeq` computes: such a
concatenation exists and is unique, and appending a burst or taking a head commutes
with it. These are inductions over lengths, done with a least counterexample (`WFMin`)
for a set of lengths instead of the library's induction rule. The same is done for
the fold over the pending messages in `DelayCoversEstimate`. `SentAreHeads` (RtcActor
has only heads of flushes) and `LineDistinct` let an answer take out the right packet.
`OneFlush` says that prompt handling leaves one flush at a time: flushes are at least
`Start` apart; `HandledInOrder` follows. `EstimateIsNet` (estimate and `net` differ by
a multiple of the word) gives `ThresholdExact` by arithmetic.

`Streamer_proofs`: that a step of the whole is a step or a stutter of each part holds
only where the invariants of the other parts do: a task's DeleteMessage names an
address because of `RefsAreOpened`, for example. So the invariants of all parts are
one inductive invariant, `PartsInv`, and the step lemma proves both at once: the
steps, hence the invariants after them. It yields `StreamerImplementsTasks`,
`StreamerImplementsRtc`, `StreamerImplementsServer` and `StreamerImplementsUdp`:
every safety theorem above holds in the whole server. Three properties need several
parts together:

- `AnsweredIsKnown`: `Coupled` says UdpRecv's and Server's views of the tables have
  the same users; with `AnsweredHasSession` and `AnsweredHasMedia`, the request of a
  user with an answer finds its session, and its list unless the mailbox overflowed.
- `SentInGroup`: `Grouped` carries `MediaStaysInGroup` from what ClientActor decides
  to the tables behind the locks, and on to every packet a thread has sent.
- `SentAfterHandshake`: `SentToCurrent` says that the client a packet goes to has
  keys, and the tasks' `KeysFollowHandshake` that keys come with a finished handshake.

**Only model-checked**: all liveness properties (fairness is outside the prover's
reach), and `Outgoing`, whose properties are liveness. **Only proved**: `Streamer`
and its properties. Its smallest instance with something to forward (2 addresses and
clients, 1 group, 1 user, offer, task and thread) already has more than four million
states. Random behaviours of a somewhat larger one, 11 million states in all,
violated none of its properties, and packets are forwarded in them.

## Behaviour worth knowing

The models show these consequences of the code; no comment or document of the
repository says otherwise, so they are recorded here and not as disagreements.

Registry and DTLS:

- A session that declares `sendonly` at session level and displaces another
  connected sender stops the arbiter thread: `actor.rs:204` asks for a read lock
  under the write guard of line 200. `NeverBlocked` therefore holds only when no
  session declares it, which is the usual case for browsers: they put the
  attribute on the media lines, and `sdp/mod.rs:90` looks at the session.
- Such a sender, binding again, becomes its own receiver.
- A second `connect` decided before the first one finished shuts down the
  established connection (`connector.rs:34`) and deletes the client.
- A DeleteMessage that comes late removes the address's new client.
- An address that never connects stays the sender of its group (`group.rs:21`).

Sessions:

- With a full mailbox the two messages of a line may swap; with a ClearData in
  between, a media list can outlive its session for good, or a session be left
  without its list. `NoOrphanMedia` and `AnsweredHasMedia` end with the first
  refused message.
- Of two rtpmap lines with one codec name, such as H264 profiles, the later one
  pushes the earlier one out of the media list, although the answer accepts both.

Media:

- A receiver without keys, or whose encryption fails, ends the loop over the
  receivers: others may miss the packet.
- Streams of one clock rate share a runtime and advance each other's numbers.
- When a client's number wraps around, its difference saturates at zero
  (`rtc_actor.rs:110`) and the server repeats a number.
- A buffer is flushed by the next packet, not by a timer.
- While the traffic is smooth the estimate loses a step every ten seconds without
  lower bound; after about a minute it is below zero. A release build wraps it,
  and the threshold stays right until it is further below than the interval; then
  it is too large for a transit to exceed. A debug build panics at the subtraction.
- JitterControlActor has the default mailbox of 16 messages. A burst of packets
  parks sends, which may overtake each other before they are buffered.

Datagrams:

- The scan of a STUN request compares positions that count the header with a
  length that does not, and gives up up to 20 bytes early. The user name is found
  because message integrity and fingerprint follow it.
- `is_dtls` indexes the first byte; the models have no empty datagram.

## Not modelled

- OpenSSL and libsrtp are external: their outcomes are free choices. What the
  contexts of libsrtp keep (rollover counters, replay windows) is not represented.
- In the SDP answer, the direction flip, the candidates and the text: they are
  computed from one offer and change no state.
- Contents of packets beyond the fields named above.
- Certificates and identity (`server/crypto.rs`, `server/meta.rs`) are read once;
  command line, CORS and static files of `main.rs`; `public/index.html`.
- In `Streamer`: the buffer of `Jitter` between socket and threads, `Renumber`,
  `MediaList`, `Stun` and `Outgoing`. They share no state with the rest but fields of
  the `Client` nothing else reads. `Jitter` shows that packets reach RtcActor once
  each; `Streamer` lets them come at any time. `UdpRecv` assumes that a handler
  is not kept from a message longer than `Latency`, and so does `Streamer`, although
  there the arbiter may wait for a thread that holds a lock.
