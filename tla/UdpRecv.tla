-------------------------------- MODULE UdpRecv --------------------------------
(***************************************************************************)
(* The sessions of the UdpRecv actor (src/src/server/udp.rs): the HTTP     *)
(* handler registers the users an SDP offer names before it answers        *)
(* (src/src/sdp/mod.rs:78-103), binding requests look them up, and a       *)
(* periodic ClearData drops the ones that are too old.                     *)
(*                                                                         *)
(* HTTP requests run on other threads and reach the actor through its      *)
(* mailbox.  For each line of an offer, a session message and a media      *)
(* message are sent together, and both answers are awaited before the next *)
(* line.  Time passes in ticks; a table entry carries its age since its    *)
(* ttl was taken, and ages beyond expiry are not told apart.               *)
(***************************************************************************)
EXTENDS Naturals, Sequences

CONSTANTS
  Offer,    \* HTTP requests being served, a slot each
  User,     \* ice-ufrag names of clients (server_user never changes)
  Minute,   \* 60 s, in ticks: both the age limit and the period of ClearData
  Latency,  \* the longest a message stays undelivered, in ticks
  MaxLines, \* bound on the media lines of one offer
  Capacity, \* messages the mailbox takes (1024 in the code)
  None      \* the age of what is not there, the offer of a closed request

ASSUME UdpRecvAssumption ==
  /\ Minute \in Nat \ {0}
  /\ Latency \in Nat /\ Latency <= Minute
  /\ MaxLines \in Nat
  /\ Capacity \in Nat
  /\ None \notin Nat /\ None \notin Offer

VARIABLES
  sessions,        \* the age of each user's session, None if it has none
  media_sessions,  \* the users that have a media list
  since_clear,     \* time since the last ClearData
  mailbox,         \* messages of the actor, oldest first
  parked,          \* messages refused by the full mailbox, retried later
  crowded,         \* some message was refused so far
  waits,           \* per offer: the kinds of answers it still waits for
  lines,           \* per offer: media lines done or under way
  stage,           \* per offer: "idle", "open" or "answered"
  registered       \* per offer and user: the age of the ttl it took

recvVars  == <<sessions, media_sessions, since_clear>>
queueVars == <<mailbox, parked, crowded>>
offerVars == <<waits, lines, stage, registered>>
udpVars   == <<recvVars, queueVars, offerVars>>

Kinds == {"session", "media"}

(* Beyond this age everything has expired. *)
Expired == Minute + 1

Age == 0 .. Expired

Older(age) == IF age \in Age /\ age < Expired THEN age + 1 ELSE age

Nobody == [u \in User |-> None]

UdpInit ==
  /\ sessions = Nobody
  /\ media_sessions = {}
  /\ since_clear = 0
  /\ mailbox = << >>
  /\ parked = {} /\ crowded = FALSE
  /\ waits = [o \in Offer |-> {}]
  /\ lines = [o \in Offer |-> 0]
  /\ stage = [o \in Offer |-> "idle"]
  /\ registered = [o \in Offer |-> Nobody]

-----------------------------------------------------------------------------
(***************************************************************************)
(* The HTTP handler: parse_sdp and generate_streamer_response.             *)
(***************************************************************************)

Message(kind, o, u) == [kind |-> kind, offer |-> o, user |-> u, age |-> 0]

(* An offer arrives and parses. *)
ReceiveOffer(o) ==
  /\ stage[o] = "idle"
  /\ stage' = [stage EXCEPT ![o] = "open"]
  /\ lines' = [lines EXCEPT ![o] = 0]
  /\ registered' = [registered EXCEPT ![o] = Nobody]
  /\ UNCHANGED <<recvVars, queueVars, waits>>

(* The next line with an ice-ufrag: its ttl is now, and the session        *)
(* message is sent before the media message, unless the mailbox, which     *)
(* binding requests fill as well, has no room and they are parked.         *)
SendLine(o, u) ==
  /\ stage[o] = "open" /\ waits[o] = {} /\ lines[o] < MaxLines
  /\ lines' = [lines EXCEPT ![o] = @ + 1]
  /\ waits' = [waits EXCEPT ![o] = Kinds]
  /\ registered' = [registered EXCEPT ![o][u] = 0]
  /\ \/ /\ parked' = parked \cup {Message(k, o, u) : k \in Kinds}
        /\ crowded' = TRUE
        /\ UNCHANGED mailbox
     \/ /\ Len(mailbox) + 2 <= Capacity
        /\ mailbox' = mailbox \o <<Message("session", o, u), Message("media", o, u)>>
        /\ UNCHANGED <<parked, crowded>>
  /\ UNCHANGED <<recvVars, stage>>

(* A parked message finds room in the mailbox, in any order. *)
Unpark(m) ==
  /\ Len(mailbox) < Capacity
  /\ parked' = parked \ {m}
  /\ mailbox' = Append(mailbox, m)
  /\ UNCHANGED <<recvVars, crowded, offerVars>>

(* Wrong on purpose, for mutation: the answer does not wait. *)
AnswerEarly(o) ==
  /\ stage[o] = "open"
  /\ stage' = [stage EXCEPT ![o] = "answered"]
  /\ UNCHANGED <<recvVars, queueVars, waits, lines, registered>>

(* All lines are registered: the SDP answer is sent. *)
AnswerOffer(o) ==
  /\ stage[o] = "open" /\ waits[o] = {}
  /\ stage' = [stage EXCEPT ![o] = "answered"]
  /\ UNCHANGED <<recvVars, queueVars, waits, lines, registered>>

(* The HTTP client is gone, or is done with its answer, or got an error    *)
(* after its lines were registered.  What is in the mailbox will still be  *)
(* handled; what is parked is dropped.                                     *)
CloseOffer(o) ==
  /\ stage[o] # "idle"
  /\ stage' = [stage EXCEPT ![o] = "idle"]
  /\ waits' = [waits EXCEPT ![o] = {}]
  /\ parked' = {m \in parked : m.offer # o}
  /\ mailbox' = [i \in DOMAIN mailbox |->
                   [mailbox[i] EXCEPT !.offer = IF @ = o THEN None ELSE @]]
  /\ registered' = [registered EXCEPT ![o] = Nobody]
  /\ UNCHANGED <<recvVars, crowded, lines>>

-----------------------------------------------------------------------------
(***************************************************************************)
(* The actor.                                                              *)
(***************************************************************************)

(* Wrong on purpose, for mutation: a media message gets no answer. *)
HandleNoReply ==
  LET m == Head(mailbox) IN
  /\ mailbox # << >>
  /\ mailbox' = Tail(mailbox)
  /\ IF m.kind = "session"
       THEN /\ sessions' = [sessions EXCEPT ![m.user] = m.age]
            /\ waits' = [o \in Offer |-> IF o = m.offer THEN waits[o] \ {m.kind} ELSE waits[o]]
            /\ UNCHANGED media_sessions
       ELSE /\ media_sessions' = media_sessions \cup {m.user}
            /\ UNCHANGED <<sessions, waits>>
  /\ UNCHANGED <<since_clear, parked, crowded, lines, stage, registered>>

(* Handler<SessionMessage> and Handler<MediaUserMessage>: insert into the  *)
(* table, whatever is there.                                               *)
HandleMessage ==
  LET m == Head(mailbox) IN
  /\ mailbox # << >>
  /\ mailbox' = Tail(mailbox)
  /\ \/ /\ m.kind = "session"
        /\ sessions' = [sessions EXCEPT ![m.user] = m.age]
        /\ UNCHANGED media_sessions
     \/ /\ m.kind = "media"
        /\ media_sessions' = media_sessions \cup {m.user}
        /\ UNCHANGED sessions
  /\ waits' = [o \in Offer |-> IF o = m.offer THEN waits[o] \ {m.kind} ELSE waits[o]]
  /\ UNCHANGED <<since_clear, parked, crowded, lines, stage, registered>>

(* Wrong on purpose, for mutation: the limit itself has expired already. *)
ToRemoveAtLimit == {u \in User : sessions[u] \in Age /\ sessions[u] >= Minute}

(* The sessions ClearData removes: older than 60 s. *)
ToRemove == {u \in User : sessions[u] \in Age /\ sessions[u] > Minute}

(* Wrong on purpose, for mutation: the media lists are left behind. *)
ClearDataSessions ==
  /\ since_clear >= Minute
  /\ since_clear' = 0
  /\ sessions' = [u \in User |-> IF u \in ToRemove THEN None ELSE sessions[u]]
  /\ UNCHANGED <<media_sessions, queueVars, offerVars>>

(* StreamHandler<ClearData>: the stream sleeps 60 s between two items. *)
ClearData ==
  /\ since_clear >= Minute
  /\ since_clear' = 0
  /\ sessions' = [u \in User |-> IF u \in ToRemove THEN None ELSE sessions[u]]
  /\ media_sessions' = media_sessions \ ToRemove
  /\ UNCHANGED <<queueVars, offerVars>>

(* Time passes, but no message stays undelivered longer than Latency. *)
Tick ==
  /\ \A m \in parked \cup {mailbox[i] : i \in DOMAIN mailbox} : m.age < Latency
  /\ sessions' = [u \in User |-> Older(sessions[u])]
  /\ registered' = [o \in Offer |-> [u \in User |-> Older(registered[o][u])]]
  /\ mailbox' = [i \in DOMAIN mailbox |-> [mailbox[i] EXCEPT !.age = @ + 1]]
  /\ parked' = {[m EXCEPT !.age = @ + 1] : m \in parked}
  /\ since_clear' = IF since_clear < Minute THEN since_clear + 1 ELSE since_clear
  /\ UNCHANGED <<media_sessions, crowded, waits, lines, stage>>

UdpNext ==
  \/ \E o \in Offer : ReceiveOffer(o) \/ AnswerOffer(o) \/ CloseOffer(o)
  \/ \E o \in Offer, u \in User : SendLine(o, u)
  \/ \E m \in parked : Unpark(m)
  \/ HandleMessage
  \/ ClearData
  \/ Tick

UdpSpec == UdpInit /\ [][UdpNext]_udpVars

(* The actor's thread handles its mailbox and the timer's stream, a parked *)
(* send is woken when there is room, and the HTTP handler goes on when its *)
(* answers are there.  The clock ticks.                                    *)
UdpFairness ==
  /\ WF_udpVars(HandleMessage) /\ WF_udpVars(ClearData) /\ WF_udpVars(Tick)
  /\ WF_udpVars(\E m \in parked : Unpark(m))
  /\ \A o \in Offer : WF_udpVars(AnswerOffer(o))

UdpFairSpec == UdpSpec /\ UdpFairness

-----------------------------------------------------------------------------
(***************************************************************************)
(* Properties.                                                             *)
(***************************************************************************)

Messages == [kind : Kinds, offer : Offer \cup {None}, user : User, age : 0 .. Latency]

(* Type invariant; the mailbox of UdpRecv never exceeds its capacity, and *)
(* no offer runs past its lines.                                         *)
UdpTypeOK ==
  /\ sessions \in [User -> Age \cup {None}]
  /\ media_sessions \subseteq User
  /\ since_clear \in 0 .. Minute
  /\ mailbox \in Seq(Messages) /\ Len(mailbox) <= Capacity
  /\ parked \subseteq Messages /\ crowded \in BOOLEAN
  /\ waits \in [Offer -> SUBSET Kinds]
  /\ lines \in [Offer -> 0 .. MaxLines]
  /\ stage \in [Offer -> {"idle", "open", "answered"}]
  /\ registered \in [Offer -> [User -> Age \cup {None}]]

(* u's registration by the answered offer o has not run out, even if a     *)
(* slower offer of the same user took its ttl up to Latency earlier and    *)
(* was handled after it.                                                   *)
StillValid(o, u) ==
  /\ stage[o] = "answered"
  /\ registered[o][u] \in Age
  /\ registered[o][u] + Latency <= Minute

(* Whoever has its SDP answer finds its session: ClearData never takes     *)
(* one that is not due, whatever else was registered meanwhile.            *)
AnsweredHasSession ==
  \A o \in Offer, u \in User : StillValid(o, u) => sessions[u] # None

(* It finds its media list too, as long as the mailbox never overflowed:   *)
(* without the list its RTP is dropped (CodecNotSet).                      *)
AnsweredHasMedia ==
  ~crowded => \A o \in Offer, u \in User : StillValid(o, u) => u \in media_sessions

(* ClearData finds media lists only through their sessions, so a list      *)
(* without a session would stay forever.  There is none, as long as the    *)
(* mailbox never overflowed.                                               *)
NoOrphanMedia == ~crowded => \A u \in media_sessions : sessions[u] # None

(* Every offer that is not abandoned is answered, unless its messages may  *)
(* wait for room behind those of other offers.                             *)
OffersAnswered == \A o \in Offer : stage[o] = "open" ~> (stage[o] # "open" \/ crowded)

(* No registration of u is on its way. *)
Quiet(u) ==
  \A m \in parked \cup {mailbox[i] : i \in DOMAIN mailbox} : m.user # u

(* Sessions run out, since a binding request does not refresh the ttl: a   *)
(* user who stops registering is forgotten whatever the load, and the      *)
(* media list goes too if the mailbox never overflowed.                    *)
ForgottenInTheEnd ==
  \A u \in User :
    <>[]Quiet(u) => <>[](sessions[u] = None /\ (crowded \/ u \notin media_sessions))

=============================================================================
