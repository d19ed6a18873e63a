---------------------------- MODULE ClientLifecycle ----------------------------
(***************************************************************************)
(* What the client registry and the DTLS tasks promise together about one  *)
(* Client object, without tasks, locks or messages: its connection goes    *)
(* through its phases once and in order, its keys are installed exactly    *)
(* when the handshake succeeds, and it is listed once, while no other      *)
(* Client of its address is.                                               *)
(***************************************************************************)
CONSTANTS Addr, Client, NoAddr

VARIABLES
  phase,   \* "new", "shaking", "up" or "down"
  owner,   \* the address, NoAddr for a Client that was never opened
  listed,  \* it is the current client of its address
  keyed    \* its SRTP keys are installed

lifeVars == <<phase, owner, listed, keyed>>

LifeInit ==
  /\ phase = [c \in Client |-> "new"]
  /\ owner = [c \in Client |-> NoAddr]
  /\ listed = [c \in Client |-> FALSE]
  /\ keyed = [c \in Client |-> FALSE]

(* A Client is opened for an address that has no listed one. *)
Open(c, a) ==
  /\ owner[c] = NoAddr
  /\ \A d \in Client : owner[d] = a => ~listed[d]
  /\ owner' = [owner EXCEPT ![c] = a]
  /\ listed' = [listed EXCEPT ![c] = TRUE]
  /\ UNCHANGED <<phase, keyed>>

(* The only handshake this Client will ever do. *)
StartHandshake(c) ==
  /\ owner[c] # NoAddr /\ phase[c] = "new"
  /\ phase' = [phase EXCEPT ![c] = "shaking"]
  /\ UNCHANGED <<owner, listed, keyed>>

Establish(c) ==
  /\ phase[c] = "shaking"
  /\ phase' = [phase EXCEPT ![c] = "up"]
  /\ keyed' = [keyed EXCEPT ![c] = TRUE]
  /\ UNCHANGED <<owner, listed>>

(* The connection is lost for good, before, in or after the handshake. *)
ShutDown(c) ==
  /\ owner[c] # NoAddr /\ phase[c] # "down"
  /\ phase' = [phase EXCEPT ![c] = "down"]
  /\ UNCHANGED <<owner, listed, keyed>>

(* It leaves the registry, whatever phase it is in. *)
Unlist(c) ==
  /\ listed[c]
  /\ listed' = [listed EXCEPT ![c] = FALSE]
  /\ UNCHANGED <<phase, owner, keyed>>

LifeNext ==
  \E c \in Client :
    \/ \E a \in Addr : Open(c, a)
    \/ StartHandshake(c)
    \/ Establish(c)
    \/ ShutDown(c)
    \/ Unlist(c)

LifeSpec == LifeInit /\ [][LifeNext]_lifeVars

=============================================================================
