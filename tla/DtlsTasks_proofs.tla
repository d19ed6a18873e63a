--------------------------- MODULE DtlsTasks_proofs ---------------------------
(***************************************************************************)
(* Proofs about the DTLS tasks, for any number of tasks, addresses and     *)
(* clients: TasksInv is inductive together with the registry's ActorInv.   *)
(***************************************************************************)
EXTENDS DtlsTasks, ClientActor_proofs

(* The task points to an opened Client, whose address is an address. *)
LEMMA TaskClient ==
  ASSUME ActorTypeOK, TasksTypeOK, RefsAreOpened, NEW t \in Task, pc[t] # "idle"
  PROVE  ref[t] \in Client /\ owner[ref[t]] \in Addr
<1>1. ref[t] \in Client
  BY DEF TasksTypeOK
<1> QED
  BY <1>1, ClientActorAssumption DEF RefsAreOpened, ActorTypeOK

(* A step of the tasks is a step of the registry, or leaves it alone. *)
LEMMA TasksStepActor ==
  ASSUME ActorTypeOK, TasksTypeOK, RefsAreOpened, [Next]_vars
  PROVE  [ActorNext]_actorVars
<1>1. ASSUME NEW t \in Task, NEW a \in Addr, Dtls(t, a)
      PROVE  [ActorNext]_actorVars
  BY <1>1 DEF Dtls, ActorNext
<1>2. ASSUME NEW t \in Task, TaskStep(t)
      PROVE  [ActorNext]_actorVars
  <2>1. CASE PushDelete(t)
    <3>1. owner[ref[t]] \in Addr /\ DeleteMessage(owner[ref[t]])
      BY <2>1, TaskClient DEF PushDelete, At
    <3> QED
      BY <3>1 DEF ActorNext
  <2>2. CASE Delete(t)
    <3>1. owner[ref[t]] \in Addr /\ DeleteMessage(owner[ref[t]])
      BY <2>2, TaskClient DEF Delete, At
    <3> QED
      BY <3>1 DEF ActorNext
  <2>3. CASE UNCHANGED actorVars
    BY <2>3
  <2> QED
    BY <1>2, <2>1, <2>2, <2>3
    DEF TaskStep, Push, Status, Connect, Accept, Extract, ReadDtls
<1>3. CASE Binding
  BY <1>3 DEF Binding, ActorNext
<1>4. CASE UNCHANGED vars
  BY <1>4 DEF vars
<1> QED
  BY <1>1, <1>2, <1>3, <1>4 DEF Next

(* What the registry step of a task does to owners and to the table: no    *)
(* owner changes and nothing is listed, except in OpenClient.              *)
LEMMA DeleteUnlists ==
  ASSUME ActorTypeOK, StorageIsLive, NEW a \in Addr, DeleteMessage(a)
  PROVE  /\ UNCHANGED owner
         /\ client_storage' = [client_storage EXCEPT ![a] = NoClient]
<1>1. CASE client_storage[a] = NoClient
  <2>1. UNCHANGED <<owner, client_storage>>
    BY <1>1 DEF DeleteMessage, actorVars, feedVars
  <2> QED
    BY <1>1, <2>1 DEF ActorTypeOK
<1>2. CASE client_storage[a] # NoClient
  BY <1>2, DeleteOutcome
<1> QED
  BY <1>1, <1>2

(* The effect of a task's own step on its client, action by action: the    *)
(* place it goes to, and the state of its client.                          *)
LEMMA TaskMoves ==
  ASSUME TasksTypeOK, NEW t \in Task, TaskStep(t)
  PROVE  \E p \in Places, r \in Client \cup {NoClient} :
           /\ pc' = [pc EXCEPT ![t] = p]
           /\ ref' = [ref EXCEPT ![t] = r]
           /\ p = "idle" <=> r = NoClient
           /\ r # NoClient => r = ref[t]
<1>1. ref[t] \in Client /\ pc[t] # "idle"
  BY DEF TaskStep, Push, PushDelete, Status, Connect, Accept, Extract, ReadDtls, Delete,
         At, TasksTypeOK
<1>2. CASE Finish(t)
  BY <1>2 DEF Finish, Places
<1>3. ASSUME NEW p \in Places \ {"idle"}, Goto(t, p)
      PROVE  /\ pc' = [pc EXCEPT ![t] = p]
             /\ ref' = [ref EXCEPT ![t] = ref[t]]
  BY <1>3 DEF Goto, TasksTypeOK
<1>4. Finish(t) \/ \E p \in Places \ {"idle"} : Goto(t, p)
  BY DEF TaskStep, Push, PushDelete, Status, Connect, Accept, Extract, ReadDtls, Delete, Places
<1> QED
  BY <1>1, <1>2, <1>3, <1>4, ClientActorAssumption

(* No step but OpenClient changes an owner. *)
LEMMA OwnerKept ==
  ASSUME ActorTypeOK, StorageIsLive, TasksTypeOK, RefsAreOpened, NEW t \in Task, TaskStep(t)
  PROVE  UNCHANGED owner
<1>1. CASE PushDelete(t) \/ Delete(t)
  BY <1>1, TaskClient, DeleteUnlists DEF PushDelete, Delete, At
<1>2. CASE UNCHANGED actorVars
  BY <1>2 DEF actorVars, feedVars
<1> QED
  BY <1>1, <1>2 DEF TaskStep, Push, Status, Connect, Accept, Extract, ReadDtls

(* Binding requests open and delete nothing, and leave tasks alone. *)
LEMMA BindingKeeps ==
  ASSUME Binding
  PROVE  UNCHANGED <<owner, client_storage, pc, ref, state, srtp>>
BY DEF Binding, GroupId, MediaAddr, Attach, Handover, feedVars, mediaVars, taskVars, connVars

(* The first packet of an address, or a later one. *)
LEMMA DtlsOutcome ==
  ASSUME NEW t \in Task, NEW a \in Addr, Dtls(t, a)
  PROVE  /\ pc[t] = "idle" /\ pc' = [pc EXCEPT ![t] = "push"]
         /\ UNCHANGED <<state, srtp>>
         /\ \/ /\ client_storage[a] # NoClient
               /\ ref' = [ref EXCEPT ![t] = client_storage[a]]
               /\ UNCHANGED <<owner, client_storage>>
            \/ \E c \in Client :
                 /\ ref' = [ref EXCEPT ![t] = c]
                 /\ owner[c] = NoAddr
                 /\ owner' = [owner EXCEPT ![c] = a]
                 /\ client_storage' = [client_storage EXCEPT ![a] = c]
BY DEF Dtls, At, OpenClient, actorVars, feedVars, connVars

(* Every await point leads to another one, with the same pointer. *)
LEMMA TasksTypeStep ==
  ASSUME ActorInv, TasksInv, [Next]_vars
  PROVE  TasksTypeOK'
<1> USE ClientActorAssumption DEF ActorInv, TasksInv
<1>1. ASSUME NEW t \in Task, NEW a \in Addr, Dtls(t, a)
      PROVE  TasksTypeOK'
  <2>1. PICK c \in Client : ref' = [ref EXCEPT ![t] = c]
    BY <1>1, DtlsOutcome, CurrentIsLive
  <2>2. pc' = [pc EXCEPT ![t] = "push"] /\ UNCHANGED <<state, srtp>>
    BY <1>1, DtlsOutcome
  <2> QED
    BY <2>1, <2>2 DEF TasksTypeOK, Places
<1>2. ASSUME NEW t \in Task, TaskStep(t)
      PROVE  TasksTypeOK'
  <2>1. state' \in [Client -> {"New", "Connected", "Shutdown"}] /\ srtp' \in [Client -> BOOLEAN]
    BY <1>2 DEF TaskStep, Push, PushDelete, Status, Connect, Accept, Extract, ReadDtls, Delete,
                connVars, TasksTypeOK
  <2> QED
    BY <1>2, <2>1, TaskMoves DEF TasksTypeOK
<1>3. CASE Binding
  BY <1>3, BindingKeeps DEF TasksTypeOK
<1>4. CASE UNCHANGED vars
  BY <1>4 DEF vars, taskVars, connVars, TasksTypeOK
<1> QED
  BY <1>1, <1>2, <1>3, <1>4 DEF Next

(* Connect and Accept touch the client of their task, which is opened. *)
LEMMA RefsStep ==
  ASSUME ActorInv, TasksInv, [Next]_vars
  PROVE  RefsAreOpened'
<1> USE ClientActorAssumption DEF ActorInv, TasksInv
<1>1. ASSUME NEW t \in Task, NEW a \in Addr, Dtls(t, a)
      PROVE  RefsAreOpened'
  <2>1. CASE client_storage[a] # NoClient /\ ref' = [ref EXCEPT ![t] = client_storage[a]]
             /\ UNCHANGED owner
    <3>1. client_storage[a] \in Client /\ owner[client_storage[a]] = a
      BY <2>1, CurrentIsLive
    <3>2. UNCHANGED <<state, srtp>>
      BY <1>1, DtlsOutcome
    <3> QED
      BY <2>1, <3>1, <3>2 DEF RefsAreOpened, TasksTypeOK
  <2>2. ASSUME NEW c \in Client, ref' = [ref EXCEPT ![t] = c],
               owner' = [owner EXCEPT ![c] = a]
        PROVE  RefsAreOpened'
    <3>1. UNCHANGED <<state, srtp>>
      BY <1>1, DtlsOutcome
    <3> QED
      BY <2>2, <3>1 DEF RefsAreOpened, TasksTypeOK, ActorTypeOK
  <2> QED
    BY <1>1, <2>1, <2>2, DtlsOutcome
<1>2. ASSUME NEW t \in Task, TaskStep(t)
      PROVE  RefsAreOpened'
  <2>1. UNCHANGED owner
    BY <1>2, OwnerKept
  <2>2. \A u \in Task : ref'[u] # NoClient => ref'[u] = ref[u]
    BY <1>2, TaskMoves DEF TasksTypeOK
  <2>3. pc[t] # "idle"
    BY <1>2 DEF TaskStep, Push, PushDelete, Status, Connect, Accept, Extract, ReadDtls, Delete, At
  <2>4. \A c \in Client : c # ref[t] => state'[c] = state[c] /\ srtp'[c] = srtp[c]
    BY <1>2 DEF TaskStep, Push, PushDelete, Status, Connect, Accept, Extract, ReadDtls, Delete,
                connVars, TasksTypeOK
  <2> QED
    BY <2>1, <2>2, <2>3, <2>4, TaskClient DEF RefsAreOpened
<1>3. CASE Binding
  BY <1>3, BindingKeeps DEF RefsAreOpened
<1>4. CASE UNCHANGED vars
  BY <1>4 DEF vars, actorVars, feedVars, taskVars, connVars, RefsAreOpened
<1> QED
  BY <1>1, <1>2, <1>3, <1>4 DEF Next

-----------------------------------------------------------------------------
(* A task's step moves no other task, and is out of sight of the clients   *)
(* the task does not point to.                                             *)
LEMMA OthersStay ==
  ASSUME TasksTypeOK, NEW t \in Task, TaskStep(t)
  PROVE  /\ \A u \in Task \ {t} : pc'[u] = pc[u] /\ ref'[u] = ref[u]
         /\ ref'[t] \in {ref[t], NoClient}
         /\ pc'[t] # "idle" => ref'[t] = ref[t]
         /\ \A c \in Client : \A places :
              c # ref[t] => (Attended(c, places)' <=> Attended(c, places))
<1>1. PICK p \in Places, r \in Client \cup {NoClient} :
        /\ pc' = [pc EXCEPT ![t] = p] /\ ref' = [ref EXCEPT ![t] = r]
        /\ p = "idle" <=> r = NoClient
        /\ r # NoClient => r = ref[t]
  BY TaskMoves
<1>2. /\ \A u \in Task \ {t} : pc'[u] = pc[u] /\ ref'[u] = ref[u]
      /\ ref'[t] \in {ref[t], NoClient}
      /\ pc'[t] # "idle" => ref'[t] = ref[t]
  BY <1>1 DEF TasksTypeOK
<1>3. ASSUME NEW c \in Client, NEW places, c # ref[t]
      PROVE  Attended(c, places)' <=> Attended(c, places)
  BY <1>2, <1>3, ClientActorAssumption DEF Attended
<1> QED
  BY <1>2, <1>3

(* The state lock and the keys, under the step of one task. *)
LEMMA LockTaskStep ==
  ASSUME ActorInv, TasksInv, NEW t \in Task, TaskStep(t)
  PROVE  StateLocked' /\ KeysFollowHandshake'
<1> USE ClientActorAssumption DEF ActorInv, TasksInv
<1> DEFINE c == ref[t]
<1>1. /\ \A u \in Task \ {t} : pc'[u] = pc[u] /\ ref'[u] = ref[u]
      /\ ref'[t] \in {ref[t], NoClient}
      /\ pc'[t] # "idle" => ref'[t] = ref[t]
  BY OthersStay
<1>2. pc[t] # "idle" /\ c \in Client
  BY DEF TaskStep, Push, PushDelete, Status, Connect, Accept, Extract, ReadDtls, Delete, At,
         TasksTypeOK
<1>3. CASE UNCHANGED connVars /\ pc'[t] \notin {"shake", "read"}
  BY <1>1, <1>3 DEF StateLocked, HoldsState, KeysFollowHandshake, Attended, connVars
<1>4. CASE Connect(t)
  <2>1. /\ StateFree(c) /\ UNCHANGED srtp
        /\ \/ pc'[t] = "del" /\ UNCHANGED state
           \/ pc'[t] = "del" /\ state' = [state EXCEPT ![c] = "Shutdown"]
           \/ /\ pc'[t] = "shake" /\ state[c] = "New"
              /\ state' = [state EXCEPT ![c] = "Shutdown"]
    BY <1>4 DEF Connect, Goto, TasksTypeOK
  <2>2. StateLocked'
    BY <1>1, <1>2, <2>1 DEF StateLocked, StateFree, HoldsState, TasksTypeOK
  <2>3. \A d \in Client : state'[d] = "Connected" => srtp'[d]
    BY <1>2, <2>1 DEF KeysFollowHandshake, TasksTypeOK
  <2>4. \A d \in Client : srtp'[d] => state'[d] # "New" /\ ~Attended(d, {"shake"})'
    BY <1>1, <1>2, <2>1 DEF KeysFollowHandshake, Attended, TasksTypeOK
  <2> QED
    BY <2>2, <2>3, <2>4 DEF KeysFollowHandshake
<1>5. CASE Accept(t)
  <2>1. /\ pc[t] = "shake" /\ pc'[t] \in {"idle", "del"}
        /\ \/ UNCHANGED connVars
           \/ /\ state' = [state EXCEPT ![c] = "Connected"]
              /\ srtp' = [srtp EXCEPT ![c] = TRUE]
    BY <1>5 DEF Accept, At, Goto, Finish, TasksTypeOK
  <2>2. \A u \in Task \ {t} : ref[u] = c => pc[u] # "shake"
    BY <2>1 DEF StateLocked, HoldsState
  <2>3. CASE /\ state' = [state EXCEPT ![c] = "Connected"]
             /\ srtp' = [srtp EXCEPT ![c] = TRUE]
    <3>1. StateLocked'
      BY <1>1, <1>2, <2>1, <2>2, <2>3 DEF StateLocked, HoldsState, TasksTypeOK
    <3>2. \A d \in Client : state'[d] = "Connected" => srtp'[d]
      BY <1>2, <2>3 DEF KeysFollowHandshake, TasksTypeOK
    <3>3. \A d \in Client : srtp'[d] => state'[d] # "New" /\ ~Attended(d, {"shake"})'
      BY <1>1, <1>2, <2>1, <2>2, <2>3 DEF KeysFollowHandshake, Attended, TasksTypeOK
    <3> QED
      BY <3>1, <3>2, <3>3 DEF KeysFollowHandshake
  <2> QED
    BY <1>3, <2>1, <2>3
<1>6. CASE Extract(t)
  <2>1. UNCHANGED connVars /\ (pc'[t] = "read" => StateFree(c)) /\ pc'[t] # "shake"
    BY <1>6 DEF Extract, Goto, Finish, TasksTypeOK
  <2> QED
    BY <1>1, <2>1 DEF StateLocked, StateFree, HoldsState, KeysFollowHandshake, Attended, connVars
<1>7. CASE Push(t) \/ PushDelete(t) \/ Status(t) \/ ReadDtls(t) \/ Delete(t)
  BY <1>3, <1>7 DEF Push, PushDelete, Status, ReadDtls, Delete, Goto, Finish, TasksTypeOK
<1> QED
  BY <1>4, <1>5, <1>6, <1>7 DEF TaskStep

(* A new task holds no lock, and a new client has no task. *)
LEMMA LockStep ==
  ASSUME ActorInv, TasksInv, [Next]_vars
  PROVE  StateLocked' /\ KeysFollowHandshake'
<1> USE ClientActorAssumption DEF ActorInv, TasksInv
<1>1. ASSUME NEW t \in Task, NEW a \in Addr, Dtls(t, a)
      PROVE  StateLocked' /\ KeysFollowHandshake'
  <2>1. PICK c \in Client : ref' = [ref EXCEPT ![t] = c]
    BY <1>1, DtlsOutcome, CurrentIsLive
  <2>2. pc' = [pc EXCEPT ![t] = "push"] /\ UNCHANGED <<state, srtp>>
    BY <1>1, DtlsOutcome
  <2> QED
    BY <2>1, <2>2 DEF StateLocked, HoldsState, KeysFollowHandshake, Attended, TasksTypeOK
<1>2. CASE Binding
  BY <1>2, BindingKeeps DEF StateLocked, HoldsState, KeysFollowHandshake, Attended
<1>3. CASE UNCHANGED vars
  BY <1>3 DEF vars, taskVars, connVars, StateLocked, HoldsState, KeysFollowHandshake, Attended
<1> QED
  BY <1>1, <1>2, <1>3, LockTaskStep DEF Next

-----------------------------------------------------------------------------
(* A client is looked after when it is connected, or some task will        *)
(* connect it or have it deleted.                                          *)
LookedAfter(c) ==
  \/ state[c] = "Connected"
  \/ state[c] = "New" /\ Attended(c, {"push", "status", "connect", "del"})
  \/ state[c] = "Shutdown" /\ Attended(c, {"shake", "del"})

(* A step of one of its own tasks leaves a client looked after, unless it  *)
(* is the last one, the DeleteMessage.                                     *)
LEMMA OwnTaskStep ==
  ASSUME ActorInv, TasksInv, NEW t \in Task, TaskStep(t), ~Delete(t),
         NEW c \in Client, ref[t] = c, LookedAfter(c)
  PROVE  LookedAfter(c)'
<1> USE ClientActorAssumption DEF ActorInv, TasksInv
<1>1. /\ \A u \in Task \ {t} : pc'[u] = pc[u] /\ ref'[u] = ref[u]
      /\ pc'[t] # "idle" => ref'[t] = c
  BY OthersStay
<1>2. ASSUME NEW places, Attended(c, places), pc[t] \notin places
      PROVE  Attended(c, places)'
  BY <1>1, <1>2 DEF Attended
<1>3. ASSUME NEW places, pc'[t] \in places, pc'[t] # "idle"
      PROVE  Attended(c, places)'
  BY <1>1, <1>3 DEF Attended
<1>4. CASE Push(t)
  <2>1. /\ pc[t] = "push" /\ UNCHANGED state
        /\ state[c] # "Shutdown" => pc'[t] = "status"
    BY <1>4 DEF Push, At, Goto, ChannelOpen, connVars, TasksTypeOK
  <2> QED
    BY <1>2, <1>3, <2>1 DEF LookedAfter
<1>5. CASE PushDelete(t)
  <2>1. pc[t] = "pushDel" /\ pc'[t] = "status" /\ UNCHANGED state
    BY <1>5 DEF PushDelete, At, Goto, connVars, TasksTypeOK
  <2> QED
    BY <1>2, <2>1 DEF LookedAfter
<1>6. CASE Status(t)
  <2>1. /\ pc[t] = "status" /\ UNCHANGED state
        /\ state[c] = "New" => pc'[t] = "connect"
    BY <1>6 DEF Status, At, Goto, connVars, TasksTypeOK
  <2> QED
    BY <1>2, <1>3, <2>1 DEF LookedAfter
<1>7. CASE Connect(t)
  <2>1. \/ pc'[t] = "del" /\ state'[c] \in {state[c], "Shutdown"}
        \/ pc'[t] = "shake" /\ state'[c] = "Shutdown"
    BY <1>7 DEF Connect, Goto, TasksTypeOK
  <2> QED
    BY <1>3, <2>1 DEF LookedAfter
<1>8. CASE Accept(t)
  <2>1. \/ state'[c] = "Connected"
        \/ pc[t] = "shake" /\ pc'[t] = "del" /\ UNCHANGED state
    BY <1>8 DEF Accept, At, Goto, connVars, TasksTypeOK
  <2>2. pc[t] = "shake" => state[c] = "Shutdown"
    BY DEF StateLocked
  <2> QED
    BY <1>3, <2>1, <2>2 DEF LookedAfter
<1>9. CASE Extract(t) \/ ReadDtls(t)
  <2>1. pc[t] \in {"extract", "read"} /\ UNCHANGED state
    BY <1>9 DEF Extract, ReadDtls, At, connVars
  <2> QED
    BY <1>2, <2>1 DEF LookedAfter
<1> QED
  BY <1>4, <1>5, <1>6, <1>7, <1>8, <1>9 DEF TaskStep

(* The task that deletes by address either unlists its own client, or its  *)
(* own client was unlisted before; the others do not depend on it.         *)
LEMMA NoOrphanStep ==
  ASSUME ActorInv, TasksInv, [Next]_vars
  PROVE  NoOrphan'
<1> USE ClientActorAssumption DEF ActorInv, TasksInv
<1>1. ASSUME NEW t \in Task, NEW a \in Addr, Dtls(t, a)
      PROVE  NoOrphan'
  <2>1. pc[t] = "idle" /\ pc' = [pc EXCEPT ![t] = "push"] /\ UNCHANGED state
    BY <1>1, DtlsOutcome
  <2>2. PICK c \in Client :
          /\ ref' = [ref EXCEPT ![t] = c]
          /\ \/ UNCHANGED client_storage
             \/ state[c] = "New" /\ client_storage' = [client_storage EXCEPT ![a] = c]
    BY <1>1, DtlsOutcome, CurrentIsLive DEF RefsAreOpened
  <2>3. ASSUME NEW d \in Client, LookedAfter(d)
        PROVE  LookedAfter(d)'
    BY <2>1, <2>2, <2>3 DEF LookedAfter, Attended, TasksTypeOK
  <2>4. state[c] = "New" => LookedAfter(c)'
    BY <2>1, <2>2 DEF LookedAfter, Attended, TasksTypeOK
  <2>5. ASSUME NEW b \in Addr, client_storage'[b] # NoClient
        PROVE  \/ client_storage'[b] = client_storage[b]
               \/ client_storage'[b] = c /\ state[c] = "New"
    BY <2>2, <2>5 DEF ActorTypeOK
  <2>6. \A b \in Addr : client_storage[b] # NoClient =>
          client_storage[b] \in Client /\ LookedAfter(client_storage[b])
    BY DEF NoOrphan, LookedAfter, ActorTypeOK
  <2>7. ASSUME NEW b \in Addr, NEW d \in Client, client_storage'[b] = d
        PROVE  LookedAfter(d)'
    BY <2>3, <2>4, <2>5, <2>6, <2>7
  <2> QED
    BY <2>7, TypeStep, <1>1, TasksStepActor DEF NoOrphan, LookedAfter, ActorTypeOK
<1>2. ASSUME NEW t \in Task, TaskStep(t)
      PROVE  NoOrphan'
  <2>1. pc[t] # "idle" /\ ref[t] \in Client /\ owner[ref[t]] \in Addr
    BY <1>2, TaskClient
    DEF TaskStep, Push, PushDelete, Status, Connect, Accept, Extract, ReadDtls, Delete, At
  <2>2. \A b \in Addr : client_storage'[b] # NoClient => client_storage'[b] = client_storage[b]
    <3>1. CASE PushDelete(t) \/ Delete(t)
      BY <2>1, <3>1, DeleteUnlists DEF PushDelete, Delete, ActorTypeOK
    <3>2. CASE UNCHANGED actorVars
      BY <3>2 DEF actorVars
    <3> QED
      BY <1>2, <3>1, <3>2 DEF TaskStep, Push, Status, Connect, Accept, Extract, ReadDtls
  <2>3. Delete(t) => client_storage'[owner[ref[t]]] = NoClient
    BY <2>1, DeleteUnlists DEF Delete, ActorTypeOK
  <2>4. ASSUME NEW b \in Addr, NEW d \in Client, client_storage'[b] = d
        PROVE  LookedAfter(d)'
    <3>1. client_storage[b] = d /\ owner[d] = b /\ LookedAfter(d)
      BY <2>2, <2>4, CurrentIsLive DEF NoOrphan, LookedAfter
    <3>2. CASE d # ref[t]
      <4>1. state'[d] = state[d]
        BY <1>2, <3>2
        DEF TaskStep, Push, PushDelete, Status, Connect, Accept, Extract, ReadDtls, Delete,
            connVars, TasksTypeOK
      <4> QED
        BY <1>2, <3>1, <3>2, <4>1, OthersStay DEF LookedAfter
    <3>3. CASE d = ref[t]
      BY <1>2, <2>3, <2>4, <3>1, <3>3, OwnTaskStep
    <3> QED
      BY <3>2, <3>3
  <2> QED
    BY <1>2, <2>2, <2>4 DEF NoOrphan, LookedAfter, ActorTypeOK
<1>3. CASE Binding
  BY <1>3, BindingKeeps DEF NoOrphan, Attended
<1>4. CASE UNCHANGED vars
  BY <1>4 DEF vars, actorVars, taskVars, connVars, NoOrphan, Attended
<1> QED
  BY <1>1, <1>2, <1>3, <1>4 DEF Next

(* At the start there are no tasks and all clients are New. *)
LEMMA TasksInvInit == Init => ActorInv /\ TasksInv
<1> SUFFICES ASSUME Init PROVE ActorInv /\ TasksInv
  OBVIOUS
<1>1. ActorInv
  BY ActorInvInit DEF Init
<1>2. TasksTypeOK /\ RefsAreOpened /\ StateLocked /\ KeysFollowHandshake /\ NoOrphan
  BY DEF Init, TasksInit, ActorInit, NoReceivers, TasksTypeOK, Places, RefsAreOpened, StateLocked,
         HoldsState, KeysFollowHandshake, NoOrphan
<1> QED
  BY <1>1, <1>2 DEF TasksInv

(* Every step keeps both invariants. *)
LEMMA TasksInvStep ==
  ASSUME ActorInv, TasksInv, [Next]_vars
  PROVE  ActorInv' /\ TasksInv'
<1>1. ActorInv'
  BY ActorInvStep, TasksStepActor DEF ActorInv, TasksInv
<1>2. TasksInv'
  BY TasksTypeStep, RefsStep, LockStep, NoOrphanStep DEF TasksInv
<1> QED
  BY <1>1, <1>2

(* The registry and the tasks keep their invariants together. *)
THEOREM TasksInvariant == Spec => [](ActorInv /\ TasksInv)
<1>1. ActorInv /\ TasksInv /\ [Next]_vars => (ActorInv /\ TasksInv)'
  BY TasksInvStep
<1> QED
  BY <1>1, TasksInvInit, PTL DEF Spec

(* Every task is at one of its await points and holds a client from its    *)
(* start to its end (TasksTypeOK).                                         *)
THEOREM TasksKeepTheirTypes == Spec => []TasksTypeOK
<1>1. TasksInv => TasksTypeOK
  BY DEF TasksInv
<1> QED
  BY <1>1, TasksInvariant, PTL

(* No listed client is ever without a connection and without a task that   *)
(* will connect it or have it deleted.                                     *)
THEOREM NoClientIsForgotten == Spec => []NoOrphan
<1>1. TasksInv => NoOrphan
  BY DEF TasksInv
<1> QED
  BY <1>1, TasksInvariant, PTL

(* The tasks open and delete clients only as the registry allows: what is  *)
(* proved of ClientActor holds under every interleaving of tasks.          *)
THEOREM TasksImplementActor == Spec => ActorSpec
<1>1. Init => ActorInit
  BY DEF Init
<1>2. ActorInv /\ TasksInv /\ [Next]_vars => [ActorNext]_actorVars
  BY TasksStepActor DEF ActorInv, TasksInv
<1> QED
  BY <1>1, <1>2, TasksInvariant, PTL DEF Spec, ActorSpec

(* Keys are installed with the connection, never before. *)
THEOREM KeysComeWithHandshake == Spec => []KeysFollowHandshake
<1>1. TasksInv => KeysFollowHandshake
  BY DEF TasksInv
<1> QED
  BY <1>1, TasksInvariant, PTL

-----------------------------------------------------------------------------
(* The refinement of ClientLifecycle.  A client's phase is a matter of its *)
(* state and of whether one of its tasks is in the handshake.              *)
LEMMA PhaseKept ==
  ASSUME NEW c \in Client, state'[c] = state[c],
         Attended(c, {"shake"})' <=> Attended(c, {"shake"})
  PROVE  Phase(c)' = Phase(c)
BY DEF Phase

(* A DeleteMessage unlists one client, or changes nothing. *)
LEMMA DeleteRefines ==
  ASSUME ActorInv, ActorInv', NEW a \in Addr, DeleteMessage(a), UNCHANGED srtp,
         \A c \in Client : Phase(c)' = Phase(c)
  PROVE  [Life!LifeNext]_(Life!lifeVars)
<1> USE ClientActorAssumption DEF ActorInv
<1>1. UNCHANGED owner /\ client_storage' = [client_storage EXCEPT ![a] = NoClient]
  BY DeleteUnlists
<1>2. CASE client_storage[a] = NoClient
  <2>1. \A c \in Client : Listed(c)' = Listed(c)
    BY <1>1, <1>2 DEF Listed, ActorTypeOK
  <2> QED
    BY <1>1, <2>1 DEF Life!lifeVars
<1>3. CASE client_storage[a] # NoClient
  <2>0. PICK c \in Client : client_storage[a] = c /\ owner[c] = a
    BY <1>3, CurrentIsLive
  <2>1. (Listed(c) = TRUE) /\ (Listed(c)' = FALSE)
    BY <1>1, <2>0, CurrentIsLive DEF Listed, ActorTypeOK
  <2>2. \A d \in Client : d # c => Listed(d)' = Listed(d)
    BY <1>1, <2>0 DEF Listed, ActorTypeOK
  <2>3. [d \in Client |-> Listed(d)'] = [[d \in Client |-> Listed(d)] EXCEPT ![c] = FALSE]
    BY <2>1, <2>2
  <2>4. Life!Unlist(c)
    BY <1>1, <2>1, <2>3 DEF Life!Unlist
  <2> QED
    BY <2>1, <2>4 DEF Life!LifeNext
<1> QED
  BY <1>2, <1>3

(* One task's step is a step of its client's life, or none at all. *)
LEMMA TaskRefines ==
  ASSUME ActorInv, ActorInv', TasksInv, TasksInv', NEW t \in Task, TaskStep(t)
  PROVE  [Life!LifeNext]_(Life!lifeVars)
<1> USE ClientActorAssumption DEF ActorInv, TasksInv
<1>1. pc[t] # "idle" /\ ref[t] \in Client /\ owner[ref[t]] \in Addr
  BY TaskClient
  DEF TaskStep, Push, PushDelete, Status, Connect, Accept, Extract, ReadDtls, Delete, At
<1>2. PICK c \in Client : c = ref[t]
  BY <1>1
<1>3. /\ \A u \in Task \ {t} : pc'[u] = pc[u] /\ ref'[u] = ref[u]
      /\ ref'[t] \in {ref[t], NoClient}
      /\ pc'[t] # "idle" => ref'[t] = ref[t]
      /\ \A d \in Client : d # c => (Attended(d, {"shake"})' <=> Attended(d, {"shake"}))
  BY <1>2, OthersStay
<1>4. \A d \in Client : d # c => Phase(d)' = Phase(d)
  <2>1. \A d \in Client : d # c => state'[d] = state[d]
    BY <1>2
    DEF TaskStep, Push, PushDelete, Status, Connect, Accept, Extract, ReadDtls, Delete,
        connVars, TasksTypeOK
  <2> QED
    BY <1>3, <2>1, PhaseKept
<1>5. ASSUME UNCHANGED state, pc[t] # "shake", pc'[t] # "shake"
      PROVE  \A d \in Client : Phase(d)' = Phase(d)
  <2>1. Attended(c, {"shake"})' <=> Attended(c, {"shake"})
    BY <1>2, <1>3, <1>5 DEF Attended
  <2> QED
    BY <1>4, <1>5, <2>1, PhaseKept
<1>6. ASSUME UNCHANGED actorVars
      PROVE  UNCHANGED owner /\ \A d \in Client : Listed(d)' = Listed(d)
  BY <1>6 DEF actorVars, feedVars, Listed
<1>7. CASE PushDelete(t) \/ Delete(t)
  <2>1. DeleteMessage(owner[ref[t]]) /\ UNCHANGED <<state, srtp>>
        /\ pc[t] # "shake" /\ pc'[t] # "shake"
    BY <1>7 DEF PushDelete, Delete, At, Goto, Finish, connVars, TasksTypeOK
  <2> QED
    BY <1>1, <1>5, <2>1, DeleteRefines
<1>8. CASE Push(t) \/ Status(t) \/ Extract(t) \/ ReadDtls(t)
  <2>1. UNCHANGED actorVars /\ UNCHANGED <<state, srtp>> /\ pc[t] # "shake" /\ pc'[t] # "shake"
    BY <1>8 DEF Push, Status, Extract, ReadDtls, At, Goto, Finish, connVars, TasksTypeOK
  <2> QED
    BY <1>5, <1>6, <2>1 DEF Life!lifeVars
<1>9. CASE Connect(t)
  <2>1. /\ UNCHANGED actorVars /\ UNCHANGED srtp /\ pc[t] = "connect"
        /\ ~Attended(c, {"shake"})
        /\ \/ pc'[t] = "del" /\ UNCHANGED state
           \/ pc'[t] = "del" /\ state' = [state EXCEPT ![c] = "Shutdown"]
           \/ /\ pc'[t] = "shake" /\ state[c] = "New"
              /\ state' = [state EXCEPT ![c] = "Shutdown"]
    BY <1>2, <1>9 DEF Connect, At, Goto, StateFree, HoldsState, Attended, TasksTypeOK
  <2>2. CASE UNCHANGED state /\ pc'[t] = "del"
    BY <1>5, <1>6, <2>1, <2>2 DEF Life!lifeVars
  <2>3. CASE pc'[t] = "del" /\ state' = [state EXCEPT ![c] = "Shutdown"]
    <3>1. ~Attended(c, {"shake"})'
      BY <1>2, <1>3, <2>1, <2>3 DEF Attended
    <3>2. Phase(c)' = "down"
      BY <2>3, <3>1 DEF Phase, TasksTypeOK
    <3>3. CASE Phase(c) = "down"
      BY <1>4, <1>6, <2>1, <3>2, <3>3 DEF Life!lifeVars
    <3>4. CASE Phase(c) # "down"
      <4>1. [d \in Client |-> Phase(d)'] = [[d \in Client |-> Phase(d)] EXCEPT ![c] = "down"]
        BY <1>4, <3>2
      <4>2. Life!ShutDown(c)
        BY <1>1, <1>2, <1>6, <2>1, <3>4, <4>1 DEF Life!ShutDown
      <4> QED
        BY <4>2 DEF Life!LifeNext
    <3> QED
      BY <3>3, <3>4
  <2>4. CASE /\ pc'[t] = "shake" /\ state[c] = "New"
             /\ state' = [state EXCEPT ![c] = "Shutdown"]
    <3>1. Attended(c, {"shake"})'
      BY <1>2, <1>3, <2>4 DEF Attended
    <3>2. Phase(c)' = "shaking" /\ Phase(c) = "new"
      BY <2>4, <3>1 DEF Phase, TasksTypeOK
    <3>3. [d \in Client |-> Phase(d)'] = [[d \in Client |-> Phase(d)] EXCEPT ![c] = "shaking"]
      BY <1>4, <3>2
    <3>4. Life!StartHandshake(c)
      BY <1>1, <1>2, <1>6, <2>1, <3>2, <3>3 DEF Life!StartHandshake
    <3> QED
      BY <3>4 DEF Life!LifeNext
  <2> QED
    BY <2>1, <2>2, <2>3, <2>4
<1>10. CASE Accept(t)
  <2>1. /\ UNCHANGED actorVars /\ pc[t] = "shake" /\ pc'[t] \in {"idle", "del"}
        /\ \/ /\ state' = [state EXCEPT ![c] = "Connected"]
              /\ srtp' = [srtp EXCEPT ![c] = TRUE]
           \/ UNCHANGED <<state, srtp>>
    BY <1>2, <1>10 DEF Accept, At, Goto, Finish, connVars, TasksTypeOK
  <2>2. state[c] = "Shutdown" /\ Attended(c, {"shake"}) /\ ~Attended(c, {"shake"})'
    BY <1>2, <1>3, <2>1 DEF StateLocked, HoldsState, Attended
  <2>3. Phase(c) = "shaking"
    BY <2>2 DEF Phase
  <2>4. CASE /\ state' = [state EXCEPT ![c] = "Connected"]
             /\ srtp' = [srtp EXCEPT ![c] = TRUE]
    <3>1. Phase(c)' = "up"
      BY <2>4 DEF Phase, TasksTypeOK
    <3>2. [d \in Client |-> Phase(d)'] = [[d \in Client |-> Phase(d)] EXCEPT ![c] = "up"]
      BY <1>4, <3>1
    <3>3. Life!Establish(c)
      BY <1>6, <2>1, <2>3, <2>4, <3>2 DEF Life!Establish
    <3> QED
      BY <3>3 DEF Life!LifeNext
  <2>5. CASE UNCHANGED <<state, srtp>>
    <3>1. Phase(c)' = "down"
      BY <2>2, <2>5 DEF Phase
    <3>2. [d \in Client |-> Phase(d)'] = [[d \in Client |-> Phase(d)] EXCEPT ![c] = "down"]
      BY <1>4, <3>1
    <3>3. Life!ShutDown(c)
      BY <1>1, <1>2, <1>6, <2>1, <2>3, <2>5, <3>2 DEF Life!ShutDown
    <3> QED
      BY <3>3 DEF Life!LifeNext
  <2> QED
    BY <2>1, <2>4, <2>5
<1> QED
  BY <1>7, <1>8, <1>9, <1>10 DEF TaskStep

(* The first packet of an address opens a client; later ones change no life. *)
LEMMA DtlsRefines ==
  ASSUME ActorInv, ActorInv', TasksInv, NEW t \in Task, NEW a \in Addr, Dtls(t, a)
  PROVE  [Life!LifeNext]_(Life!lifeVars)
<1> USE ClientActorAssumption DEF ActorInv, TasksInv
<1>1. pc[t] = "idle" /\ pc' = [pc EXCEPT ![t] = "push"] /\ UNCHANGED <<state, srtp>>
  BY DtlsOutcome
<1>2. \A d \in Client : Phase(d)' = Phase(d)
  <2>1. PICK c \in Client : ref' = [ref EXCEPT ![t] = c]
    BY DtlsOutcome, CurrentIsLive
  <2>2. \A d \in Client : Attended(d, {"shake"})' <=> Attended(d, {"shake"})
    BY <1>1, <2>1 DEF Attended, TasksTypeOK
  <2> QED
    BY <1>1, <2>2, PhaseKept
<1>3. CASE UNCHANGED <<owner, client_storage>>
  <2>1. \A d \in Client : Listed(d)' = Listed(d)
    BY <1>3 DEF Listed
  <2> QED
    BY <1>1, <1>2, <1>3, <2>1 DEF Life!lifeVars
<1>4. ASSUME NEW c \in Client, OpenClient(a, c)
      PROVE  [Life!LifeNext]_(Life!lifeVars)
  <2>1. /\ client_storage[a] = NoClient /\ owner[c] = NoAddr
        /\ owner' = [owner EXCEPT ![c] = a]
        /\ client_storage' = [client_storage EXCEPT ![a] = c]
    BY <1>4 DEF OpenClient
  <2>2. Listed(c)' = TRUE
    BY <2>1 DEF Listed, ActorTypeOK
  <2>3. \A d \in Client : d # c => Listed(d)' = Listed(d)
    BY <2>1 DEF Listed, ActorTypeOK
  <2>4. [d \in Client |-> Listed(d)'] = [[d \in Client |-> Listed(d)] EXCEPT ![c] = TRUE]
    BY <2>2, <2>3
  <2>5. \A d \in Client : owner[d] = a => ~Listed(d)
    BY <2>1 DEF Listed, StorageIsLive
  <2>6. Life!Open(c, a)
    BY <1>1, <1>2, <2>1, <2>4, <2>5 DEF Life!Open
  <2> QED
    BY <2>6 DEF Life!LifeNext
<1> QED
  BY <1>3, <1>4 DEF Dtls, actorVars, feedVars

(* Tasks, locks and messages implement the abstract life of a client. *)
THEOREM TasksImplementLifecycle == Spec => ImplementsLifecycle
<1>1. Init => Life!LifeInit
  <2> SUFFICES ASSUME Init PROVE Life!LifeInit
    OBVIOUS
  <2>1. \A c \in Client : Phase(c) = "new" /\ (Listed(c) = FALSE)
    BY ClientActorAssumption DEF Init, TasksInit, ActorInit, NoReceivers, Phase, Listed
  <2> QED
    BY <2>1 DEF Init, TasksInit, ActorInit, Life!LifeInit
<1>2. ASSUME ActorInv, TasksInv, [Next]_vars, ActorInv', TasksInv'
      PROVE  [Life!LifeNext]_(Life!lifeVars)
  <2>1. CASE UNCHANGED <<owner, client_storage, pc, ref, state, srtp>>
    <3>1. \A d \in Client : Phase(d)' = Phase(d) /\ Listed(d)' = Listed(d)
      BY <2>1 DEF Phase, Attended, Listed
    <3> QED
      BY <2>1, <3>1 DEF Life!lifeVars
  <2>2. CASE Binding
    BY <2>1, <2>2, BindingKeeps
  <2>3. CASE UNCHANGED vars
    BY <2>1, <2>3 DEF vars, actorVars, feedVars, taskVars, connVars
  <2> QED
    BY <1>2, <2>2, <2>3, DtlsRefines, TaskRefines DEF Next
<1> QED
  BY <1>1, <1>2, TasksInvariant, PTL DEF Spec, ImplementsLifecycle, Life!LifeSpec

-----------------------------------------------------------------------------
(* Only a connect that was decided before the connection came up shuts it  *)
(* down again.                                                             *)
THEOREM OnlyLateConnects == Spec => OnlyLateConnectShutsDown
<1> DEFINE Late ==
      \A c \in Client :
        state[c] = "Connected" /\ state'[c] # "Connected" =>
          \E t \in Task : ref[t] = c /\ pc[t] = "connect" /\ pc'[t] = "del"
<1>1. ASSUME TasksInv, [Next]_vars
      PROVE  Late
  <2> USE <1>1 DEF TasksInv
  <2>1. CASE UNCHANGED state
    BY <2>1
  <2>2. ASSUME NEW t \in Task, Connect(t)
        PROVE  Late
    BY <2>2 DEF Connect, At, Goto, TasksTypeOK
  <2>3. ASSUME NEW t \in Task, Accept(t)
        PROVE  Late
    BY <2>3 DEF Accept, connVars, TasksTypeOK
  <2> QED
    BY <2>1, <2>2, <2>3
    DEF Next, Dtls, TaskStep, Push, PushDelete, Status, Extract, ReadDtls, Delete, Binding,
        vars, connVars
<1>2. TasksInv /\ [Next]_vars => [Late]_vars
  BY <1>1
<1> QED
  BY <1>2, TasksInvariant, PTL DEF Spec, OnlyLateConnectShutsDown

(* A client is deleted by one of its own tasks, or by the late message of  *)
(* a task whose own client was deleted before.                             *)
THEOREM DeletedByOwnOrLate == Spec => DeletedByOwnOrPredecessor
<1> DEFINE ByOwnOrLate ==
      \A c \in Client :
        ~is_deleted[c] /\ is_deleted'[c] =>
          \E t \in Task :
            /\ pc[t] \in {"del", "pushDel"}
            /\ owner[ref[t]] = owner[c]
            /\ ref[t] = c \/ is_deleted[ref[t]]
<1>1. ASSUME ActorInv, TasksInv, [Next]_vars
      PROVE  ByOwnOrLate
  <2> USE <1>1 DEF ActorInv, TasksInv
  <2>1. CASE UNCHANGED is_deleted
    BY <2>1
  <2>2. ASSUME NEW t \in Task, PushDelete(t) \/ Delete(t)
        PROVE  ByOwnOrLate
    <3>1. /\ pc[t] \in {"del", "pushDel"} /\ ref[t] \in Client /\ owner[ref[t]] \in Addr
          /\ DeleteMessage(owner[ref[t]])
      BY <2>2, TaskClient DEF PushDelete, Delete, At
    <3>2. CASE client_storage[owner[ref[t]]] = NoClient
      BY <2>1, <3>1, <3>2 DEF DeleteMessage, actorVars, feedVars
    <3>3. CASE client_storage[owner[ref[t]]] # NoClient
      <4>1. PICK a \in Addr : a = owner[ref[t]]
        BY <3>1
      <4>2. PICK d \in Client : client_storage[a] = d /\ owner[d] = a
        BY <3>3, <4>1, CurrentIsLive
      <4>3. is_deleted' = [is_deleted EXCEPT ![d] = TRUE]
        BY <3>1, <3>3, <4>1, <4>2, DeleteOutcome
      <4>4. ref[t] = d \/ is_deleted[ref[t]]
        BY <3>1, <4>1, <4>2, ClientActorAssumption DEF StorageIsLive, Live
      <4> QED
        BY <3>1, <4>1, <4>2, <4>3, <4>4 DEF ActorTypeOK
    <3> QED
      BY <3>2, <3>3
  <2> QED
    BY <2>1, <2>2
    DEF Next, Dtls, OpenClient, TaskStep, Push, Status, Connect, Accept, Extract, ReadDtls,
        Binding, GroupId, MediaAddr, Attach, Handover, vars, actorVars, feedVars
<1>2. ActorInv /\ TasksInv /\ [Next]_vars => [ByOwnOrLate]_vars
  BY <1>1
<1> QED
  BY <1>2, TasksInvariant, PTL DEF Spec, DeletedByOwnOrPredecessor

=============================================================================
