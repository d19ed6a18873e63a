---------------------------- MODULE RtcActor_proofs ----------------------------
(***************************************************************************)
(* Proofs about module RtcActor, for any number of threads, addresses and  *)
(* clients. RtcTypeOK ties the tables behind the locks to ClientActor's    *)
(* decisions; Covered says what a thread in its loop over the receivers    *)
(* has done and has still to do; with plain members only, EchoInv says     *)
(* that no address is listed at a client of its own.                       *)
(***************************************************************************)
EXTENDS RtcActor, ClientActor_proofs

(* The parts of the state the properties leave open. *)
JobTypeOK ==
  /\ is_rtcp \in [Worker -> BOOLEAN]
  /\ failed \in [Worker -> BOOLEAN] /\ hindered \in [Worker -> BOOLEAN]
  /\ \A w \in Worker : pc[w] # "idle" => from[w] \in Client
  /\ \A w \in Worker : pc[w] \notin {"forward", "feedback"} => ~failed[w] /\ sent[w] = {}

(* Unless it was hindered, the loop has served every live receiver or will *)
(* come to it, and then finds its keys.                                    *)
Covered(w) ==
  /\ pc[w] = "feedback" => Filed(from[w]) = {} /\ ~failed[w]
  /\ pc[w] \in {"forward", "feedback"} =>
       todo[w] \subseteq Filed(from[w]) /\ todo[w] \cap sent[w] = {}
  /\ pc[w] = "forward" /\ ~hindered[w] =>
       /\ ~failed[w]
       /\ \A a \in Filed(from[w]) :
            \/ is_deleted[table[from[w]][a]] \/ a \in sent[w]
            \/ a \in todo[w] /\ srtp[table[from[w]][a]]

RtcInv == RtcTypeOK /\ JobTypeOK /\ \A w \in Worker : Covered(w)

-----------------------------------------------------------------------------
(* Every step is one of ClientActor, or leaves its tables alone. *)
LEMMA RtcStepActor ==
  ASSUME [RtcNext]_rtcVars
  PROVE  [ActorNext]_actorVars
<1>1. CASE Handler
  BY <1>1 DEF Handler, Open, Delete, Group, Media, ActorNext
<1> QED
  BY <1>1 DEF RtcNext, InstallKeys, Write, Take, WorkerStep, Refuse, Done, Decrypt, Lock,
              Forward, ForwardBeside, Unprotected, EndForward, Feedback, rtcVars

(* What a handler of ClientActor leaves to be written. *)
LEMMA HandlerOutcome ==
  ASSUME ActorInv, RtcTypeOK, Handler
  PROVE  /\ writing' \in Client \cup {NoClient}
         /\ \A c \in Client \ {writing'} : receivers'[c] = receivers[c]
         /\ \A c \in Client : is_deleted[c] => is_deleted'[c]
         /\ \A c \in Client : table[c] = receivers[c]
         /\ UNCHANGED <<table, srtp, pc, from, is_rtcp, todo, sent, failed, hindered>>
<1>1. UNCHANGED <<table, srtp, pc, from, is_rtcp, todo, sent, failed, hindered>>
  BY DEF Handler, jobVars
<1>2. \A c \in Client : table[c] = receivers[c]
  BY ClientActorAssumption DEF Handler, RtcTypeOK
<1>3. ASSUME NEW a \in Addr, NEW c \in Client, Open(a, c)
      PROVE  /\ writing' = writing
             /\ UNCHANGED <<receivers, is_deleted>>
  BY <1>3 DEF Open, OpenClient
<1>4. ASSUME NEW a \in Addr, Delete(a)
      PROVE  /\ writing' \in Client \cup {NoClient}
             /\ \A c \in Client \ {writing'} : receivers'[c] = receivers[c]
             /\ \A c \in Client : is_deleted[c] => is_deleted'[c]
  <2>1. writing' = client_storage[a] /\ DeleteMessage(a)
    BY <1>4 DEF Delete
  <2>2. CASE client_storage[a] = NoClient
    BY <2>1, <2>2 DEF DeleteMessage, actorVars, feedVars
  <2>3. CASE client_storage[a] # NoClient
    <3>1. PICK c \in Client : c = client_storage[a]
      BY <2>3, CurrentIsLive DEF ActorInv
    <3>2. /\ is_deleted' = [is_deleted EXCEPT ![c] = TRUE]
          /\ receivers' = [receivers EXCEPT ![c] = KeepLiveReceivers(c)]
      BY <2>1, <2>3, <3>1, DeleteOutcome
    <3> QED
      BY <2>1, <3>1, <3>2 DEF ActorInv, ActorTypeOK
  <2> QED
    BY <2>2, <2>3
<1>5. ASSUME NEW g \in Groups, NEW a \in Addr, NEW is_sender \in Roles, Group(g, a, is_sender)
      PROVE  /\ writing' \in Client \cup {NoClient}
             /\ \A c \in Client \ {writing'} : receivers'[c] = receivers[c]
             /\ is_deleted' = is_deleted
  <2>1. PICK last \in Addr : last = LastSender(g, a)
    BY <1>5, GroupIdOutcome DEF Group, ActorInv
  <2>2. GroupId(g, a, is_sender)
    BY <1>5 DEF Group
  <2>3. writing' = IF \/ ReturnsEarly(last, a, is_sender) \/ Displaces(last, a, is_sender)
                      \/ client_storage[a] = NoClient
                   THEN NoClient ELSE client_storage[last]
    BY <1>5, <2>1 DEF Group
  <2>4. writing' \in Client \cup {NoClient}
    BY <2>3 DEF ActorInv, ActorTypeOK
  <2>5. CASE UNCHANGED feedVars
    BY <2>4, <2>5 DEF feedVars
  <2>6. CASE /\ ~ReturnsEarly(last, a, is_sender) /\ ~Displaces(last, a, is_sender)
             /\ client_storage[a] # NoClient /\ client_storage[last] # NoClient
             /\ Attach(last, a)
    <3>1. PICK s \in Client : s = client_storage[last] /\ s = writing'
      BY <2>3, <2>6 DEF ActorInv, ActorTypeOK
    <3>2. /\ receivers' = [receivers EXCEPT ![s] = [receivers[s] EXCEPT ![a] = client_storage[a]]]
          /\ is_deleted' = is_deleted
      BY <2>6, <3>1 DEF Attach
    <3> QED
      BY <2>4, <3>1, <3>2 DEF ActorInv, ActorTypeOK
  <2> QED
    BY <2>1, <2>2, <2>5, <2>6 DEF GroupId, Handover, feedVars
<1>6. \/ \E a \in Addr, c \in Client : Open(a, c)
      \/ \E a \in Addr : Delete(a)
      \/ \E g \in Groups, a \in Addr, is_sender \in Roles : Group(g, a, is_sender)
      \/ \E a \in Addr, freqs \in SUBSET Frequency : Media(a, freqs)
  BY DEF Handler
<1>8. ASSUME NEW a \in Addr, NEW freqs \in SUBSET Frequency, Media(a, freqs)
      PROVE  UNCHANGED <<writing, receivers, is_deleted>>
  BY <1>8 DEF Media, MediaAddr, feedVars
<1>7. writing \in Client \cup {NoClient}
  BY DEF RtcTypeOK
<1> QED
  BY <1>1, <1>2, <1>3, <1>4, <1>5, <1>6, <1>7, <1>8

(* A thread in its loop is not disturbed by deletions, by keys, or by what *)
(* happens to tables other than the one it holds the lock of.              *)
LEMMA CoveredKept ==
  ASSUME RtcInv, NEW v \in Worker,
         pc'[v] = pc[v], from'[v] = from[v], todo'[v] = todo[v], sent'[v] = sent[v],
         failed'[v] = failed[v], hindered'[v] = hindered[v],
         pc[v] \in {"forward", "feedback"} => table'[from[v]] = table[from[v]],
         \A c \in Client : is_deleted[c] => is_deleted'[c],
         \A c \in Client : srtp[c] => srtp'[c]
  PROVE  Covered(v)'
<1>1. CASE pc[v] \notin {"forward", "feedback"}
  BY <1>1 DEF Covered
<1>2. CASE pc[v] \in {"forward", "feedback"}
  <2>1. PICK c \in Client : c = from[v]
    BY <1>2 DEF RtcInv, JobTypeOK
  <2>2. Filed(c)' = Filed(c) /\ \A a \in Filed(c) : table[c][a] \in Client
    BY <1>2, <2>1 DEF Filed, RtcInv, RtcTypeOK
  <2>3. Covered(v)
    BY DEF RtcInv
  <2> QED
    BY <1>2, <2>1, <2>2, <2>3 DEF Covered, Filed
<1> QED
  BY <1>1, <1>2

(* A handler decides while the tables behind the locks stay. *)
LEMMA HandlerKeeps ==
  ASSUME ActorInv, RtcInv, Handler
  PROVE  RtcInv'
<1>1. /\ writing' \in Client \cup {NoClient}
      /\ \A c \in Client \ {writing'} : receivers'[c] = receivers[c]
      /\ \A c \in Client : is_deleted[c] => is_deleted'[c]
      /\ \A c \in Client : table[c] = receivers[c]
      /\ UNCHANGED <<table, srtp, pc, from, is_rtcp, todo, sent, failed, hindered>>
  BY HandlerOutcome DEF RtcInv
<1>2. RtcTypeOK' /\ JobTypeOK'
  BY <1>1 DEF RtcInv, RtcTypeOK, JobTypeOK
<1>3. \A w \in Worker : Covered(w)'
  BY <1>1, CoveredKept
<1> QED
  BY <1>2, <1>3 DEF RtcInv

(* No thread reads the table that is written. *)
LEMMA WriteKeeps ==
  ASSUME ActorInv, RtcInv, Write
  PROVE  RtcInv'
<1>1. PICK c \in Client : c = writing
  BY DEF Write, RtcInv, RtcTypeOK
<1>2. /\ table' = [table EXCEPT ![c] = receivers[c]] /\ writing' = NoClient
      /\ UNCHANGED <<receivers, is_deleted, srtp, pc, from, is_rtcp, todo, sent, failed, hindered>>
  BY <1>1 DEF Write, actorVars, feedVars, jobVars
<1>3. RtcTypeOK' /\ JobTypeOK'
  BY <1>1, <1>2 DEF RtcInv, RtcTypeOK, JobTypeOK, ActorInv, ActorTypeOK
<1>4. ASSUME NEW w \in Worker PROVE Covered(w)'
  <2>1. pc[w] \in {"forward", "feedback"} => from[w] # c
    BY <1>1 DEF Write, Reads
  <2>2. pc[w] \in {"forward", "feedback"} => table'[from[w]] = table[from[w]]
    BY <1>2, <2>1 DEF RtcInv, RtcTypeOK, JobTypeOK
  <2> QED
    BY <1>2, <2>2, CoveredKept
<1> QED
  BY <1>3, <1>4 DEF RtcInv

(* New keys take nothing away from what a thread has done. *)
LEMMA InstallKeeps ==
  ASSUME RtcInv, NEW c \in Client, InstallKeys(c)
  PROVE  RtcInv'
<1>1. /\ srtp' = [srtp EXCEPT ![c] = TRUE]
      /\ UNCHANGED <<receivers, is_deleted, table, writing, pc, from, is_rtcp, todo, sent,
                     failed, hindered>>
  BY DEF InstallKeys, actorVars, feedVars, jobVars
<1>2. RtcTypeOK' /\ JobTypeOK'
  BY <1>1 DEF RtcInv, RtcTypeOK, JobTypeOK
<1>3. \A d \in Client : srtp[d] => srtp'[d]
  BY <1>1 DEF RtcInv, RtcTypeOK
<1>4. \A w \in Worker : Covered(w)'
  BY <1>1, <1>3, CoveredKept
<1> QED
  BY <1>2, <1>4 DEF RtcInv

(* A step of thread w leaves the tables, the keys and other threads alone. *)
ThreadFrame(w) ==
  /\ UNCHANGED <<receivers, is_deleted, table, writing, srtp>>
  /\ \A v \in Worker \ {w} :
       /\ pc'[v] = pc[v] /\ from'[v] = from[v] /\ todo'[v] = todo[v] /\ sent'[v] = sent[v]
       /\ failed'[v] = failed[v] /\ hindered'[v] = hindered[v]

(* It is enough to look at the thread that moves. *)
LEMMA ThreadKeeps ==
  ASSUME RtcInv, NEW w \in Worker, ThreadFrame(w), RtcTypeOK', JobTypeOK', Covered(w)'
  PROVE  RtcInv'
BY CoveredKept DEF RtcInv, ThreadFrame

(* A packet begins and ends with nothing sent. *)
LEMMA StartKeeps ==
  ASSUME ActorInv, RtcInv, NEW w \in Worker,
         \/ \E a \in Addr, rtcp \in BOOLEAN : Take(w, a, rtcp)
         \/ Decrypt(w)
         \/ \E here \in {"decrypt", "forward"} : Done(w, here)
  PROVE  RtcInv'
<1> USE DEF RtcInv, RtcTypeOK, JobTypeOK, Goto
<1>1. ASSUME NEW a \in Addr, NEW rtcp \in BOOLEAN, Take(w, a, rtcp) PROVE RtcInv'
  <2>1. client_storage[a] \in Client
    BY <1>1 DEF Take, ActorInv, ActorTypeOK
  <2>2. ThreadFrame(w) /\ RtcTypeOK' /\ JobTypeOK' /\ pc'[w] = "decrypt"
    BY <1>1, <2>1 DEF Take, ThreadFrame, actorVars, feedVars, lockVars
  <2> QED
    BY <2>2, ThreadKeeps DEF Covered
<1>2. CASE Decrypt(w)
  <2>1. ThreadFrame(w) /\ RtcTypeOK' /\ JobTypeOK' /\ pc'[w] = "lock"
    BY <1>2 DEF Decrypt, ThreadFrame, actorVars, feedVars, lockVars, jobVars
  <2> QED
    BY <2>1, ThreadKeeps DEF Covered
<1>3. ASSUME NEW here, Done(w, here) PROVE RtcInv'
  <2>1. ThreadFrame(w) /\ RtcTypeOK' /\ JobTypeOK' /\ pc'[w] = "idle"
    BY <1>3 DEF Done, ThreadFrame, actorVars, feedVars, lockVars
  <2> QED
    BY <2>1, ThreadKeeps DEF Covered
<1> QED
  BY <1>1, <1>2, <1>3

(* With the lock, all filed receivers are still to do. *)
LEMMA LockKeeps ==
  ASSUME RtcInv, NEW w \in Worker, Lock(w)
  PROVE  RtcInv'
<1>1. PICK c \in Client : c = from[w]
  BY DEF Lock, RtcInv, JobTypeOK
<1>2. PICK F \in SUBSET Addr : F = Filed(c) /\ F = {a \in Addr : table[c][a] # NoClient}
  BY DEF Filed
<1>3. PICK h \in BOOLEAN : h = \E a \in F : ~is_deleted[table[c][a]] /\ ~srtp[table[c][a]]
  OBVIOUS
<1>4. PICK there \in {"forward", "feedback"} :
        there = IF is_rtcp[w] /\ F = {} THEN "feedback" ELSE "forward"
  OBVIOUS
<1>5. /\ pc[w] = "lock" /\ pc' = [pc EXCEPT ![w] = there]
      /\ todo' = [todo EXCEPT ![w] = F] /\ hindered' = [hindered EXCEPT ![w] = h]
      /\ UNCHANGED <<receivers, is_deleted, table, writing, srtp, from, is_rtcp, sent, failed>>
  BY <1>1, <1>2, <1>3, <1>4 DEF Lock, actorVars, feedVars, lockVars
<1>6. ThreadFrame(w)
  BY <1>5 DEF ThreadFrame, RtcInv, RtcTypeOK, JobTypeOK
<1>7. RtcTypeOK' /\ JobTypeOK'
  BY <1>1, <1>4, <1>5 DEF RtcInv, RtcTypeOK, JobTypeOK
<1>8. Covered(w)'
  <2>1. /\ pc'[w] = there /\ todo'[w] = F /\ hindered'[w] = h /\ from'[w] = c
        /\ ~failed'[w] /\ table' = table /\ srtp' = srtp /\ is_deleted' = is_deleted
        /\ sent'[w] = {}
    BY <1>1, <1>5 DEF RtcInv, RtcTypeOK, JobTypeOK
  <2> QED
    BY <1>2, <1>3, <1>4, <2>1 DEF Covered, Filed
<1> QED
  BY <1>6, <1>7, <1>8, ThreadKeeps

(* The turns of the loop. *)
LEMMA TurnKeeps ==
  ASSUME RtcInv, NEW w \in Worker, NEW a \in Addr,
         Forward(w, a) \/ ForwardBeside(w, a) \/ Unprotected(w, a)
  PROVE  RtcInv'
<1>1. PICK c \in Client : c = from[w]
  BY DEF Forward, ForwardBeside, Unprotected, RtcInv, JobTypeOK
<1>2. /\ pc[w] = "forward" /\ a \in todo[w] /\ todo' = [todo EXCEPT ![w] = todo[w] \ {a}]
      /\ UNCHANGED <<receivers, is_deleted, table, writing, srtp, pc, from, is_rtcp>>
  BY DEF Forward, ForwardBeside, Unprotected, actorVars, feedVars, lockVars
<1>3. PICK r : r = table[c][a]
  OBVIOUS
<1>4. \/ /\ sent' = [sent EXCEPT ![w] = sent[w] \cup {a}] /\ UNCHANGED <<failed, hindered>>
      \/ /\ is_deleted[r] /\ UNCHANGED <<sent, hindered>> /\ failed' = [failed EXCEPT ![w] = FALSE]
         /\ ~failed[w]
      \/ /\ ~srtp[r] /\ ~is_deleted[r] /\ failed' = [failed EXCEPT ![w] = TRUE]
         /\ UNCHANGED <<sent, hindered>>
      \/ /\ hindered' = [hindered EXCEPT ![w] = TRUE] /\ failed' = [failed EXCEPT ![w] = TRUE]
         /\ UNCHANGED sent
  <2>1. CASE Forward(w, a)
    <3>1. /\ ~failed[w] /\ UNCHANGED hindered
          /\ sent' = IF ~is_deleted[r] /\ srtp[r] THEN [sent EXCEPT ![w] = sent[w] \cup {a}]
                     ELSE sent
          /\ failed' = [failed EXCEPT ![w] = ~is_deleted[r] /\ ~srtp[r]]
      BY <1>1, <1>3, <2>1 DEF Forward, Skipped
    <3>2. CASE is_deleted[r]
      BY <3>1, <3>2
    <3>3. CASE ~is_deleted[r] /\ ~srtp[r]
      BY <3>1, <3>3
    <3>4. CASE ~is_deleted[r] /\ srtp[r]
      <4>1. failed' = failed
        BY <3>1, <3>4 DEF RtcInv, JobTypeOK
      <4> QED
        BY <3>1, <3>4, <4>1
    <3> QED
      BY <3>2, <3>3, <3>4
  <2> QED
    BY <2>1 DEF ForwardBeside, Unprotected
<1>5. ThreadFrame(w)
  BY <1>2, <1>4 DEF ThreadFrame, RtcInv, RtcTypeOK, JobTypeOK
<1>6. RtcTypeOK' /\ JobTypeOK'
  <2>1. sent' \in [Worker -> SUBSET Addr] /\ todo' \in [Worker -> SUBSET Addr]
    BY <1>2, <1>4 DEF RtcInv, RtcTypeOK
  <2>2. failed' \in [Worker -> BOOLEAN] /\ hindered' \in [Worker -> BOOLEAN]
    BY <1>4 DEF RtcInv, JobTypeOK
  <2>3. \A v \in Worker : pc'[v] \notin {"forward", "feedback"} => ~failed'[v] /\ sent'[v] = {}
    BY <1>2, <1>5 DEF ThreadFrame, RtcInv, JobTypeOK
  <2>4. RtcTypeOK'
    BY <1>2, <2>1 DEF RtcInv, RtcTypeOK
  <2> QED
    BY <1>2, <2>2, <2>3, <2>4 DEF RtcInv, JobTypeOK
<1>7. Covered(w)'
  <2>1. /\ pc'[w] = "forward" /\ from'[w] = c /\ todo'[w] = todo[w] \ {a}
        /\ table' = table /\ srtp' = srtp /\ is_deleted' = is_deleted
    BY <1>1, <1>2 DEF RtcInv, RtcTypeOK
  <2>8. todo'[w] \subseteq Filed(c) /\ todo'[w] \cap sent'[w] = {}
    BY <1>1, <1>2, <1>4, <2>1 DEF RtcInv, Covered, RtcTypeOK
  <2>2. SUFFICES ASSUME ~hindered'[w]
                 PROVE  /\ ~failed'[w]
                        /\ \A b \in Filed(c) :
                             \/ is_deleted[table[c][b]] \/ b \in sent'[w]
                             \/ b \in todo'[w] /\ srtp[table[c][b]]
    BY <2>1, <2>8 DEF Covered, Filed
  <2>3. ~hindered[w]
    BY <1>4, <2>2 DEF RtcInv, JobTypeOK
  <2>4. /\ ~failed[w]
        /\ \A b \in Filed(c) :
             \/ is_deleted[table[c][b]] \/ b \in sent[w]
             \/ b \in todo[w] /\ srtp[table[c][b]]
    BY <1>1, <1>2, <2>3 DEF RtcInv, Covered
  <2>5. CASE sent' = [sent EXCEPT ![w] = sent[w] \cup {a}] /\ UNCHANGED <<failed, hindered>>
    <3>1. sent'[w] = sent[w] \cup {a} /\ failed'[w] = failed[w]
      BY <2>5 DEF RtcInv, RtcTypeOK
    <3> QED
      BY <2>1, <2>4, <3>1
  <2>6. CASE /\ is_deleted[r] /\ UNCHANGED <<sent, hindered>>
             /\ failed' = [failed EXCEPT ![w] = FALSE]
    <3>1. sent'[w] = sent[w] /\ ~failed'[w]
      BY <2>6 DEF RtcInv, JobTypeOK
    <3> QED
      BY <1>3, <2>1, <2>4, <2>6, <3>1
  <2>7. CASE ~srtp[r] /\ ~is_deleted[r] /\ UNCHANGED <<sent, hindered>>
    <3>1. a \in Filed(c) /\ a \notin sent[w]
      BY <1>1, <1>2 DEF RtcInv, Covered
    <3> QED
      BY <1>3, <2>4, <2>7, <3>1
  <2> QED
    <3>1. ~(hindered' = [hindered EXCEPT ![w] = TRUE])
      BY <2>2 DEF RtcInv, JobTypeOK
    <3> QED
      BY <1>4, <2>5, <2>6, <2>7, <3>1
<1> QED
  BY <1>5, <1>6, <1>7, ThreadKeeps

(* Feedback is sent when there are no receivers to cover. *)
LEMMA FeedbackKeeps ==
  ASSUME ActorInv, RtcInv, NEW w \in Worker, Feedback(w)
  PROVE  RtcInv'
<1>1. PICK c \in Client : c = from[w]
  BY DEF Feedback, Goto, RtcInv, JobTypeOK
<1>2. PICK to \in SUBSET Addr : sent' = [sent EXCEPT ![w] = to]
  <2>1. FeedbackTo(c) \in SUBSET Addr
    BY DEF FeedbackTo, ActorInv, ActorTypeOK
  <2> QED
    BY <1>1, <2>1 DEF Feedback
<1>3. /\ pc[w] = "feedback" /\ pc' = [pc EXCEPT ![w] = "forward"]
      /\ UNCHANGED <<receivers, is_deleted, table, writing, srtp, from, is_rtcp, todo, failed,
                     hindered>>
  BY DEF Feedback, Goto, actorVars, feedVars, lockVars
<1>4. ThreadFrame(w) /\ RtcTypeOK' /\ JobTypeOK'
  BY <1>2, <1>3 DEF ThreadFrame, RtcInv, RtcTypeOK, JobTypeOK
<1>5. Covered(w)'
  BY <1>1, <1>2, <1>3 DEF RtcInv, Covered, RtcTypeOK, Filed
<1> QED
  BY <1>4, <1>5, ThreadKeeps

(* So every step keeps the invariant. *)
LEMMA RtcStep ==
  ASSUME ActorInv, RtcInv, [RtcNext]_rtcVars
  PROVE  RtcInv'
<1>1. ASSUME NEW w \in Worker, WorkerStep(w) PROVE RtcInv'
  BY <1>1, StartKeeps, LockKeeps, TurnKeeps, FeedbackKeeps DEF WorkerStep, Refuse, EndForward
<1>2. CASE UNCHANGED rtcVars
  <2>1. UNCHANGED <<receivers, is_deleted, table, writing, srtp, pc, from, is_rtcp, todo, sent,
                    failed, hindered>>
    BY <1>2 DEF rtcVars, actorVars, feedVars, lockVars, jobVars
  <2>2. RtcTypeOK' /\ JobTypeOK'
    BY <2>1 DEF RtcInv, RtcTypeOK, JobTypeOK
  <2>3. \A w \in Worker : Covered(w)'
    BY <2>1, CoveredKept
  <2> QED
    BY <2>2, <2>3 DEF RtcInv
<1> QED
  BY <1>1, <1>2, HandlerKeeps, WriteKeeps, InstallKeeps, StartKeeps DEF RtcNext

(* All threads are idle at the start. *)
LEMMA RtcInvInit == RtcInit => ActorInv /\ RtcInv
<1> SUFFICES ASSUME RtcInit PROVE ActorInv /\ RtcInv
  OBVIOUS
<1>1. ActorInv
  BY ActorInvInit DEF RtcInit
<1>2. RtcTypeOK /\ JobTypeOK
  BY <1>1 DEF RtcInit, RtcTypeOK, JobTypeOK, ActorInv, ActorTypeOK
<1> QED
  BY <1>1, <1>2 DEF RtcInit, RtcInv, Covered

(* What ClientActor's thread and the pool keep between them, whatever      *)
(* their order (rtc_actor.rs:159-227).                                     *)
THEOREM RtcInvariant == RtcSpec => [](ActorInv /\ RtcInv)
<1>1. ActorInv /\ RtcInv /\ [RtcNext]_rtcVars => (ActorInv /\ RtcInv)'
  BY RtcStep, RtcStepActor, ActorInvStep
<1> QED
  BY <1>1, RtcInvInit, PTL DEF RtcSpec

(* The table behind each lock is what ClientActor decided, except for the  *)
(* one it is about to write.                                               *)
THEOREM TablesFollowDecisions == RtcSpec => []RtcTypeOK
<1>1. RtcInv => RtcTypeOK
  BY DEF RtcInv
<1> QED
  BY <1>1, RtcInvariant, PTL

(* A packet whose live receivers all have keys and can encrypt reaches     *)
(* every one of them that is still there at the end of the loop.           *)
THEOREM NoReceiverIsMissed == RtcSpec => NobodyMissed
<1> DEFINE Missed == \A w \in Worker :
       pc[w] = "forward" /\ pc'[w] = "idle" /\ ~hindered[w] =>
         \A a \in Filed(from[w]) : is_deleted[table[from[w]][a]] \/ a \in sent[w]
<1>1. RtcInv /\ [RtcNext]_rtcVars => [Missed]_rtcVars
  <2> SUFFICES ASSUME RtcInv, RtcNext, NEW w \in Worker,
                      pc[w] = "forward", pc'[w] = "idle", ~hindered[w]
               PROVE  \A a \in Filed(from[w]) : is_deleted[table[from[w]][a]] \/ a \in sent[w]
    OBVIOUS
  <2>1. todo[w] = {} \/ failed[w]
    <3>1. CASE pc' = pc
      BY <3>1
    <3>2. ASSUME NEW v \in Worker, NEW a \in Addr, NEW rtcp \in BOOLEAN, Take(v, a, rtcp)
          PROVE  FALSE
      BY <3>2 DEF Take, Goto, RtcInv, RtcTypeOK
    <3>3. ASSUME NEW v \in Worker, WorkerStep(v), pc' # pc PROVE todo[w] = {} \/ failed[w]
      BY <3>3 DEF WorkerStep, Refuse, Done, Decrypt, Lock, Forward, ForwardBeside, Unprotected,
                  EndForward, Feedback, Goto, RtcInv, RtcTypeOK
    <3> QED
      BY <3>1, <3>2, <3>3 DEF RtcNext, Handler, InstallKeys, Write
  <2> QED
    BY <2>1 DEF RtcInv, Covered
<1> QED
  BY <1>1, RtcInvariant, PTL DEF RtcSpec, NobodyMissed

-----------------------------------------------------------------------------
(* Forwarding under the locks implements the registry: whatever is proved  *)
(* of ClientActor alone holds while threads keep its handlers waiting.     *)
THEOREM RtcImplementsActor == RtcSpec => ActorSpec
<1>1. RtcInit => ActorInit
  BY DEF RtcInit
<1>2. [RtcNext]_rtcVars => [ActorNext]_actorVars
  BY RtcStepActor
<1> QED
  BY <1>1, <1>2, PTL DEF RtcSpec, ActorSpec

(* Behind the locks, too, a client is filed under its own address. *)
TablesAreFiled ==
  \A c \in Client, a \in Addr : table[c][a] # NoClient => owner[table[c][a]] = a

(* A client keeps its address, and Write takes over what ClientActor has   *)
(* filed.                                                                  *)
LEMMA FiledStep ==
  ASSUME ActorInv, RtcInv, TablesAreFiled, [RtcNext]_rtcVars
  PROVE  TablesAreFiled'
<1>1. CASE Write
  <2>1. PICK c \in Client : c = writing
    BY <1>1 DEF Write, RtcInv, RtcTypeOK
  <2>2. table' = [table EXCEPT ![c] = receivers[c]] /\ owner' = owner
    BY <1>1, <2>1 DEF Write, actorVars, feedVars
  <2>3. \A d \in Client : table'[d] \in {table[d], receivers[d]}
    BY <2>2 DEF RtcInv, RtcTypeOK
  <2>4. \A d \in Client, a \in Addr : receivers[d][a] # NoClient => owner[receivers[d][a]] = a
    BY DEF ActorInv, ReceiverIsCurrent, Feeds, ActorTypeOK
  <2> QED
    BY <2>2, <2>3, <2>4 DEF TablesAreFiled
<1>2. CASE ~Write
  <2>1. table' = table
    BY <1>2 DEF RtcNext, Handler, InstallKeys, Take, WorkerStep, Refuse, Done, Decrypt, Lock,
                Forward, ForwardBeside, Unprotected, EndForward, Feedback, rtcVars, lockVars
  <2>2. \A c \in Client : owner[c] # NoAddr => owner'[c] = owner[c]
    BY RtcStepActor, OwnersStay DEF ActorInv
  <2>3. ASSUME NEW c \in Client, NEW a \in Addr, table[c][a] # NoClient
        PROVE  owner'[table[c][a]] = a
    BY <2>2, <2>3, ClientActorAssumption DEF TablesAreFiled, RtcInv, RtcTypeOK
  <2> QED
    BY <2>1, <2>3 DEF TablesAreFiled
<1> QED
  BY <1>1, <1>2

(* What stands behind the locks was decided by ClientActor, and a packet   *)
(* comes from the client its address had when a thread took it.            *)
LEMMA PacketOrigin ==
  ASSUME RtcInv, [RtcNext]_rtcVars
  PROVE  /\ \A c \in Client : table'[c] \in {table[c], receivers[c]}
         /\ \A w \in Worker : \/ from'[w] \in {from[w], NoClient}
                              \/ \E a \in Addr : from'[w] = client_storage[a]
<1>0. /\ from \in [Worker -> Client \cup {NoClient}]
      /\ table \in [Client -> [Addr -> Client \cup {NoClient}]]
  BY DEF RtcInv, RtcTypeOK
<1>1. \A c \in Client : table'[c] \in {table[c], receivers[c]}
  <2>1. \/ table' = table
        \/ writing # NoClient /\ table' = [table EXCEPT ![writing] = receivers[writing]]
    BY DEF RtcNext, Handler, InstallKeys, Write, Take, WorkerStep, Refuse, Done, Decrypt, Lock,
           Forward, ForwardBeside, Unprotected, EndForward, Feedback, rtcVars, lockVars
  <2> QED
    BY <1>0, <2>1
<1>2. ASSUME NEW w \in Worker
      PROVE  from'[w] \in {from[w], NoClient} \/ \E a \in Addr : from'[w] = client_storage[a]
  <2>1. \/ from' = from
        \/ \E v \in Worker : from' = [from EXCEPT ![v] = NoClient]
        \/ \E v \in Worker, a \in Addr : from' = [from EXCEPT ![v] = client_storage[a]]
    BY DEF RtcNext, Handler, InstallKeys, Write, Take, WorkerStep, Refuse, Done, Decrypt, Lock,
           Forward, ForwardBeside, Unprotected, EndForward, Feedback, rtcVars, jobVars
  <2> QED
    BY <1>0, <2>1
<1> QED
  BY <1>1, <1>2

(* Where the addresses come from that a thread has sent its packet to: the *)
(* table of the packet's client, or its sender_addr.                       *)
LEMMA SentWhereto ==
  ASSUME RtcInv, [RtcNext]_rtcVars, NEW w \in Worker, NEW a \in sent'[w]
  PROVE  /\ from'[w] = from[w] /\ from[w] \in Client
         /\ \/ a \in sent[w]
            \/ a \in Addr /\ table[from[w]][a] # NoClient
            \/ a = sender_addr[from[w]] /\ a # NoAddr
<1>0. /\ sent \in [Worker -> SUBSET Addr] /\ from \in [Worker -> Client \cup {NoClient}]
      /\ pc \in [Worker -> {"idle", "decrypt", "lock", "forward", "feedback"}]
      /\ \A v \in Worker : sent[v] # {} => pc[v] \in {"forward", "feedback"}
      /\ \A v \in Worker : pc[v] # "idle" => from[v] \in Client
  BY DEF RtcInv, RtcTypeOK, JobTypeOK
<1>1. ASSUME sent'[w] = sent[w], from'[w] = from[w]
      PROVE  from'[w] = from[w] /\ from[w] \in Client /\ a \in sent[w]
  BY <1>0, <1>1
<1>2. ASSUME NEW v \in Worker, NEW b \in Addr, NEW rtcp \in BOOLEAN, Take(v, b, rtcp)
      PROVE  sent'[w] = sent[w] /\ from'[w] = from[w]
  <2>1. sent' = sent /\ from' = [from EXCEPT ![v] = client_storage[b]] /\ pc[v] = "idle"
    BY <1>2 DEF Take, Goto
  <2> QED
    BY <1>0, <2>1
<1>3. ASSUME NEW v \in Worker, NEW here, Done(v, here)
      PROVE  sent'[w] = sent[w] /\ from'[w] = from[w]
  <2>1. sent' = [sent EXCEPT ![v] = {}] /\ from' = [from EXCEPT ![v] = NoClient]
    BY <1>3 DEF Done
  <2> QED
    BY <1>0, <2>1
<1>4. ASSUME NEW v \in Worker, NEW b \in Addr, Forward(v, b) \/ ForwardBeside(v, b)
      PROVE  /\ from'[w] = from[w] /\ from[w] \in Client
             /\ a \in sent[w] \/ (a \in Addr /\ table[from[w]][a] # NoClient)
  <2>1. /\ from' = from /\ pc[v] = "forward" /\ b \in todo[v]
        /\ sent' = sent \/ sent' = [sent EXCEPT ![v] = sent[v] \cup {b}]
    BY <1>4 DEF Forward, ForwardBeside
  <2>2. b \in Filed(from[v])
    BY <2>1 DEF RtcInv, Covered
  <2>3. a \in sent[w] \/ (v = w /\ a = b)
    BY <1>0, <2>1
  <2>4. from[w] \in Client
    BY <1>0, <2>1, <2>3
  <2> QED
    BY <2>1, <2>2, <2>3, <2>4 DEF Filed
<1>5. ASSUME NEW v \in Worker, Feedback(v)
      PROVE  /\ from'[w] = from[w] /\ from[w] \in Client
             /\ a \in sent[w] \/ (a = sender_addr[from[w]] /\ a # NoAddr)
  <2>1. PICK to \in {FeedbackTo(from[v]), {}} : sent' = [sent EXCEPT ![v] = to]
    BY <1>5 DEF Feedback
  <2>2. from' = from /\ pc[v] = "feedback"
    BY <1>5 DEF Feedback, Goto
  <2>3. a \in sent[w] \/ (v = w /\ a \in FeedbackTo(from[v]))
    BY <1>0, <2>1
  <2>4. from[w] \in Client
    BY <1>0, <2>2, <2>3
  <2> QED
    BY <2>2, <2>3, <2>4 DEF FeedbackTo
<1>6. CASE UNCHANGED <<sent, from>>
  BY <1>1, <1>6
<1> QED
  BY <1>1, <1>2, <1>3, <1>4, <1>5, <1>6
  DEF RtcNext, Handler, InstallKeys, Write, WorkerStep, Refuse, Decrypt, Lock, Unprotected,
      EndForward, jobVars, rtcVars

(* Every packet goes to the present client of its address, with its keys.  *)
THEOREM PacketsGoToCurrentClients == RtcSpec => SentToCurrent
<1> DEFINE Sends == \A w \in Worker : \A a \in sent'[w] \ sent[w] :
       /\ client_storage[a] # NoClient /\ srtp[client_storage[a]]
       /\ pc[w] = "forward" => table[from[w]][a] = client_storage[a]
<1>1. RtcInit => TablesAreFiled
  BY DEF RtcInit, ActorInit, NoReceivers, TablesAreFiled
<1>2. ActorInv /\ RtcInv /\ TablesAreFiled /\ [RtcNext]_rtcVars => TablesAreFiled'
  BY FiledStep
<1>3. ActorInv /\ RtcInv /\ TablesAreFiled /\ [RtcNext]_rtcVars => [Sends]_rtcVars
  <2> SUFFICES ASSUME ActorInv, RtcInv, TablesAreFiled, RtcNext,
                      NEW w \in Worker, NEW a \in sent'[w] \ sent[w]
               PROVE  /\ client_storage[a] # NoClient /\ srtp[client_storage[a]]
                      /\ pc[w] = "forward" => table[from[w]][a] = client_storage[a]
    OBVIOUS
  <2>1. \/ Forward(w, a) /\ a \in todo[w] /\ ~is_deleted[table[from[w]][a]]
            /\ srtp[table[from[w]][a]]
        \/ ForwardBeside(w, a)
        \/ Feedback(w)
    <3>1. sent' # sent
      OBVIOUS
    <3>2. PICK v \in Worker : \/ \E here \in {"decrypt", "forward"} : Done(v, here)
                              \/ \E b \in Addr : Forward(v, b) \/ ForwardBeside(v, b)
                              \/ Feedback(v)
      BY <3>1 DEF RtcNext, Handler, InstallKeys, Write, Take, WorkerStep, Refuse, Decrypt, Lock,
                  Unprotected, EndForward, jobVars
    <3>3. ASSUME NEW here, Done(v, here) PROVE FALSE
      BY <3>3 DEF Done, RtcInv, RtcTypeOK
    <3>4. ASSUME NEW b \in Addr, ForwardBeside(v, b) PROVE v = w /\ b = a
      BY <3>4 DEF ForwardBeside, RtcInv, RtcTypeOK
    <3>5. ASSUME NEW b \in Addr, Forward(v, b)
          PROVE  /\ v = w /\ b = a /\ ~is_deleted[table[from[w]][a]]
                 /\ srtp[table[from[w]][a]] /\ a \in todo[w]
      BY <3>1, <3>5 DEF Forward, Skipped, RtcInv, RtcTypeOK
    <3>6. Feedback(v) => v = w
      BY DEF Feedback, RtcInv, RtcTypeOK
    <3> QED
      BY <3>2, <3>3, <3>4, <3>5, <3>6
  <2>2. CASE Forward(w, a) \/ ForwardBeside(w, a)
    <3>1. PICK c \in Client : c = from[w]
      BY <2>2 DEF Forward, ForwardBeside, RtcInv, JobTypeOK
    <3>2. PICK r : r = table[c][a]
      OBVIOUS
    <3>3. ~is_deleted[r] /\ srtp[r] /\ a \in todo[w] /\ pc[w] = "forward"
      BY <2>1, <2>2, <3>1, <3>2 DEF Forward, ForwardBeside, Skipped, Feedback, Goto
    <3>4. a \in Addr /\ r \in Client /\ owner[r] = a
      BY <3>1, <3>2, <3>3 DEF RtcInv, Covered, Filed, RtcTypeOK, TablesAreFiled
    <3>5. client_storage[a] = r
      BY <3>3, <3>4, ClientActorAssumption DEF ActorInv, StorageIsLive, Live
    <3> QED
      BY <3>1, <3>2, <3>3, <3>4, <3>5, ClientActorAssumption
  <2>3. CASE Feedback(w)
    <3>1. PICK to \in {FeedbackTo(from[w]), {}} : sent' = [sent EXCEPT ![w] = to]
      BY <2>3 DEF Feedback
    <3>2. a \in FeedbackTo(from[w]) /\ pc[w] = "feedback"
      BY <2>3, <3>1 DEF RtcInv, RtcTypeOK, Feedback, Goto
    <3> QED
      BY <3>2 DEF FeedbackTo
  <2> QED
    BY <2>1, <2>2, <2>3
<1> QED
  BY <1>1, <1>2, <1>3, RtcInvariant, PTL DEF RtcSpec, SentToCurrent

-----------------------------------------------------------------------------
(* With plain members only: nobody is listed at, or fed by, a client of    *)
(* its own address, and no packet has gone back where it came from.        *)
EchoInv ==
  /\ \A c \in Client, a \in Addr :
       receivers[c][a] # NoClient \/ table[c][a] # NoClient => owner[c] \notin {a, NoAddr}
  /\ \A c \in Client : sender_addr[c] # NoAddr => sender_addr[c] # owner[c]
  /\ \A w \in Worker : from[w] # NoClient => owner[from[w]] # NoAddr
  /\ NoEcho

(* With plain members, a handler never files a client with itself. *)
LEMMA EchoHandler ==
  ASSUME Roles = {FALSE}, ActorInv, RtcInv, EchoInv, Handler
  PROVE  EchoInv'
<1> USE ClientActorAssumption
<1>1. UNCHANGED <<table, srtp, pc, from, is_rtcp, todo, sent, failed, hindered>>
  BY DEF Handler, jobVars
<1>2. ASSUME NEW a \in Addr, NEW c \in Client, Open(a, c) PROVE EchoInv'
  <2>1. /\ owner[c] = NoAddr /\ owner' = [owner EXCEPT ![c] = a]
        /\ UNCHANGED <<receivers, sender_addr>> /\ sender_addr[c] = NoAddr
    BY <1>2 DEF Open, OpenClient, ActorInv, UnusedIsFresh
  <2>2. \A w \in Worker : from[w] # c
    BY <2>1 DEF EchoInv
  <2>3. \A w \in Worker : from[w] # NoClient => owner'[from[w]] = owner[from[w]]
    BY <2>1, <2>2 DEF RtcInv, RtcTypeOK, ActorInv, ActorTypeOK
  <2>4. \A d \in Client : d # c => owner'[d] = owner[d]
    BY <2>1 DEF ActorInv, ActorTypeOK
  <2> QED
    BY <1>1, <2>1, <2>3, <2>4 DEF EchoInv, NoEcho
<1>3. ASSUME NEW a \in Addr, Delete(a) PROVE EchoInv'
  <2>1. CASE client_storage[a] = NoClient
    BY <1>1, <1>3, <2>1 DEF Delete, DeleteMessage, actorVars, feedVars, EchoInv, NoEcho
  <2>2. CASE client_storage[a] # NoClient
    <3>1. PICK c \in Client : c = client_storage[a]
      BY <2>2, CurrentIsLive DEF ActorInv
    <3>2. /\ receivers' = [receivers EXCEPT ![c] = KeepLiveReceivers(c)]
          /\ UNCHANGED <<owner, sender_addr>>
      BY <1>3, <2>2, <3>1, DeleteOutcome DEF Delete
    <3>3. \A d \in Client, b \in Addr : receivers'[d][b] \in {receivers[d][b], NoClient}
      BY <3>1, <3>2 DEF KeepLiveReceivers, ActorInv, ActorTypeOK
    <3> QED
      BY <1>1, <3>2, <3>3 DEF EchoInv, NoEcho
  <2> QED
    BY <2>1, <2>2
<1>4. ASSUME NEW g \in Groups, NEW a \in Addr, NEW is_sender \in Roles, Group(g, a, is_sender)
      PROVE  EchoInv'
  <2>1. PICK last \in Addr : last = LastSender(g, a)
    BY <1>4, GroupIdOutcome DEF Group, ActorInv
  <2>2. GroupId(g, a, is_sender) /\ is_sender = FALSE
    BY <1>4 DEF Group
  <2>3. CASE UNCHANGED feedVars
    BY <1>1, <2>3 DEF feedVars, EchoInv, NoEcho
  <2>4. CASE /\ ~ReturnsEarly(last, a, is_sender)
             /\ client_storage[a] # NoClient /\ client_storage[last] # NoClient
             /\ Attach(last, a)
    <3>1. last # a
      BY <2>2, <2>4 DEF ReturnsEarly
    <3>2. PICK s \in Client, r \in Client :
            /\ s = client_storage[last] /\ r = client_storage[a]
            /\ owner[s] = last /\ owner[r] = a
      BY <2>4, CurrentIsLive DEF ActorInv
    <3>3. /\ receivers' = [receivers EXCEPT ![s] = [receivers[s] EXCEPT ![a] = r]]
          /\ sender_addr' = [sender_addr EXCEPT ![r] = last] /\ owner' = owner
      BY <2>4, <3>2 DEF Attach
    <3>4. \A c \in Client, b \in Addr :
            receivers'[c][b] = receivers[c][b] \/ (c = s /\ b = a)
      BY <3>3 DEF ActorInv, ActorTypeOK
    <3>5. \A c \in Client : sender_addr'[c] = sender_addr[c] \/ (c = r /\ sender_addr'[c] = last)
      BY <3>3 DEF ActorInv, ActorTypeOK
    <3> QED
      BY <1>1, <3>1, <3>2, <3>3, <3>4, <3>5 DEF EchoInv, NoEcho
  <2> QED
    BY <2>1, <2>2, <2>3, <2>4, GroupIdOutcome DEF ActorInv, Handover
<1>5. ASSUME NEW a \in Addr, NEW freqs \in SUBSET Frequency, Media(a, freqs) PROVE EchoInv'
  BY <1>1, <1>5 DEF Media, MediaAddr, feedVars, EchoInv, NoEcho
<1> QED
  BY <1>2, <1>3, <1>4, <1>5 DEF Handler

(* Nor does a thread send a packet back. *)
LEMMA EchoStep ==
  ASSUME Roles = {FALSE}, ActorInv, RtcInv, EchoInv, [RtcNext]_rtcVars
  PROVE  EchoInv'
<1>1. CASE Write
  <2>1. PICK c \in Client : c = writing
    BY <1>1 DEF Write, RtcInv, RtcTypeOK
  <2>2. /\ table' = [table EXCEPT ![c] = receivers[c]]
        /\ UNCHANGED <<receivers, owner, sender_addr, from, sent>>
    BY <1>1, <2>1 DEF Write, actorVars, feedVars, jobVars
  <2>3. \A d \in Client : table'[d] \in {table[d], receivers[d]}
    BY <2>2 DEF RtcInv, RtcTypeOK
  <2> QED
    BY <2>2, <2>3 DEF EchoInv, NoEcho
<1>2. ASSUME NEW w \in Worker, UNCHANGED <<receivers, table, owner, sender_addr>>,
             \A v \in Worker \ {w} : from'[v] = from[v] /\ sent'[v] = sent[v],
             from'[w] # NoClient => /\ owner[from'[w]] # NoAddr
                                    /\ owner[from'[w]] \notin sent'[w]
      PROVE  EchoInv'
  BY <1>2 DEF EchoInv, NoEcho
<1>3. ASSUME NEW w \in Worker, NEW a \in Addr, NEW rtcp \in BOOLEAN, Take(w, a, rtcp)
      PROVE  EchoInv'
  <2>1. PICK c \in Client : c = client_storage[a] /\ owner[c] = a
    BY <1>3, CurrentIsLive DEF Take, ActorInv
  <2>2. sent' = sent /\ from' = [from EXCEPT ![w] = c] /\ sent[w] = {}
    BY <1>3, <2>1 DEF Take, Goto, RtcInv, JobTypeOK
  <2>3. UNCHANGED <<receivers, table, owner, sender_addr>>
    BY <1>3 DEF Take, actorVars, feedVars, lockVars
  <2> QED
    BY <1>2, <2>1, <2>2, <2>3, ClientActorAssumption DEF RtcInv, RtcTypeOK
<1>4. ASSUME NEW w \in Worker, WorkerStep(w) PROVE EchoInv'
  <2>1. UNCHANGED <<receivers, table, owner, sender_addr>>
    BY <1>4 DEF WorkerStep, Refuse, Done, Decrypt, Lock, Forward, ForwardBeside, Unprotected,
                EndForward, Feedback, actorVars, feedVars, lockVars
  <2>2. ASSUME NEW here, Done(w, here) PROVE EchoInv'
    BY <1>2, <2>1, <2>2 DEF Done, RtcInv, RtcTypeOK
  <2>3. ASSUME NEW a \in Addr, Forward(w, a) \/ ForwardBeside(w, a) PROVE EchoInv'
    <3>1. /\ from' = from
          /\ sent' = sent \/ sent' = [sent EXCEPT ![w] = sent[w] \cup {a}]
      BY <2>3 DEF Forward, ForwardBeside
    <3>2. a \in Filed(from[w]) /\ from[w] \in Client
      BY <2>3 DEF Forward, ForwardBeside, RtcInv, Covered, JobTypeOK
    <3>3. owner[from[w]] # a
      BY <3>2 DEF EchoInv, Filed
    <3>4. from \in [Worker -> Client \cup {NoClient}] /\ sent \in [Worker -> SUBSET Addr]
      BY DEF RtcInv, RtcTypeOK
    <3>5. \A v \in Worker \ {w} : from'[v] = from[v] /\ sent'[v] = sent[v]
      BY <3>1, <3>4
    <3>6. from'[w] = from[w] /\ sent'[w] \subseteq sent[w] \cup {a}
      BY <3>1, <3>4
    <3>7. from[w] # NoClient => owner[from[w]] # NoAddr /\ owner[from[w]] \notin sent[w]
      BY DEF EchoInv, NoEcho
    <3> QED
      BY <1>2, <2>1, <3>3, <3>5, <3>6, <3>7
  <2>4. CASE Feedback(w)
    <3>1. PICK to \in {FeedbackTo(from[w]), {}} : sent' = [sent EXCEPT ![w] = to]
      BY <2>4 DEF Feedback
    <3>2. from[w] \in Client /\ from' = from
      BY <2>4 DEF Feedback, Goto, RtcInv, JobTypeOK
    <3>3. owner[from[w]] \notin to
      BY <3>1, <3>2 DEF FeedbackTo, EchoInv
    <3> QED
      BY <1>2, <2>1, <3>1, <3>2, <3>3 DEF RtcInv, RtcTypeOK, EchoInv
  <2>5. CASE UNCHANGED <<from, sent>>
    BY <2>1, <2>5 DEF EchoInv, NoEcho
  <2> QED
    BY <1>4, <2>2, <2>3, <2>4, <2>5
    DEF WorkerStep, Refuse, EndForward, Decrypt, Lock, Unprotected, jobVars
<1>5. CASE UNCHANGED <<receivers, table, owner, sender_addr, from, sent>>
  BY <1>5 DEF EchoInv, NoEcho
<1> QED
  BY <1>1, <1>3, <1>4, <1>5, EchoHandler
  DEF RtcNext, InstallKeys, rtcVars, actorVars, feedVars, lockVars, jobVars

(* While every session is a plain member, no client is sent its own media  *)
(* or feedback, however the threads and ClientActor interleave.            *)
THEOREM NoPacketIsEchoed ==
  ASSUME Roles = {FALSE}
  PROVE  RtcSpec => []NoEcho
<1>1. RtcInit => EchoInv
  BY ClientActorAssumption DEF RtcInit, ActorInit, EchoInv, NoEcho, NoReceivers
<1>2. ActorInv /\ RtcInv /\ EchoInv /\ [RtcNext]_rtcVars => EchoInv'
  BY EchoStep
<1>3. EchoInv => NoEcho
  BY DEF EchoInv
<1> QED
  BY <1>1, <1>2, <1>3, RtcInvariant, PTL DEF RtcSpec

=============================================================================
